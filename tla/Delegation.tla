------------------------------ MODULE Delegation ------------------------------
(* Delegated tasks that depend on one another: the handlers of task_delegate,
   task_revise and wait_for, the board on which they meet (one future per task
   name) and the task documents that outlive it. A handler is a sequence of
   steps cut where the code awaits; between two steps any other handler runs.

   A task goes by one name: its ref and its task id settle together. *)
EXTENDS Naturals, Sequences

CONSTANTS
  Tasks,          \* tasks that may be delegated, each once
  Waits,          \* wait_for calls
  After,          \* task -> the tasks named in its `after`, in order
  Target,         \* wait_for call -> the task it waits for
  Earlier,        \* task -> status of a document an older run left under its ref
  MaxRevisions,   \* MAX_REVISIONS
  MaxAsked,       \* bound of the model: revisions the coordinator asks of one task
  MaxUpsets,      \* bound of the model: failures and resets of the board in a behaviour
  Faults          \* which of them may happen

Final == {"completed", "blocked", "failed"}
NoAnswer == "none"
NoWait == [id |-> 0, known |-> FALSE]
Answers == Final \cup {"unknown", "timeout", "aborted", NoAnswer}
FaultKinds == {"abort", "references", "prepare", "storage", "reset"}

ASSUME DelegationAssumption ==
  /\ Tasks \cap Waits = {}
  /\ After \in [Tasks -> Seq(Tasks)]
  /\ Target \in [Waits -> Tasks]
  /\ Earlier \in [Tasks -> Final \cup {"none", "in_progress"}]
  /\ MaxRevisions \in Nat /\ MaxAsked \in Nat /\ MaxUpsets \in Nat
  /\ Faults \subseteq FaultKinds

VARIABLES
  slot,      \* task -> its entry in the board; `id` tells a slot from the one before it
  doc,       \* task -> status of the document this run made, "none" before that
  at,        \* handler -> where it is
  met,       \* task -> how many of its dependencies it has been given
  wait,      \* handler -> id of the slot it awaits, and whether the board had the name before
  answer,    \* handler -> what it was told about the task it asked for
  entry,     \* task -> outcome its handler is about to put on the board
  partial,   \* task -> its worker stopped short
  revising,  \* task -> where its task_revise handler is
  revisions, \* task -> revisions recorded
  asked,     \* task -> revisions asked for (history, bounded by MaxAsked)
  aborted,   \* the run's signal has fired
  upset      \* history: the failures and resets that happened, in order

vars == <<slot, doc, at, met, wait, answer, entry, partial, revising, revisions,
          asked, aborted, upset>>
revision == <<revising, revisions, asked>>
world == <<aborted, upset>>

Handlers == Tasks \cup Waits
Stages == {"idle", "resolving", "asking", "reading", "awaiting", "parked", "answered",
           "cleared", "created", "running", "recorded", "settled", "failing", "done"}
Init ==
  /\ slot = [t \in Tasks |-> [id |-> 0, state |-> "none"]]
  /\ doc = [t \in Tasks |-> "none"]
  /\ at = [h \in Handlers |-> "idle"]
  /\ met = [t \in Tasks |-> 0]
  /\ wait = [h \in Handlers |-> NoWait]
  /\ answer = [h \in Handlers |-> NoAnswer]
  /\ entry = [t \in Tasks |-> NoAnswer]
  /\ partial = [t \in Tasks |-> FALSE]
  /\ revising = [t \in Tasks |-> "idle"]
  /\ revisions = [t \in Tasks |-> 0]
  /\ asked = [t \in Tasks |-> 0]
  /\ aborted = FALSE
  /\ upset = <<>>

Happens(fault) ==
  /\ fault \in Faults /\ Len(upset) < MaxUpsets
  /\ upset' = Append(upset, fault)

-----------------------------------------------------------------------------
(* The board *)

AsksFor(h) == IF h \in Waits THEN Target[h] ELSE After[h][met[h] + 1]

\* slotFor: the slot of a name, made open if the board has none.
SlotFor(s) == IF s.state = "none" THEN [id |-> s.id + 1, state |-> "open"] ELSE s

AnnouncedAnew(s) == SlotFor([s EXCEPT !.state = "none"])
\* announceDelegation: a settled slot is dropped and a new one made.
Announced(s) == SlotFor(IF s.state \in Final THEN [s EXCEPT !.state = "none"] ELSE s)

Announce(t) == slot' = [slot EXCEPT ![t] = Announced(@)]

\* Handlers whose promise is that of the slot `t` has now.
AwaitersOf(t) ==
  {h \in Handlers : at[h] = "parked" /\ AsksFor(h) = t /\ wait[h].id = SlotFor(slot[t]).id}

\* settleDelegation: the slot takes the outcome and its promise answers who awaits it.
Settle(t, outcome, stage) ==
  /\ slot' = [slot EXCEPT ![t] = [SlotFor(@) EXCEPT !.state = outcome]]
  /\ answer' = [h \in Handlers |->
                  IF h = t THEN NoAnswer ELSE IF h \in AwaitersOf(t) THEN outcome ELSE answer[h]]
  /\ wait' = [wait EXCEPT ![t] = NoWait]
  /\ at' = [h \in Handlers |->
              IF h = t THEN stage ELSE IF h \in AwaitersOf(t) THEN "answered" ELSE at[h]]

InDbUnfinished(t) ==
  LET status == IF doc[t] # "none" THEN doc[t] ELSE Earlier[t]
  IN  IF status \in Final THEN status ELSE IF status = "none" THEN NoAnswer ELSE "completed"
\* outcomeFromDb: the newest document that goes by the name, if it has finished.
InDb(t) ==
  LET status == IF doc[t] # "none" THEN doc[t] ELSE Earlier[t]
  IN  IF status \in Final THEN status ELSE NoAnswer

-----------------------------------------------------------------------------
(* task_delegate, and the waiting it shares with wait_for *)

Goto(h, stage) == at' = [at EXCEPT ![h] = stage]
FirstDependency(t) == IF met[t] < Len(After[t]) THEN "asking" ELSE "cleared"
NextDependency(t) == IF met[t] + 1 < Len(After[t]) THEN "asking" ELSE "cleared"

FailEarly(t) ==
  /\ Settle(t, "failed", "done")
  /\ UNCHANGED <<doc, met, entry, partial, revision, world>>

\* The call announces its ref before its first await.
Delegate(t) ==
  /\ at[t] = "idle" /\ ~aborted
  /\ Announce(t)
  /\ Goto(t, "resolving")
  /\ UNCHANGED <<doc, met, wait, answer, entry, partial, revision, world>>

Resolve(t) ==
  /\ at[t] = "resolving"
  /\ \/ /\ Goto(t, FirstDependency(t))
        /\ UNCHANGED <<slot, doc, met, wait, answer, entry, partial, revision, world>>
     \/ FailEarly(t)          \* no such worker, disabled, context too long
     \/ /\ Happens("references")  \* resolveContextReferences throws out of the handler
        /\ Goto(t, "done")
        /\ UNCHANGED <<slot, doc, met, wait, answer, entry, partial, revision, aborted>>

WaitFor(w) ==
  /\ at[w] = "idle" /\ ~aborted
  /\ Goto(w, "asking")
  /\ UNCHANGED <<slot, doc, met, wait, answer, entry, partial, revision, world>>

\* board.delegationOutcome(name) ?? await outcomeFromDb(name)
Ask(h) ==
  /\ at[h] = "asking"
  /\ LET state == slot[AsksFor(h)].state IN
     IF state \in Final
     THEN Goto(h, "answered") /\ answer' = [answer EXCEPT ![h] = state]
     ELSE Goto(h, "reading") /\ UNCHANGED answer
  /\ UNCHANGED <<slot, doc, met, wait, entry, partial, revision, world>>

ReadDb(h) ==
  /\ at[h] = "reading"
  /\ answer' = [answer EXCEPT ![h] = InDb(AsksFor(h))]
  /\ Goto(h, "awaiting")
  /\ UNCHANGED <<slot, doc, met, wait, entry, partial, revision, world>>

\* Nothing found: awaitDelegation, which makes the slot if need be and parks on it.
Await(h) ==
  /\ at[h] = "awaiting"
  /\ LET n == AsksFor(h)
         s == SlotFor(slot[n])
     IN  \/ /\ answer[h] # NoAnswer
            /\ Goto(h, "answered")
            /\ UNCHANGED <<slot, wait, answer>>
         \/ /\ answer[h] = NoAnswer /\ s.state \in Final
            /\ Goto(h, "answered")
            /\ answer' = [answer EXCEPT ![h] = s.state]
            /\ UNCHANGED <<slot, wait>>
         \/ /\ answer[h] = NoAnswer /\ s.state = "open"
            /\ Goto(h, "parked")
            /\ slot' = [slot EXCEPT ![n] = s]
            /\ wait' = [wait EXCEPT ![h] = [id |-> s.id, known |-> slot[n].state # "none"]]
            /\ UNCHANGED answer
  /\ UNCHANGED <<doc, met, entry, partial, revision, world>>

\* The timer of a parked handler: a grace period or the whole budget.
Timer(h) ==
  /\ at[h] = "parked"
  /\ answer' = [answer EXCEPT ![h] = IF wait[h].known THEN "timeout" ELSE "unknown"]
  /\ Goto(h, "answered")
  /\ UNCHANGED <<slot, doc, met, wait, entry, partial, revision, world>>

WaitEnds(w) ==
  /\ at[w] = "answered"
  /\ Goto(w, "done")
  /\ answer' = [answer EXCEPT ![w] = NoAnswer]
  /\ wait' = [wait EXCEPT ![w] = NoWait]
  /\ UNCHANGED <<slot, doc, met, entry, partial, revision, world>>

\* The handoff of one dependency: go on to the next one, or give up.
UseAnswer(t) ==
  /\ at[t] = "answered"
  /\ IF answer[t] = "completed"
     THEN /\ Goto(t, NextDependency(t))
          /\ met' = [met EXCEPT ![t] = @ + 1]
          /\ answer' = [answer EXCEPT ![t] = NoAnswer]
          /\ wait' = [wait EXCEPT ![t] = NoWait]
          /\ UNCHANGED <<slot, doc, entry, partial, revision, world>>
     ELSE FailEarly(t)

\* A reader whose areas have a current finding is not run; no document is made.
Reuse(t) ==
  /\ at[t] = "cleared"
  /\ Settle(t, "completed", "done")
  /\ UNCHANGED <<doc, met, entry, partial, revision, world>>

CreateDoc(t) ==
  /\ at[t] = "cleared"
  /\ doc' = [doc EXCEPT ![t] = "in_progress"]
  /\ Announce(t)
  /\ Goto(t, "created")
  /\ UNCHANGED <<met, wait, answer, entry, partial, revision, world>>

\* The worker starts, unless the signal fired while the document was written.
Start(t) ==
  /\ at[t] = "created" /\ ~aborted
  /\ Goto(t, "running")
  /\ UNCHANGED <<slot, doc, met, wait, answer, entry, partial, revision, world>>

\* updateTask(failed), then the board: failEarlyTask and the catch block.
Fail(t) ==
  /\ at[t] \in {"created", "running"}
  /\ doc' = [doc EXCEPT ![t] = "failed"]
  /\ Goto(t, "failing")
  /\ UNCHANGED <<slot, met, wait, answer, entry, partial, revision, world>>

\* A conflicting write makes updateTask, recordOutcome or updateProjectProgress throw.
Conflict(t) ==
  /\ Happens("storage")
  /\ \/ at[t] \in {"recorded", "settled"}      \* inside the try: its catch block
        /\ doc' = [doc EXCEPT ![t] = "failed"]
        /\ Goto(t, "failing")
     \/ at[t] \in {"cleared", "created", "running", "recorded", "settled"}  \* elsewhere, or in it
        /\ Goto(t, "done")
        /\ UNCHANGED doc
  /\ UNCHANGED <<slot, met, wait, answer, entry, partial, revision, aborted>>

SettleFailed(t) ==
  /\ at[t] = "failing"
  /\ Settle(t, "failed", "done")
  /\ UNCHANGED <<doc, met, entry, partial, revision, world>>

\* The worker delivers: updateTask with the verdict on its acceptance and merge.
Deliver(t) ==
  /\ at[t] = "running"
  /\ \E status \in {"completed", "blocked"}, short \in BOOLEAN :
       /\ doc' = [doc EXCEPT ![t] = status]
       /\ partial' = [partial EXCEPT ![t] = short]
       /\ entry' = [entry EXCEPT ![t] =
                      IF short /\ status = "completed" THEN "blocked" ELSE status]
  /\ Goto(t, "recorded")
  /\ UNCHANGED <<slot, met, wait, answer, revision, world>>

\* recordOutcome has been written; now the board is told.
Publish(t) ==
  /\ at[t] = "recorded"
  /\ Settle(t, entry[t], "settled")
  /\ UNCHANGED <<doc, met, entry, partial, revision, world>>

EndDelegate(t) ==
  /\ at[t] = "settled"
  /\ Goto(t, "done")
  /\ UNCHANGED <<slot, doc, met, wait, answer, entry, partial, revision, world>>

-----------------------------------------------------------------------------
(* task_revise *)

Rgoto(t, stage) == revising' = [revising EXCEPT ![t] = stage]

ReviseQuietly(t) ==
  /\ at[t] = "done" /\ revising[t] = "idle" /\ doc[t] # "none" /\ ~aborted
  /\ revisions[t] < MaxRevisions /\ asked[t] < MaxAsked
  /\ asked' = [asked EXCEPT ![t] = @ + 1]
  /\ doc' = [doc EXCEPT ![t] = "in_progress"]
  /\ Rgoto(t, "running")
  /\ UNCHANGED <<slot, at, met, wait, answer, entry, partial, revisions, world>>
\* The coordinator revises a task whose call it has read the result of.
Revise(t) ==
  /\ at[t] = "done" /\ revising[t] = "idle" /\ doc[t] # "none" /\ ~aborted
  /\ revisions[t] < MaxRevisions /\ asked[t] < MaxAsked
  /\ asked' = [asked EXCEPT ![t] = @ + 1]
  /\ doc' = [doc EXCEPT ![t] = "in_progress"]
  /\ Announce(t)
  /\ Rgoto(t, "running")
  /\ UNCHANGED <<at, met, wait, answer, entry, partial, revisions, world>>

\* swarm.prepare fails: the document says failed and the handler returns.
RevisePrepareFails(t) ==
  /\ Happens("prepare")
  /\ revising[t] = "running"
  /\ doc' = [doc EXCEPT ![t] = "failed"]
  /\ Rgoto(t, "idle")
  /\ UNCHANGED <<slot, at, met, wait, answer, entry, partial, revisions, asked, aborted>>

ReviseDelivers(t) ==
  /\ revising[t] = "running"
  /\ \E status \in {"completed", "blocked"} :
       /\ doc' = [doc EXCEPT ![t] = status]
       /\ entry' = [entry EXCEPT ![t] = status]
  /\ Rgoto(t, "recorded")
  /\ UNCHANGED <<slot, at, met, wait, answer, partial, revisions, asked, world>>

RevisePublishes(t) ==
  /\ revising[t] = "recorded"
  /\ Settle(t, entry[t], "done")
  /\ Rgoto(t, "settled")
  /\ UNCHANGED <<doc, met, entry, partial, revisions, asked, world>>

ReviseEnds(t) ==
  /\ revising[t] = "settled"
  /\ revisions' = [revisions EXCEPT ![t] = @ + 1]
  /\ Rgoto(t, "idle")
  /\ UNCHANGED <<slot, doc, at, met, wait, answer, entry, partial, asked, world>>

\* The worker throws, or a write conflicts; the catch block writes the document.
ReviseFails(t) ==
  /\ \/ revising[t] = "running" /\ UNCHANGED upset
     \/ revising[t] \in {"recorded", "settled"} /\ Happens("storage")
  /\ doc' = [doc EXCEPT ![t] = "failed"]
  /\ Rgoto(t, "failing")
  /\ UNCHANGED <<slot, at, met, wait, answer, entry, partial, revisions, asked, aborted>>

ReviseForgetsToSettle(t) ==
  /\ revising[t] = "failing"
  /\ Rgoto(t, "idle")
  /\ UNCHANGED <<slot, doc, at, met, wait, answer, entry, partial, revisions, asked, world>>
ReviseSettlesFailed(t) ==
  /\ revising[t] = "failing"
  /\ Settle(t, "failed", "done")
  /\ Rgoto(t, "idle")
  /\ UNCHANGED <<doc, met, entry, partial, revisions, asked, world>>

-----------------------------------------------------------------------------
(* The rest of the process *)

\* The run's signal: every parked handler is listening.
Abort ==
  /\ ~aborted /\ Happens("abort")
  /\ aborted' = TRUE
  /\ at' = [h \in Handlers |-> IF at[h] = "parked" THEN "answered" ELSE at[h]]
  /\ answer' = [h \in Handlers |-> IF at[h] = "parked" THEN "aborted" ELSE answer[h]]
  /\ UNCHANGED <<slot, doc, met, wait, entry, partial, revision>>

\* resetDelegationBoard, at the start of any task the coordinator takes on.
ResetBoard ==
  /\ Happens("reset")
  /\ slot' = [t \in Tasks |-> [slot[t] EXCEPT !.state = "none"]]
  /\ UNCHANGED <<doc, at, met, wait, answer, entry, partial, revision, aborted>>

DelegateStep(t) ==
  \/ Resolve(t) \/ UseAnswer(t) \/ Reuse(t) \/ CreateDoc(t) \/ Start(t) \/ Fail(t)
  \/ Conflict(t) \/ SettleFailed(t) \/ Deliver(t) \/ Publish(t) \/ EndDelegate(t)
ReviseStep(t) ==
  \/ RevisePrepareFails(t) \/ ReviseDelivers(t) \/ RevisePublishes(t)
  \/ ReviseEnds(t) \/ ReviseFails(t) \/ ReviseSettlesFailed(t)
WaitStep(h) == Ask(h) \/ ReadDb(h) \/ Await(h)

Done == /\ \A h \in Handlers : at[h] \in {"idle", "done"}
        /\ \A t \in Tasks : revising[t] = "idle"
        /\ UNCHANGED vars
Next ==
  \/ \E t \in Tasks : Delegate(t) \/ DelegateStep(t) \/ Revise(t) \/ ReviseStep(t)
  \/ \E w \in Waits : WaitFor(w) \/ WaitEnds(w)
  \/ \E h \in Handlers : WaitStep(h) \/ Timer(h)
  \/ Abort \/ ResetBoard \/ Done

Spec == Init /\ [][Next]_vars
\* The event loop runs every handler that can go on. No call has to be made, and no
\* timer has to fire.
FairSpec ==
  /\ Spec
  /\ \A t \in Tasks : WF_vars(DelegateStep(t)) /\ WF_vars(ReviseStep(t))
  /\ \A h \in Handlers : WF_vars(WaitStep(h))

-----------------------------------------------------------------------------
(* Properties *)

TypeOK ==
  /\ slot \in [Tasks -> [id : Nat, state : Final \cup {"none", "open"}]]
  /\ doc \in [Tasks -> Final \cup {"none", "in_progress"}]
  /\ at \in [Handlers -> Stages]
  /\ met \in [Tasks -> Nat]
  /\ \A t \in Tasks : met[t] <= Len(After[t])
  /\ wait \in [Handlers -> [id : Nat, known : BOOLEAN]]
  /\ answer \in [Handlers -> Answers]
  /\ entry \in [Tasks -> Final \cup {NoAnswer}]
  /\ partial \in [Tasks -> BOOLEAN]
  /\ revising \in [Tasks -> {"idle", "running", "recorded", "settled", "failing"}]
  /\ revisions \in [Tasks -> 0 .. MaxRevisions]
  /\ asked \in [Tasks -> 0 .. MaxAsked]
  /\ aborted \in BOOLEAN
  /\ upset \in Seq(Faults) /\ Len(upset) <= MaxUpsets

\* None of these has happened.
Without(faults) == \A k \in 1 .. Len(upset) : upset[k] \notin faults

\* Who waits on the board waits on the slot it has now, and that slot is open: no
\* settle can miss a waiter, unless the board was reset under it.
NoOrphanWaiter ==
  Without({"reset"}) =>
  \A h \in Handlers : at[h] = "parked" =>
    /\ slot[AsksFor(h)].state = "open"
    /\ wait[h].id = slot[AsksFor(h)].id

Active(t) == at[t] \notin {"idle", "done"} \/ revising[t] # "idle"

\* A wait for a task that failed is answered: nobody is parked on a task whose
\* document says failed once its handlers have returned. A reset, a write that
\* conflicts and a revision whose workspace cannot be prepared break it.
FailedIsReported ==
  Without({"reset", "storage", "prepare"}) =>
  \A h \in Handlers : at[h] = "parked" =>
    LET t == AsksFor(h) IN doc[t] = "failed" => Active(t)

\* A finding that is reused completes the task without a document; a document that an older
\* run left under the name counts, too.
Delivered(t) ==
  \/ Earlier[t] = "completed"
  \/ /\ at[t] \in {"recorded", "settled", "done"}
     /\ "completed" \in {doc[t], slot[t].state} \/ asked[t] > 0

\* A worker starts only after every task it depends on was delivered (a revision that is
\* asked for later may undo what was delivered; a reset makes the board forget a finding
\* that was reused, and a write that conflicts after the settle fails a task its dependents
\* were told is completed).
StartsAfterDependencies ==
  Without({"reset", "storage"}) =>
  \A t \in Tasks : at[t] \in {"cleared", "created", "running"} =>
    \A i \in 1 .. Len(After[t]) : Delivered(After[t][i])

\* When a task is at rest the board says what its document says, save that a partial
\* delivery is completed in the document and blocked on the board.
BoardAgreesWithDb ==
  \A t \in Tasks :
    doc[t] \in Final /\ ~Active(t) /\ slot[t].state \in Final =>
      \/ slot[t].state = doc[t]
      \/ partial[t] /\ doc[t] = "completed" /\ slot[t].state = "blocked"

\* The outcome a slot has been given, which its promise handed out, never changes,
\* unless a write conflicts after it: then the handler settles a second time.
OutcomeIsFinal ==
  [][\A t \in Tasks :
       Without({"storage"}) /\ slot[t].state \in Final /\ slot'[t].id = slot[t].id /\ slot'[t].state # "none"
         => slot'[t].state = slot[t].state]_vars

\* Once every task was delegated, a parked handler is answered, without its timer,
\* whatever fails but the steps that leave a name open.
ParkedIsAnswered ==
  \A h \in Handlers :
    (at[h] = "parked" /\ \A t \in Tasks : at[t] # "idle")
      ~> (at[h] # "parked" \/ ~Without(Faults \ {"abort"}))

\* The board and the documents tell the same story, of a failure too (settleDelegation,
\* updateTask).
StoriesAgree == TypeOK /\ BoardAgreesWithDb /\ FailedIsReported
=============================================================================
