--------------------------- MODULE DelegationProofs ---------------------------
(* Delegated tasks, for any tasks and waits, any dependencies, any documents that older runs
   left, and any failures: whoever waits waits on the slot that will be settled, a worker
   starts after its dependencies, an outcome that was handed out is final, and the board and
   the documents tell the same story.

   A task is settled by its own handlers only, so that most of the argument is local to it
   (Story): how far the handlers are says what the document and the slot can be. What other
   handlers do to a task is little (Calm). *)
EXTENDS Delegation, TLAPS

\* Where a handler has its eye on a dependency, and where it has not made a document yet.
Asking == {"asking", "reading", "awaiting", "parked", "answered"}
Early == Asking \cup {"idle", "resolving", "cleared"}

Agree(t, outcome) ==
  outcome = doc[t] \/ (partial[t] /\ doc[t] = "completed" /\ outcome = "blocked")
AtRest(t) == at[t] \in {"settled", "done"} /\ revising[t] \in {"idle", "settled"}
Open(t) == slot[t].state \notin Final

\* A handler that asks has a dependency left to ask for; one that is past that has none.
Progress ==
  \A t \in Tasks :
    /\ at[t] \in Asking => met[t] < Len(After[t])
    /\ at[t] \in {"cleared", "created", "running"} => met[t] = Len(After[t])

\* What the document says where the handlers of the task are.
DocTells(t) ==
  /\ at[t] \in Early => doc[t] = "none"
  /\ at[t] \in {"created", "running"} => doc[t] = "in_progress"
  /\ at[t] = "failing" \/ revising[t] = "failing" => doc[t] = "failed"
  /\ revising[t] # "idle" => at[t] = "done" /\ asked[t] > 0 /\ revisions[t] < MaxRevisions

\* The slot has no outcome before a handler of the task has settled it.
NotYetSettled(t) ==
  /\ at[t] \in Early \cup {"created", "running", "recorded"} => Open(t)
  /\ revising[t] \in {"running", "recorded"} => Open(t)
  /\ Without({"storage"}) /\ (at[t] = "failing" \/ revising[t] = "failing") => Open(t)

\* What is put on the board, or is there, is what the document says.
OutcomeTells(t) ==
  /\ at[t] = "recorded" \/ revising[t] = "recorded" => entry[t] \in Final /\ Agree(t, entry[t])
  /\ AtRest(t) /\ doc[t] \in Final /\ ~Open(t) => Agree(t, slot[t].state)

\* A task that made a document is settled when it is at rest.
IsSettled(t) ==
  Without({"reset", "storage", "prepare"}) =>
    (at[t] = "settled" \/ (AtRest(t) /\ doc[t] # "none") => ~Open(t))

Story(t) == DocTells(t) /\ NotYetSettled(t) /\ OutcomeTells(t) /\ IsSettled(t)

\* The dependencies that a handler was given, and the one it was told of, were delivered.
Given(t) ==
  Without({"reset", "storage"}) =>
    /\ \A i \in 1 .. met[t] : Delivered(After[t][i])
    /\ at[t] \in {"awaiting", "answered"} /\ answer[t] = "completed" => Delivered(AsksFor(t))

IInv ==
  /\ TypeOK /\ Progress
  /\ NoOrphanWaiter
  /\ \A t \in Tasks : Story(t)
  /\ \A t \in Tasks : Given(t)

-----------------------------------------------------------------------------
(* Failures and resets *)

LEMMA HappensOnce ==
  ASSUME TypeOK, NEW fault, NEW faults, Happens(fault)
  PROVE  /\ upset' \in Seq(Faults) /\ Len(upset') <= MaxUpsets
         /\ Without(faults)' => Without(faults) /\ fault \notin faults
<1>1. /\ upset \in Seq(Faults) /\ fault \in Faults /\ upset' = Append(upset, fault)
      /\ Len(upset) < MaxUpsets /\ MaxUpsets \in Nat
  BY DelegationAssumption DEF TypeOK, Happens
<1>2. /\ upset' \in Seq(Faults) /\ Len(upset') = Len(upset) + 1
      /\ \A k \in 1 .. Len(upset) : upset'[k] = upset[k]
      /\ upset'[Len(upset) + 1] = fault
  BY <1>1
<1>3. Len(upset') <= MaxUpsets BY <1>1, <1>2
<1>4. ASSUME Without(faults)' PROVE Without(faults) /\ fault \notin faults
  <2>1. Len(upset) \in Nat BY <1>1
  <2>2. \A k \in 1 .. Len(upset) + 1 : upset'[k] \notin faults BY <1>4, <1>2 DEF Without
  <2>3. \A k \in 1 .. Len(upset) : upset[k] \notin faults BY <1>2, <2>1, <2>2
  <2>4. fault \notin faults BY <1>2, <2>1, <2>2
  <2> QED BY <2>3, <2>4 DEF Without
<1> QED BY <1>2, <1>3, <1>4

LEMMA SameUpset ==
  ASSUME upset' = upset, NEW faults PROVE Without(faults)' <=> Without(faults)
BY DEF Without

-----------------------------------------------------------------------------
(* The board *)

LEMMA AsksForTask ==
  ASSUME TypeOK, Progress, NEW h \in Handlers, at[h] \in Asking
  PROVE  AsksFor(h) \in Tasks
<1>1. CASE h \in Waits BY <1>1, DelegationAssumption DEF AsksFor
<1>2. CASE h \notin Waits
  <2>1. /\ h \in Tasks /\ After[h] \in Seq(Tasks)
        /\ met[h] \in Nat /\ met[h] < Len(After[h])
    BY <1>2, DelegationAssumption DEF Handlers, TypeOK, Progress
  <2>2. met[h] + 1 \in 1 .. Len(After[h]) BY <2>1
  <2>3. After[h][met[h] + 1] \in Tasks BY <2>1, <2>2
  <2> QED BY <1>2, <2>3 DEF AsksFor
<1> QED BY <1>1, <1>2

\* Whom a handler asks for depends on what it was given.
LEMMA AsksForSame ==
  ASSUME NEW h \in Handlers, h \in Tasks => met'[h] = met[h]
  PROVE  AsksFor(h)' = AsksFor(h)
BY DelegationAssumption DEF AsksFor, Handlers

\* The slot of a name is there after slotFor, and an announce leaves it without an outcome.
LEMMA SlotForOpen ==
  ASSUME TypeOK, NEW t \in Tasks
  PROVE  /\ SlotFor(slot[t]) \in [id : Nat, state : Final \cup {"open"}]
         /\ SlotFor(slot[t]).state = IF slot[t].state = "none" THEN "open" ELSE slot[t].state
         /\ slot[t].state # "none" => SlotFor(slot[t]) = slot[t]
BY DEF TypeOK, SlotFor, Final

LEMMA AnnouncedOpen ==
  ASSUME TypeOK, NEW t \in Tasks
  PROVE  /\ Announced(slot[t]) \in [id : Nat, state : {"open"}]
         /\ slot[t].state = "open" => Announced(slot[t]) = slot[t]
BY DEF TypeOK, SlotFor, Announced, Final

\* A settle changes one slot; it moves the handler that settles, and those it answers.
LEMMA SettleDoes ==
  ASSUME TypeOK, NEW t \in Tasks, NEW outcome \in Final, NEW stage \in {"done", "settled"},
         Settle(t, outcome, stage)
  PROVE  /\ slot' \in [Tasks -> [id : Nat, state : Final \cup {"none", "open"}]]
         /\ at' \in [Handlers -> Stages]
         /\ answer' \in [Handlers -> Answers]
         /\ wait' \in [Handlers -> [id : Nat, known : BOOLEAN]]
         /\ slot'[t].state = outcome
         /\ slot[t].state # "none" => slot'[t].id = slot[t].id
         /\ slot[t].state = "none" => slot'[t].id # slot[t].id
         /\ \A q \in Tasks : q # t => slot'[q] = slot[q]
         /\ at'[t] = stage
         /\ \A h \in Handlers : h # t =>
              /\ wait'[h] = wait[h]
              /\ \/ at'[h] = at[h] /\ answer'[h] = answer[h] /\ h \notin AwaitersOf(t)
                 \/ /\ h \in AwaitersOf(t)
                    /\ at'[h] = "answered" /\ answer'[h] = outcome
<1>1. SlotFor(slot[t]) \in [id : Nat, state : Final \cup {"open"}]
  BY SlotForOpen
<1>2. /\ slot' = [slot EXCEPT ![t] = [SlotFor(slot[t]) EXCEPT !.state = outcome]]
      /\ answer' = [h \in Handlers |->
                  IF h = t THEN NoAnswer ELSE IF h \in AwaitersOf(t) THEN outcome ELSE answer[h]]
      /\ wait' = [wait EXCEPT ![t] = NoWait]
      /\ at' = [h \in Handlers |->
              IF h = t THEN stage ELSE IF h \in AwaitersOf(t) THEN "answered" ELSE at[h]]
  BY DEF Settle
<1>3. t \in Handlers BY DEF Handlers
<1>4. slot' \in [Tasks -> [id : Nat, state : Final \cup {"none", "open"}]]
  <2>1. [SlotFor(slot[t]) EXCEPT !.state = outcome] \in [id : Nat, state : Final \cup {"none", "open"}]
    BY <1>1
  <2> QED BY <1>2, <2>1 DEF TypeOK
<1>5. slot'[t].state = outcome /\ slot'[t].id = SlotFor(slot[t]).id
  BY <1>1, <1>2 DEF TypeOK
<1>6. \A q \in Tasks : q # t => slot'[q] = slot[q]
  BY <1>2 DEF TypeOK
<1>7. /\ slot[t].state # "none" => SlotFor(slot[t]).id = slot[t].id
      /\ slot[t].state = "none" => SlotFor(slot[t]).id # slot[t].id
  BY DEF SlotFor, TypeOK
<1>8. /\ at' \in [Handlers -> Stages] /\ at'[t] = stage
      /\ answer' \in [Handlers -> Answers]
  BY <1>2, <1>3 DEF TypeOK, Stages, Answers
<1>9. wait' \in [Handlers -> [id : Nat, known : BOOLEAN]]
  BY <1>2 DEF TypeOK, NoWait
<1>10. \A h \in Handlers : h # t =>
              /\ wait'[h] = wait[h]
              /\ \/ at'[h] = at[h] /\ answer'[h] = answer[h] /\ h \notin AwaitersOf(t)
                 \/ /\ h \in AwaitersOf(t)
                    /\ at'[h] = "answered" /\ answer'[h] = outcome
  BY <1>2 DEF TypeOK
<1> QED BY <1>4, <1>5, <1>6, <1>7, <1>8, <1>9, <1>10

LEMMA Awaiting ==
  ASSUME TypeOK, NEW t \in Tasks, NEW h \in AwaitersOf(t)
  PROVE  at[h] = "parked" /\ AsksFor(h) = t /\ h \in Handlers
BY DEF AwaitersOf

-----------------------------------------------------------------------------
(* Types and progress *)

LEMMA SettleTyped ==
  ASSUME TypeOK, Progress, NEW t \in Tasks, NEW outcome \in Final, NEW stage \in {"done", "settled"},
         Settle(t, outcome, stage), UNCHANGED <<doc, met, entry, partial, revisions, asked, world>>,
         revising' \in [Tasks -> {"idle", "running", "recorded", "settled", "failing"}]
  PROVE  TypeOK' /\ Progress'
<1>1. /\ slot' \in [Tasks -> [id : Nat, state : Final \cup {"none", "open"}]]
      /\ at' \in [Handlers -> Stages]
      /\ answer' \in [Handlers -> Answers]
      /\ wait' \in [Handlers -> [id : Nat, known : BOOLEAN]]
  BY SettleDoes
<1>2. TypeOK' BY <1>1 DEF TypeOK, world
<1>3. \A q \in Tasks : at'[q] \in Asking => at[q] \in Asking
  BY SettleDoes, Awaiting DEF Asking, Handlers
<1>4. \A q \in Tasks : at'[q] \in {"cleared", "created", "running"} => at'[q] = at[q]
  BY SettleDoes, Awaiting DEF Asking, Handlers
<1>5. Progress' BY <1>3, <1>4 DEF Progress
<1> QED BY <1>2, <1>5

\* A handler moves: it is enough that its new place fits what it was given.
LEMMA MoveKeeps ==
  ASSUME TypeOK, Progress, NEW h \in Handlers, NEW stage \in Stages, Goto(h, stage), met' = met,
         h \in Tasks => /\ stage \in Asking => met[h] < Len(After[h])
                        /\ stage \in {"cleared", "created", "running"} => met[h] = Len(After[h])
  PROVE  Progress' /\ at' \in [Handlers -> Stages]
<1>1. at' = [at EXCEPT ![h] = stage] /\ at \in [Handlers -> Stages] BY DEF Goto, TypeOK
<1>2. at' \in [Handlers -> Stages] BY <1>1
<1>3. ASSUME NEW q \in Tasks
      PROVE  /\ at'[q] \in Asking => met'[q] < Len(After[q])
             /\ at'[q] \in {"cleared", "created", "running"} => met'[q] = Len(After[q])
  <2>1. q \in Handlers BY DEF Handlers
  <2>2. CASE q = h BY <1>1, <2>2
  <2>3. CASE q # h
    <3>1. at'[q] = at[q] BY <1>1, <2>1, <2>3
    <3> QED BY <3>1 DEF Progress
  <2> QED BY <2>2, <2>3
<1> QED BY <1>2, <1>3 DEF Progress

LEMMA DelegateTyped ==
  ASSUME IInv, NEW t \in Tasks, Delegate(t) \/ DelegateStep(t)
  PROVE  TypeOK' /\ Progress'
<1>0. TypeOK /\ Progress /\ t \in Handlers BY DEF Handlers, IInv
<1>a. met[t] \in Nat /\ met[t] <= Len(After[t]) /\ Len(After[t]) \in Nat
  BY <1>0, DelegationAssumption DEF TypeOK
<1>b. Announced(slot[t]) \in [id : Nat, state : {"open"}] BY <1>0, AnnouncedOpen
<1>1. CASE Delegate(t)
  <2>1. Goto(t, "resolving") /\ met' = met BY <1>1 DEF Delegate
  <2>2. Progress' /\ at' \in [Handlers -> Stages] BY <1>0, <2>1, MoveKeeps DEF Asking, Stages
  <2>3. TypeOK' BY <1>0, <1>b, <1>1, <2>2 DEF Delegate, Announce, TypeOK, revision, world
  <2> QED BY <2>2, <2>3
<1>2. CASE Resolve(t)
  <2>1. CASE FailEarly(t)
    BY <1>0, <2>1, SettleTyped DEF FailEarly, revision, TypeOK, Final
  <2>2. ASSUME Goto(t, FirstDependency(t)),
               UNCHANGED <<slot, doc, met, wait, answer, entry, partial, revision, world>>
        PROVE  TypeOK' /\ Progress'
    <3>1. /\ FirstDependency(t) \in {"asking", "cleared"}
          /\ FirstDependency(t) = "asking" => met[t] < Len(After[t])
          /\ FirstDependency(t) = "cleared" => met[t] = Len(After[t])
      BY <1>a DEF FirstDependency
    <3>2. Progress' /\ at' \in [Handlers -> Stages]
      BY <1>0, <2>2, <3>1, MoveKeeps DEF Asking, Stages
    <3>3. TypeOK' BY <1>0, <2>2, <3>2 DEF TypeOK, revision, world
    <3> QED BY <3>2, <3>3
  <2>3. ASSUME Happens("references"), Goto(t, "done"),
               UNCHANGED <<slot, doc, met, wait, answer, entry, partial, revision, aborted>>
        PROVE  TypeOK' /\ Progress'
    <3>1. upset' \in Seq(Faults) /\ Len(upset') <= MaxUpsets BY <1>0, <2>3, HappensOnce
    <3>2. Progress' /\ at' \in [Handlers -> Stages]
      BY <1>0, <2>3, MoveKeeps DEF Asking, Stages
    <3>3. TypeOK' BY <1>0, <2>3, <3>1, <3>2 DEF TypeOK, revision
    <3> QED BY <3>2, <3>3
  <2> QED BY <1>2, <2>1, <2>2, <2>3 DEF Resolve
<1>3. CASE UseAnswer(t)
  <2>1. CASE FailEarly(t)
    BY <1>0, <2>1, SettleTyped DEF FailEarly, revision, TypeOK, Final
  <2>2. CASE answer[t] = "completed"
    <3>1. at[t] = "answered" /\ met[t] < Len(After[t])
      BY <1>0, <1>3 DEF Progress, UseAnswer, Asking
    <3>2. /\ at' = [at EXCEPT ![t] = NextDependency(t)]
          /\ met' = [met EXCEPT ![t] = met[t] + 1]
          /\ answer' = [answer EXCEPT ![t] = NoAnswer]
          /\ wait' = [wait EXCEPT ![t] = NoWait]
          /\ UNCHANGED <<slot, doc, entry, partial, revision, world>>
      BY <1>3, <2>2 DEF UseAnswer, Goto
    <3>3. /\ NextDependency(t) \in {"asking", "cleared"}
          /\ NextDependency(t) = "asking" => met[t] + 1 < Len(After[t])
          /\ NextDependency(t) = "cleared" => met[t] + 1 = Len(After[t])
      BY <1>a, <3>1 DEF NextDependency
    <3>4. at' \in [Handlers -> Stages]
      BY <1>0, <3>2, <3>3 DEF TypeOK, Stages
    <3>5. met' \in [Tasks -> Nat] /\ \A q \in Tasks : met'[q] <= Len(After[q])
      BY <1>0, <1>a, <3>1, <3>2 DEF TypeOK
    <3>6. answer' \in [Handlers -> Answers] /\ wait' \in [Handlers -> [id : Nat, known : BOOLEAN]]
      BY <1>0, <3>2 DEF TypeOK, Answers, NoWait
    <3>7. TypeOK' BY <1>0, <3>2, <3>4, <3>5, <3>6 DEF TypeOK, revision, world
    <3>8. ASSUME NEW q \in Tasks
          PROVE  /\ at'[q] \in Asking => met'[q] < Len(After[q])
                 /\ at'[q] \in {"cleared", "created", "running"} => met'[q] = Len(After[q])
      <4>1. CASE q = t
        <5>1. at'[q] = NextDependency(t) /\ met'[q] = met[t] + 1
          BY <1>0, <3>2, <4>1 DEF TypeOK
        <5> QED BY <3>3, <4>1, <5>1 DEF Asking
      <4>2. CASE q # t
        <5>1. at'[q] = at[q] /\ met'[q] = met[q]
          BY <1>0, <3>2, <4>2 DEF TypeOK, Handlers
        <5> QED BY <1>0, <5>1 DEF Progress
      <4> QED BY <4>1, <4>2
    <3> QED BY <3>7, <3>8 DEF Progress
  <2> QED BY <1>3, <2>1, <2>2 DEF UseAnswer
<1>4. CASE Reuse(t)
  BY <1>0, <1>4, SettleTyped DEF Reuse, revision, TypeOK, Final
<1>5. CASE SettleFailed(t)
  BY <1>0, <1>5, SettleTyped DEF SettleFailed, revision, TypeOK, Final
<1>6. CASE Publish(t)
  <2>1. entry[t] \in Final BY <1>6 DEF Publish, IInv, Story, OutcomeTells
  <2> QED BY <1>0, <1>6, <2>1, SettleTyped DEF Publish, revision, TypeOK
<1>7. CASE CreateDoc(t)
  <2>1. Goto(t, "created") /\ met' = met /\ at[t] = "cleared" BY <1>7 DEF CreateDoc
  <2>2. Progress' /\ at' \in [Handlers -> Stages]
    BY <1>0, <2>1, MoveKeeps DEF Asking, Stages, Progress
  <2>3. TypeOK' BY <1>0, <1>b, <1>7, <2>2 DEF CreateDoc, Announce, TypeOK, revision, world
  <2> QED BY <2>2, <2>3
<1>8. CASE Start(t)
  <2>1. Goto(t, "running") /\ met' = met /\ at[t] = "created" BY <1>8 DEF Start
  <2>2. Progress' /\ at' \in [Handlers -> Stages]
    BY <1>0, <2>1, MoveKeeps DEF Asking, Stages, Progress
  <2>3. TypeOK' BY <1>0, <1>8, <2>2 DEF Start, TypeOK, revision, world
  <2> QED BY <2>2, <2>3
<1>9. CASE Fail(t) \/ EndDelegate(t) \/ Deliver(t)
  <2>1. PICK stage \in {"failing", "done", "recorded"} : Goto(t, stage) /\ met' = met
    BY <1>9 DEF Fail, EndDelegate, Deliver
  <2>2. Progress' /\ at' \in [Handlers -> Stages]
    BY <1>0, <2>1, MoveKeeps DEF Asking, Stages
  <2>3. /\ doc' \in [Tasks -> Final \cup {"none", "in_progress"}]
        /\ partial' \in [Tasks -> BOOLEAN]
        /\ entry' \in [Tasks -> Final \cup {NoAnswer}]
    <3>1. CASE Fail(t) \/ EndDelegate(t) BY <1>0, <3>1 DEF Fail, EndDelegate, TypeOK, Final
    <3>2. CASE Deliver(t)
      <4>1. PICK status \in {"completed", "blocked"}, short \in BOOLEAN :
              /\ doc' = [doc EXCEPT ![t] = status]
              /\ partial' = [partial EXCEPT ![t] = short]
              /\ entry' = [entry EXCEPT ![t] =
                             IF short /\ status = "completed" THEN "blocked" ELSE status]
        BY <3>2 DEF Deliver
      <4>2. status \in Final /\ "blocked" \in Final BY DEF Final
      <4>3. partial' \in [Tasks -> BOOLEAN] BY <1>0, <4>1 DEF TypeOK
      <4>4. doc' \in [Tasks -> Final \cup {"none", "in_progress"}] BY <1>0, <4>1, <4>2 DEF TypeOK
      <4>5. entry' \in [Tasks -> Final \cup {NoAnswer}] BY <1>0, <4>1, <4>2 DEF TypeOK
      <4> QED BY <4>3, <4>4, <4>5
    <3> QED BY <1>9, <3>1, <3>2
  <2>4. TypeOK'
    BY <1>0, <1>9, <2>2, <2>3 DEF Fail, EndDelegate, Deliver, TypeOK, revision, world
  <2> QED BY <2>2, <2>4
<1>10. CASE Conflict(t)
  <2>1. upset' \in Seq(Faults) /\ Len(upset') <= MaxUpsets
    BY <1>0, <1>10, HappensOnce DEF Conflict
  <2>2. PICK stage \in {"failing", "done"} : Goto(t, stage) /\ met' = met
    BY <1>10 DEF Conflict
  <2>3. Progress' /\ at' \in [Handlers -> Stages]
    BY <1>0, <2>2, MoveKeeps DEF Asking, Stages
  <2>4. TypeOK' BY <1>0, <1>10, <2>1, <2>3 DEF Conflict, TypeOK, revision, Final
  <2> QED BY <2>3, <2>4
<1> QED
  BY <1>1, <1>2, <1>3, <1>4, <1>5, <1>6, <1>7, <1>8, <1>9, <1>10 DEF DelegateStep

LEMMA ReviseTyped ==
  ASSUME IInv, NEW t \in Tasks, Revise(t) \/ ReviseStep(t)
  PROVE  TypeOK' /\ Progress'
<1>0. TypeOK /\ Progress /\ Story(t) BY DEF IInv
<1>1. CASE Revise(t)
  <2>1. Announced(slot[t]) \in [id : Nat, state : {"open"}] BY <1>0, AnnouncedOpen
  <2>2. TypeOK'
    BY <1>0, <1>1, <2>1, DelegationAssumption
       DEF Revise, Announce, Rgoto, TypeOK, revision, world
  <2> QED BY <1>0, <1>1, <2>2 DEF Revise, Progress
<1>2. CASE RevisePrepareFails(t) \/ ReviseFails(t)
  <2>1. upset' \in Seq(Faults) /\ Len(upset') <= MaxUpsets
    BY <1>0, <1>2, HappensOnce DEF RevisePrepareFails, ReviseFails, TypeOK
  <2>2. TypeOK'
    BY <1>0, <1>2, <2>1 DEF RevisePrepareFails, ReviseFails, Rgoto, TypeOK, Final
  <2> QED BY <1>0, <1>2, <2>2 DEF RevisePrepareFails, ReviseFails, Progress
<1>3. CASE ReviseDelivers(t)
  <2>1. TypeOK' BY <1>0, <1>3 DEF ReviseDelivers, Rgoto, TypeOK, world, Final
  <2> QED BY <1>0, <1>3, <2>1 DEF ReviseDelivers, Progress
<1>4. CASE RevisePublishes(t)
  <2>1. entry[t] \in Final BY <1>0, <1>4 DEF RevisePublishes, Story, OutcomeTells
  <2> QED BY <1>0, <1>4, <2>1, SettleTyped DEF RevisePublishes, Rgoto, TypeOK
<1>5. CASE ReviseEnds(t)
  <2>1. revisions[t] \in 0 .. MaxRevisions /\ revisions[t] < MaxRevisions
    BY <1>0, <1>5 DEF ReviseEnds, Story, DocTells, TypeOK
  <2>2. revisions[t] + 1 \in 0 .. MaxRevisions BY <2>1, DelegationAssumption
  <2>3. TypeOK' BY <1>0, <1>5, <2>2 DEF ReviseEnds, Rgoto, TypeOK, world
  <2> QED BY <1>0, <1>5, <2>3 DEF ReviseEnds, Progress
<1>6. CASE ReviseSettlesFailed(t)
  BY <1>0, <1>6, SettleTyped DEF ReviseSettlesFailed, Rgoto, TypeOK, Final
<1> QED BY <1>1, <1>2, <1>3, <1>4, <1>5, <1>6 DEF ReviseStep

\* Asking, reading, waiting and being answered: only the handler that does it moves.
LEMMA WaitingTyped ==
  ASSUME IInv, NEW h \in Handlers, WaitStep(h) \/ Timer(h)
  PROVE  TypeOK' /\ Progress'
<1>0. TypeOK /\ Progress BY DEF IInv
<1>1. at[h] \in Asking BY DEF WaitStep, Ask, ReadDb, Await, Timer, Asking
<1>2. PICK stage \in Asking : Goto(h, stage) /\ met' = met
  BY DEF WaitStep, Ask, ReadDb, Await, Timer, Asking
<1>3. Progress' /\ at' \in [Handlers -> Stages]
  <2>1. stage \in Stages /\ stage \notin {"cleared", "created", "running"}
    BY DEF Asking, Stages
  <2>2. h \in Tasks => met[h] < Len(After[h]) BY <1>0, <1>1 DEF Progress
  <2> QED BY <1>0, <1>2, <2>1, <2>2, MoveKeeps
<1>4. AsksFor(h) \in Tasks BY <1>0, <1>1, AsksForTask
<1>5. UNCHANGED <<doc, met, entry, partial, revision, world>>
  BY DEF WaitStep, Ask, ReadDb, Await, Timer
<1>6. /\ slot' \in [Tasks -> [id : Nat, state : Final \cup {"none", "open"}]]
      /\ wait' \in [Handlers -> [id : Nat, known : BOOLEAN]]
      /\ answer' \in [Handlers -> Answers]
  <2>1. SlotFor(slot[AsksFor(h)]) \in [id : Nat, state : Final \cup {"open"}]
    BY <1>0, <1>4, SlotForOpen
  <2>2. CASE Ask(h) \/ ReadDb(h) \/ Timer(h)
    BY <1>0, <1>4, <2>2 DEF Ask, ReadDb, Timer, InDb, TypeOK, Answers, NoAnswer
  <2>3. CASE Await(h)
    <3>1. CASE UNCHANGED <<slot, wait, answer>> BY <1>0, <3>1 DEF TypeOK
    <3>2. CASE /\ SlotFor(slot[AsksFor(h)]).state \in Final
               /\ answer' = [answer EXCEPT ![h] = SlotFor(slot[AsksFor(h)]).state]
               /\ UNCHANGED <<slot, wait>>
      BY <1>0, <3>2 DEF TypeOK, Answers
    <3>3. CASE /\ slot' = [slot EXCEPT ![AsksFor(h)] = SlotFor(slot[AsksFor(h)])]
               /\ wait' = [wait EXCEPT ![h] = [id |-> SlotFor(slot[AsksFor(h)]).id,
                                               known |-> slot[AsksFor(h)].state # "none"]]
               /\ UNCHANGED answer
      <4>1. [id |-> SlotFor(slot[AsksFor(h)]).id, known |-> slot[AsksFor(h)].state # "none"]
              \in [id : Nat, known : BOOLEAN]
        BY <2>1
      <4>2. SlotFor(slot[AsksFor(h)]) \in [id : Nat, state : Final \cup {"none", "open"}]
        BY <2>1
      <4> QED BY <1>0, <3>3, <4>1, <4>2 DEF TypeOK
    <3> QED BY <2>3, <3>1, <3>2, <3>3 DEF Await
  <2> QED BY <2>2, <2>3 DEF WaitStep
<1>7. TypeOK' BY <1>0, <1>3, <1>5, <1>6 DEF TypeOK, revision, world
<1> QED BY <1>3, <1>7

LEMMA OthersTyped ==
  ASSUME IInv, \/ \E w \in Waits : WaitFor(w) \/ WaitEnds(w)
               \/ Abort \/ ResetBoard \/ UNCHANGED vars
  PROVE  TypeOK' /\ Progress'
<1>0. TypeOK /\ Progress BY DEF IInv
<1>1. ASSUME NEW w \in Waits, WaitFor(w) \/ WaitEnds(w) PROVE TypeOK' /\ Progress'
  <2>1. w \in Handlers /\ w \notin Tasks BY DelegationAssumption DEF Handlers
  <2>2. PICK stage \in {"asking", "done"} : Goto(w, stage) /\ met' = met
    BY <1>1 DEF WaitFor, WaitEnds
  <2>3. Progress' /\ at' \in [Handlers -> Stages]
    BY <1>0, <2>1, <2>2, MoveKeeps DEF Stages
  <2>4. answer' \in [Handlers -> Answers] /\ wait' \in [Handlers -> [id : Nat, known : BOOLEAN]]
    <3>1. CASE WaitFor(w) BY <1>0, <3>1 DEF WaitFor, TypeOK
    <3>2. CASE WaitEnds(w)
      <4>1. NoAnswer \in Answers /\ NoWait \in [id : Nat, known : BOOLEAN]
        BY DEF Answers, NoWait
      <4> QED BY <1>0, <2>1, <3>2, <4>1 DEF WaitEnds, TypeOK
    <3> QED BY <1>1, <3>1, <3>2
  <2>5. TypeOK'
    BY <1>0, <1>1, <2>3, <2>4 DEF WaitFor, WaitEnds, TypeOK, revision, world
  <2> QED BY <2>3, <2>5
<1>2. CASE Abort
  <2>1. upset' \in Seq(Faults) /\ Len(upset') <= MaxUpsets BY <1>0, <1>2, HappensOnce DEF Abort
  <2>2. TypeOK' BY <1>0, <1>2, <2>1 DEF Abort, TypeOK, revision, Stages, Answers
  <2>3. \A q \in Tasks : /\ at'[q] \in Asking => at[q] \in Asking
                         /\ at'[q] \in {"cleared", "created", "running"} => at'[q] = at[q]
    BY <1>2 DEF Abort, Asking, Handlers
  <2>4. met' = met BY <1>2 DEF Abort
  <2> QED BY <1>0, <2>2, <2>3, <2>4 DEF Progress
<1>3. CASE ResetBoard
  <2>1. upset' \in Seq(Faults) /\ Len(upset') <= MaxUpsets
    BY <1>0, <1>3, HappensOnce DEF ResetBoard
  <2>2. TypeOK' BY <1>0, <1>3, <2>1 DEF ResetBoard, TypeOK, revision
  <2> QED BY <1>0, <1>3, <2>2 DEF ResetBoard, Progress
<1>4. CASE UNCHANGED vars
  BY <1>0, <1>4 DEF vars, TypeOK, Progress
<1> QED BY <1>1, <1>2, <1>3, <1>4

LEMMA NextTyped == ASSUME IInv, [Next]_vars PROVE TypeOK' /\ Progress'
BY DelegateTyped, ReviseTyped, WaitingTyped, OthersTyped DEF Next, Done

-----------------------------------------------------------------------------
(* What happens to a task that another one's handler does not concern *)

Calm(q) ==
  /\ doc'[q] = doc[q] /\ entry'[q] = entry[q] /\ partial'[q] = partial[q]
  /\ revising'[q] = revising[q] /\ revisions'[q] = revisions[q] /\ asked'[q] = asked[q]
  /\ at'[q] = at[q] \/ (at[q] \in Asking /\ at'[q] \in Asking)
  /\ slot'[q].state = slot[q].state \/ (slot[q].state \notin Final /\ slot'[q].state \notin Final)

\* What did not happen up to now had not happened before.
LEMMA NotBefore ==
  ASSUME TypeOK, [Next]_vars, NEW faults, Without(faults)' PROVE Without(faults)
<1>1. upset' = upset \/ \E fault \in {"references", "storage", "prepare", "abort", "reset"} : Happens(fault)
  <2>1. ASSUME NEW t \in Tasks, Delegate(t) \/ DelegateStep(t)
        PROVE  upset' = upset \/ Happens("references") \/ Happens("storage")
    BY <2>1 DEF Delegate, DelegateStep, Resolve, FailEarly, UseAnswer, Reuse, CreateDoc, Start, Fail,
                Conflict, SettleFailed, Deliver, Publish, EndDelegate, world
  <2>2. ASSUME NEW t \in Tasks, Revise(t) \/ ReviseStep(t)
        PROVE  upset' = upset \/ Happens("prepare") \/ Happens("storage")
    BY <2>2 DEF Revise, ReviseStep, RevisePrepareFails, ReviseDelivers, RevisePublishes, ReviseEnds,
                ReviseFails, ReviseSettlesFailed, world
  <2>3. ASSUME NEW h \in Handlers, WaitStep(h) \/ Timer(h) PROVE upset' = upset
    BY <2>3 DEF WaitStep, Ask, ReadDb, Await, Timer, world
  <2>4. ASSUME NEW w \in Waits, WaitFor(w) \/ WaitEnds(w) PROVE upset' = upset
    BY <2>4 DEF WaitFor, WaitEnds, world
  <2>5. CASE Abort \/ ResetBoard BY <2>5 DEF Abort, ResetBoard
  <2>6. CASE UNCHANGED vars BY <2>6 DEF vars
  <2> QED BY <2>1, <2>2, <2>3, <2>4, <2>5, <2>6 DEF Next, Done
<1> QED BY <1>1, HappensOnce, SameUpset

LEMMA CalmKeeps ==
  ASSUME TypeOK, [Next]_vars, NEW q \in Tasks, Story(q), Calm(q)
  PROVE  Story(q)'
<1>1. /\ Without({"storage"})' => Without({"storage"})
      /\ Without({"reset", "storage", "prepare"})' => Without({"reset", "storage", "prepare"})
  BY NotBefore
<1>2. DocTells(q)' BY DEF Story, DocTells, Calm, Asking, Early
<1>3. NotYetSettled(q)' BY <1>1 DEF Story, NotYetSettled, Calm, Asking, Early, Open
<1>4. OutcomeTells(q)'
  BY DEF Story, OutcomeTells, Calm, Asking, Agree, Open, AtRest
<1>5. IsSettled(q)' BY <1>1 DEF Story, IsSettled, Calm, Asking, Open, AtRest
<1> QED BY <1>2, <1>3, <1>4, <1>5 DEF Story

LEMMA SettleCalm ==
  ASSUME TypeOK, NEW t \in Tasks, NEW outcome \in Final, NEW stage \in {"done", "settled"},
         Settle(t, outcome, stage), UNCHANGED <<doc, entry, partial, revisions, asked>>,
         NEW q \in Tasks, q # t, revising'[q] = revising[q]
  PROVE  Calm(q)
<1>1. slot'[q] = slot[q] BY SettleDoes
<1>2. at'[q] = at[q] \/ (at[q] \in Asking /\ at'[q] \in Asking)
  BY SettleDoes, Awaiting DEF Handlers, Asking
<1> QED BY <1>1, <1>2 DEF Calm

LEMMA OthersCalm ==
  ASSUME IInv, NEW t \in Tasks, NEW q \in Tasks, q # t,
         Delegate(t) \/ DelegateStep(t) \/ Revise(t) \/ ReviseStep(t)
  PROVE  Calm(q) /\ met'[q] = met[q]
<1>0. TypeOK /\ t \in Handlers /\ q \in Handlers BY DEF IInv, Handlers
<1>a. ASSUME NEW stage, Goto(t, stage) PROVE at'[q] = at[q]
  BY <1>0, <1>a DEF Goto, TypeOK
<1>b. ASSUME Announce(t) PROVE slot'[q] = slot[q]
  BY <1>0, <1>b DEF Announce, TypeOK
<1>c. ASSUME NEW stage, Rgoto(t, stage) PROVE revising'[q] = revising[q]
  BY <1>0, <1>c DEF Rgoto, TypeOK
<1>d. "failed" \in Final /\ "completed" \in Final BY DEF Final
<1>e. at[t] = "recorded" \/ revising[t] = "recorded" => entry[t] \in Final
  BY DEF IInv, Story, OutcomeTells
<1>1. CASE Delegate(t)
  BY <1>1, <1>a, <1>b DEF Delegate, revision, Calm
<1>2. CASE FailEarly(t) BY <1>0, <1>2, <1>d, SettleCalm DEF FailEarly, revision
<1>3. CASE Resolve(t) BY <1>2, <1>3, <1>a DEF Resolve, revision, Calm
<1>4. CASE UseAnswer(t)
  <2>1. CASE answer[t] = "completed"
    <3>1. met'[q] = met[q] BY <1>0, <1>4, <2>1 DEF UseAnswer, TypeOK
    <3> QED BY <3>1, <2>1, <1>4, <1>a DEF UseAnswer, revision, Calm
  <2> QED BY <1>2, <1>4, <2>1 DEF UseAnswer
<1>5. CASE Reuse(t) BY <1>0, <1>5, <1>d, SettleCalm DEF Reuse, revision
<1>6. CASE CreateDoc(t)
  <2>1. doc'[q] = doc[q] BY <1>0, <1>6 DEF CreateDoc, TypeOK
  <2> QED BY <2>1, <1>6, <1>a, <1>b DEF CreateDoc, revision, Calm
<1>7. CASE Start(t) \/ EndDelegate(t)
  BY <1>7, <1>a DEF Start, EndDelegate, revision, Calm
<1>8. CASE Fail(t) \/ Conflict(t)
  <2>1. doc'[q] = doc[q] BY <1>0, <1>8 DEF Fail, Conflict, TypeOK
  <2> QED BY <2>1, <1>8, <1>a DEF Fail, Conflict, revision, Calm
<1>9. CASE SettleFailed(t) BY <1>0, <1>9, <1>d, SettleCalm DEF SettleFailed, revision
<1>10. CASE Deliver(t)
  <2>1. doc'[q] = doc[q] /\ partial'[q] = partial[q] /\ entry'[q] = entry[q]
    BY <1>0, <1>10 DEF Deliver, TypeOK
  <2> QED BY <2>1, <1>10, <1>a DEF Deliver, revision, Calm
<1>11. CASE Publish(t) BY <1>0, <1>11, <1>e, SettleCalm DEF Publish, revision
<1>12. CASE Revise(t)
  <2>1. doc'[q] = doc[q] /\ asked'[q] = asked[q] BY <1>0, <1>12 DEF Revise, TypeOK
  <2> QED BY <2>1, <1>12, <1>b, <1>c DEF Revise, Calm
<1>13. CASE RevisePrepareFails(t) \/ ReviseFails(t)
  <2>1. doc'[q] = doc[q] BY <1>0, <1>13 DEF RevisePrepareFails, ReviseFails, TypeOK
  <2> QED BY <2>1, <1>13, <1>c DEF RevisePrepareFails, ReviseFails, Calm
<1>14. CASE ReviseDelivers(t)
  <2>1. doc'[q] = doc[q] /\ entry'[q] = entry[q] BY <1>0, <1>14 DEF ReviseDelivers, TypeOK
  <2> QED BY <2>1, <1>14, <1>c DEF ReviseDelivers, Calm
<1>15. CASE RevisePublishes(t)
  BY <1>0, <1>15, <1>c, <1>e, SettleCalm DEF RevisePublishes
<1>16. CASE ReviseEnds(t)
  <2>1. revisions'[q] = revisions[q] BY <1>0, <1>16 DEF ReviseEnds, TypeOK
  <2> QED BY <2>1, <1>16, <1>c DEF ReviseEnds, Calm
<1>17. CASE ReviseSettlesFailed(t)
  BY <1>0, <1>17, <1>c, <1>d, SettleCalm DEF ReviseSettlesFailed
<1> QED
  BY <1>1, <1>3, <1>4, <1>5, <1>6, <1>7, <1>8, <1>9, <1>10, <1>11, <1>12, <1>13, <1>14,
     <1>15, <1>16, <1>17 DEF DelegateStep, ReviseStep

LEMMA WaitingCalm ==
  ASSUME IInv, NEW q \in Tasks,
         \/ \E h \in Handlers : WaitStep(h) \/ Timer(h)
         \/ \E w \in Waits : WaitFor(w) \/ WaitEnds(w)
         \/ Abort \/ UNCHANGED vars
  PROVE  Calm(q) /\ met'[q] = met[q]
<1>0. TypeOK /\ Progress /\ q \in Handlers BY DEF IInv, Handlers
<1>1. CASE \E w \in Waits : WaitFor(w) \/ WaitEnds(w)
  <2>1. PICK w \in Waits : WaitFor(w) \/ WaitEnds(w) BY <1>1
  <2>2. q # w BY DelegationAssumption
  <2>3. at'[q] = at[q] BY <1>0, <2>1, <2>2 DEF WaitFor, WaitEnds, Goto, TypeOK
  <2> QED BY <2>1, <2>3 DEF WaitFor, WaitEnds, revision, Calm
<1>2. CASE \E h \in Handlers : WaitStep(h) \/ Timer(h)
  <2>1. PICK h \in Handlers : WaitStep(h) \/ Timer(h) BY <1>2
  <2>2. PICK stage \in Asking : Goto(h, stage) /\ at[h] \in Asking
    BY <2>1 DEF WaitStep, Ask, ReadDb, Await, Timer, Asking
  <2>3. at'[q] = at[q] \/ (at[q] \in Asking /\ at'[q] \in Asking)
    BY <1>0, <2>2 DEF Goto, TypeOK
  <2>4. AsksFor(h) \in Tasks BY <1>0, <2>2, AsksForTask
  <2>5. slot'[q].state = slot[q].state \/ (slot[q].state \notin Final /\ slot'[q].state \notin Final)
    <3>1. CASE slot' = slot BY <3>1
    <3>2. CASE slot' = [slot EXCEPT ![AsksFor(h)] = SlotFor(slot[AsksFor(h)])]
      <4>1. CASE q = AsksFor(h)
        <5>1. slot'[q] = SlotFor(slot[q]) BY <1>0, <3>2, <4>1 DEF TypeOK
        <5> QED BY <1>0, <5>1, SlotForOpen DEF Final
      <4>2. CASE q # AsksFor(h) BY <1>0, <3>2, <4>2 DEF TypeOK
      <4> QED BY <4>1, <4>2
    <3> QED BY <2>1, <3>1, <3>2 DEF WaitStep, Ask, ReadDb, Await, Timer
  <2>6. UNCHANGED <<doc, met, entry, partial, revision>>
    BY <2>1 DEF WaitStep, Ask, ReadDb, Await, Timer
  <2> QED BY <2>3, <2>5, <2>6 DEF revision, Calm
<1>3. CASE Abort BY <1>0, <1>3 DEF Abort, revision, Calm, Asking
<1>4. CASE UNCHANGED vars BY <1>4 DEF vars, Calm
<1> QED BY <1>1, <1>2, <1>3, <1>4

-----------------------------------------------------------------------------
(* The story of a task goes on *)

LEMMA ResetKeeps ==
  ASSUME IInv, ResetBoard, NEW q \in Tasks
  PROVE  Story(q)'
<1>0. TypeOK /\ Story(q) /\ "none" \notin Final BY DEF IInv, Final
<1>1. slot'[q].state = "none" /\ UNCHANGED <<doc, at, entry, partial, revision>>
  BY <1>0 DEF ResetBoard, TypeOK
<1>2. ~Without({"reset", "storage", "prepare"})'
  BY <1>0, HappensOnce DEF ResetBoard
<1>3. Open(q)' BY <1>0, <1>1 DEF Open
<1> QED
  BY <1>0, <1>1, <1>2, <1>3
     DEF Story, DocTells, NotYetSettled, OutcomeTells, IsSettled, AtRest, Agree, revision

\* The story depends on where the handlers are, the document and the slot.
LEMMA DelegateTells ==
  ASSUME IInv, [Next]_vars, NEW t \in Tasks, Delegate(t) \/ DelegateStep(t)
  PROVE  Story(t)'
<1>0. TypeOK /\ Progress /\ t \in Handlers /\ Story(t) BY DEF IInv, Handlers
<1>a. ASSUME NEW stage, Goto(t, stage) PROVE at'[t] = stage
  BY <1>0, <1>a DEF Goto, TypeOK
<1>b. ASSUME Announce(t) PROVE Open(t)'
  <2>1. Announced(slot[t]) \in [id : Nat, state : {"open"}] BY <1>0, AnnouncedOpen
  <2>2. slot'[t] = Announced(slot[t]) BY <1>0, <1>b DEF Announce, TypeOK
  <2> QED BY <2>1, <2>2 DEF Open, Final
<1>c. /\ Without({"storage"})' => Without({"storage"})
      /\ Without({"reset", "storage", "prepare"})' => Without({"reset", "storage", "prepare"})
  BY <1>0, NotBefore
<1>d. "failed" \in Final /\ "completed" \in Final /\ "blocked" \in Final
      /\ "none" \notin Final /\ "in_progress" \notin Final
  BY DEF Final
<1>e. at[t] # "done" => revising[t] = "idle" BY <1>0 DEF Story, DocTells
\* The handler settles its task and has no more to do.
<1>f. ASSUME NEW outcome \in Final, NEW stage \in {"done", "settled"}, Settle(t, outcome, stage),
             doc' = doc, UNCHANGED <<partial, revision>>, at[t] # "done",
             doc[t] \in Final => Agree(t, outcome)
      PROVE  Story(t)'
  <2>1. at'[t] = stage /\ slot'[t].state = outcome BY <1>0, <1>f, SettleDoes
  <2>2. revising'[t] = "idle" BY <1>e, <1>f DEF revision
  <2>3. ~Open(t)' BY <2>1, <1>f DEF Open
  <2> QED
    BY <1>d, <1>f, <2>1, <2>2, <2>3
       DEF Story, DocTells, NotYetSettled, OutcomeTells, IsSettled, Agree, Early, Asking
\* It goes on to another place, with the document and the slot as they are.
<1>1. CASE Delegate(t)
  <2>1. at'[t] = "resolving" /\ Open(t)' /\ doc'[t] = doc[t] /\ revising'[t] = "idle" /\ doc[t] = "none"
    BY <1>0, <1>1, <1>a, <1>b, <1>e DEF Delegate, revision, Story, DocTells, Early, Asking
  <2> QED
    BY <1>d, <2>1 DEF Story, DocTells, NotYetSettled, OutcomeTells, IsSettled, AtRest, Early, Asking
<1>2. CASE FailEarly(t) /\ at[t] \in Early
  <2>1. doc[t] = "none" BY <1>0, <1>2 DEF Story, DocTells
  <2> QED BY <1>2, <1>d, <1>f, <2>1 DEF FailEarly, Early, Asking
<1>3. ASSUME at[t] \in Early, UNCHANGED <<slot, doc, revision>>,
             NEW stage \in Early \cup {"done"}, Goto(t, stage)
      PROVE  Story(t)'
  <2>1. /\ at'[t] = stage /\ Open(t)' /\ doc'[t] = "none" /\ revising'[t] = "idle"
    BY <1>0, <1>3, <1>a, <1>e DEF Story, DocTells, NotYetSettled, Open, revision, Early, Asking
  <2> QED
    BY <1>d, <2>1 DEF Story, DocTells, NotYetSettled, OutcomeTells, IsSettled, AtRest, Early, Asking
<1>4. CASE Resolve(t)
  <2>1. FirstDependency(t) \in Early BY DEF FirstDependency, Early, Asking
  <2> QED BY <1>2, <1>3, <1>4, <2>1 DEF Resolve, Early
<1>5. CASE UseAnswer(t)
  <2>1. NextDependency(t) \in Early BY DEF NextDependency, Early, Asking
  <2> QED BY <1>2, <1>3, <1>5, <2>1 DEF UseAnswer, Early, Asking
<1>6. CASE Reuse(t)
  <2>1. doc[t] = "none" BY <1>0, <1>6 DEF Reuse, Story, DocTells, Early
  <2> QED BY <1>6, <1>d, <1>f, <2>1 DEF Reuse
<1>7. CASE CreateDoc(t)
  <2>1. at'[t] = "created" /\ Open(t)' /\ doc'[t] = "in_progress" /\ revising'[t] = "idle"
    BY <1>0, <1>7, <1>a, <1>b, <1>e DEF CreateDoc, revision, TypeOK
  <2> QED
    BY <1>d, <2>1 DEF Story, DocTells, NotYetSettled, OutcomeTells, IsSettled, AtRest, Early, Asking
<1>8. CASE Start(t)
  <2>1. at'[t] = "running" /\ Open(t)' /\ doc'[t] = "in_progress" /\ revising'[t] = "idle"
    BY <1>0, <1>8, <1>a, <1>e DEF Start, revision, Story, DocTells, NotYetSettled, Open
  <2> QED
    BY <1>d, <2>1 DEF Story, DocTells, NotYetSettled, OutcomeTells, IsSettled, AtRest, Early, Asking
<1>9. CASE Fail(t)
  <2>1. at'[t] = "failing" /\ Open(t)' /\ doc'[t] = "failed" /\ revising'[t] = "idle"
    BY <1>0, <1>9, <1>a, <1>e DEF Fail, revision, Story, NotYetSettled, Open, TypeOK
  <2> QED
    BY <1>d, <2>1 DEF Story, DocTells, NotYetSettled, OutcomeTells, IsSettled, AtRest, Early, Asking
<1>10. CASE Conflict(t)
  <2>1. ~Without({"storage"})' /\ ~Without({"reset", "storage", "prepare"})'
    BY <1>0, <1>10, HappensOnce DEF Conflict
  <2>2. revising'[t] = "idle" /\ slot' = slot /\ partial' = partial
    BY <1>10, <1>e DEF Conflict, revision
  <2>3. CASE at'[t] = "failing" /\ doc'[t] = "failed"
    BY <2>1, <2>2, <2>3
       DEF Story, DocTells, NotYetSettled, OutcomeTells, IsSettled, AtRest, Early, Asking
  <2>4. CASE at'[t] = "done" /\ doc' = doc
    <3>1. doc[t] \in Final /\ ~Open(t) => Agree(t, slot[t].state)
      BY <1>0, <1>10, <1>d, <1>e
         DEF Conflict, Story, DocTells, NotYetSettled, OutcomeTells, AtRest, Early
    <3>2. doc'[t] \in Final /\ ~Open(t)' => Agree(t, slot[t].state)'
      BY <2>2, <2>4, <3>1 DEF Open, Agree
    <3> QED
      BY <2>1, <2>2, <2>4, <3>2
         DEF Story, DocTells, NotYetSettled, OutcomeTells, IsSettled, AtRest, Early, Asking
  <2> QED BY <1>0, <1>10, <1>a, <2>3, <2>4 DEF Conflict, TypeOK
<1>11. CASE SettleFailed(t)
  <2>1. doc[t] = "failed" BY <1>0, <1>11 DEF SettleFailed, Story, DocTells
  <2> QED BY <1>11, <1>d, <1>f, <2>1 DEF SettleFailed, Agree
<1>12. CASE Deliver(t)
  <2>1. PICK status \in {"completed", "blocked"}, short \in BOOLEAN :
          /\ doc'[t] = status /\ partial'[t] = short
          /\ entry'[t] = IF short /\ status = "completed" THEN "blocked" ELSE status
    BY <1>0, <1>12 DEF Deliver, TypeOK
  <2>2. at'[t] = "recorded" /\ Open(t)' /\ revising'[t] = "idle"
    BY <1>0, <1>12, <1>a, <1>e DEF Deliver, revision, Story, NotYetSettled, Open
  <2>3. entry'[t] \in Final /\ Agree(t, entry[t])' BY <1>d, <2>1 DEF Agree
  <2> QED
    BY <2>2, <2>3
       DEF Story, DocTells, NotYetSettled, OutcomeTells, IsSettled, AtRest, Early, Asking
<1>13. CASE Publish(t)
  <2>1. entry[t] \in Final /\ Agree(t, entry[t]) BY <1>0, <1>13 DEF Publish, Story, OutcomeTells
  <2> QED BY <1>13, <1>f, <2>1 DEF Publish
<1>14. CASE EndDelegate(t)
  <2>1. at'[t] = "done" /\ revising'[t] = "idle" /\ revising[t] = "idle" /\ at[t] = "settled"
    BY <1>0, <1>14, <1>a, <1>e DEF EndDelegate, revision
  <2>2. UNCHANGED <<slot, doc, partial, entry>> BY <1>14 DEF EndDelegate
  <2> QED
    BY <1>0, <1>c, <2>1, <2>2
       DEF Story, DocTells, NotYetSettled, OutcomeTells, IsSettled, AtRest, Agree, Open, Early, Asking
<1> QED
  BY <1>1, <1>4, <1>5, <1>6, <1>7, <1>8, <1>9, <1>10, <1>11, <1>12, <1>13, <1>14 DEF DelegateStep

LEMMA ReviseTells ==
  ASSUME IInv, [Next]_vars, NEW t \in Tasks, Revise(t) \/ ReviseStep(t)
  PROVE  Story(t)'
<1>0. TypeOK /\ Progress /\ t \in Handlers /\ Story(t) BY DEF IInv, Handlers
<1>a. ASSUME NEW stage, Rgoto(t, stage) PROVE revising'[t] = stage
  BY <1>0, <1>a DEF Rgoto, TypeOK
<1>b. /\ Without({"storage"})' => Without({"storage"})
      /\ Without({"reset", "storage", "prepare"})' => Without({"reset", "storage", "prepare"})
  BY <1>0, NotBefore
<1>c. "failed" \in Final /\ "completed" \in Final /\ "blocked" \in Final
      /\ "none" \notin Final /\ "in_progress" \notin Final
  BY DEF Final
<1>1. CASE Revise(t)
  <2>1. Open(t)'
    <3>1. Announced(slot[t]) \in [id : Nat, state : {"open"}] BY <1>0, AnnouncedOpen
    <3>2. slot'[t] = Announced(slot[t]) BY <1>0, <1>1 DEF Revise, Announce, TypeOK
    <3> QED BY <3>1, <3>2 DEF Open, Final
  <2>2. asked'[t] > 0 /\ revisions'[t] < MaxRevisions
    BY <1>0, <1>1 DEF Revise, TypeOK
  <2>3. at'[t] = "done" /\ revising'[t] = "running" /\ doc'[t] = "in_progress"
    BY <1>0, <1>1, <1>a DEF Revise, TypeOK
  <2> QED
    BY <1>c, <2>1, <2>2, <2>3
       DEF Story, DocTells, NotYetSettled, OutcomeTells, IsSettled, AtRest, Early, Asking
<1>2. CASE ReviseStep(t)
  <2>0. at[t] = "done" /\ asked[t] > 0 /\ revisions[t] < MaxRevisions /\ asked'[t] = asked[t]
    BY <1>0, <1>2
       DEF ReviseStep, RevisePrepareFails, ReviseDelivers, RevisePublishes, ReviseEnds,
           ReviseFails, ReviseSettlesFailed, Story, DocTells
  <2>1. CASE RevisePrepareFails(t)
    <3>1. ~Without({"reset", "storage", "prepare"})'
      BY <1>0, <2>1, HappensOnce DEF RevisePrepareFails
    <3>2. at'[t] = "done" /\ revising'[t] = "idle" /\ Open(t)'
      BY <1>0, <1>a, <2>0, <2>1 DEF RevisePrepareFails, Story, NotYetSettled, Open
    <3> QED
      BY <3>1, <3>2 DEF Story, DocTells, NotYetSettled, OutcomeTells, IsSettled, AtRest, Early, Asking
  <2>2. CASE ReviseDelivers(t)
    <3>1. doc'[t] \in Final /\ entry'[t] = doc'[t]
      BY <1>0, <1>c, <2>2 DEF ReviseDelivers, TypeOK
    <3>2. at'[t] = "done" /\ revising'[t] = "recorded" /\ Open(t)' /\ revisions' = revisions
      BY <1>0, <1>a, <2>0, <2>2 DEF ReviseDelivers, Story, NotYetSettled, Open
    <3> QED
      BY <2>0, <3>1, <3>2
         DEF Story, DocTells, NotYetSettled, OutcomeTells, IsSettled, AtRest, Agree, Early, Asking
  <2>3. CASE RevisePublishes(t)
    <3>1. entry[t] \in Final /\ Agree(t, entry[t])
      BY <1>0, <2>3 DEF RevisePublishes, Story, OutcomeTells
    <3>2. at'[t] = "done" /\ slot'[t].state = entry[t]
      BY <1>0, <2>3, <3>1, SettleDoes DEF RevisePublishes
    <3>3. revising'[t] = "settled" /\ UNCHANGED <<doc, partial, revisions>>
      BY <1>a, <2>3 DEF RevisePublishes
    <3>4. ~Open(t)' /\ Agree(t, slot[t].state)'
      BY <3>1, <3>2, <3>3 DEF Open, Agree
    <3> QED
      BY <2>0, <3>2, <3>3, <3>4
         DEF Story, DocTells, NotYetSettled, OutcomeTells, IsSettled, AtRest, Early, Asking
  <2>4. CASE ReviseEnds(t)
    <3>1. /\ revising[t] = "settled" /\ revising'[t] = "idle" /\ at'[t] = "done"
          /\ UNCHANGED <<slot, doc, partial>>
      BY <1>a, <2>0, <2>4 DEF ReviseEnds
    <3> QED
      BY <1>0, <1>b, <2>0, <3>1
         DEF Story, DocTells, NotYetSettled, OutcomeTells, IsSettled, AtRest, Agree, Open, Early, Asking
  <2>5. CASE ReviseFails(t)
    <3>1. at'[t] = "done" /\ revising'[t] = "failing" /\ doc'[t] = "failed"
          /\ slot' = slot /\ revisions' = revisions
      BY <1>0, <1>a, <2>0, <2>5 DEF ReviseFails, TypeOK
    <3>2. Without({"storage"})' => Open(t)'
      BY <1>0, <2>5, <3>1, HappensOnce DEF ReviseFails, Story, NotYetSettled, Open
    <3> QED
      BY <2>0, <3>1, <3>2
         DEF Story, DocTells, NotYetSettled, OutcomeTells, IsSettled, AtRest, Early, Asking
  <2>6. CASE ReviseSettlesFailed(t)
    <3>1. doc[t] = "failed" BY <1>0, <2>6 DEF ReviseSettlesFailed, Story, DocTells
    <3>2. at'[t] = "done" /\ slot'[t].state = "failed"
      BY <1>0, <1>c, <2>6, SettleDoes DEF ReviseSettlesFailed
    <3>3. revising'[t] = "idle" /\ doc' = doc BY <1>a, <2>6 DEF ReviseSettlesFailed
    <3>4. ~Open(t)' /\ Agree(t, slot[t].state)' BY <1>c, <3>1, <3>2, <3>3 DEF Open, Agree
    <3> QED
      BY <3>2, <3>3, <3>4
         DEF Story, DocTells, NotYetSettled, OutcomeTells, IsSettled, AtRest, Early, Asking
  <2> QED BY <1>2, <2>1, <2>2, <2>3, <2>4, <2>5, <2>6 DEF ReviseStep
<1> QED BY <1>1, <1>2

LEMMA NextTells == ASSUME IInv, [Next]_vars, NEW q \in Tasks PROVE Story(q)'
<1>0. TypeOK /\ Story(q) BY DEF IInv
<1>1. ASSUME NEW t \in Tasks, Delegate(t) \/ DelegateStep(t) \/ Revise(t) \/ ReviseStep(t)
      PROVE  Story(q)'
  <2>1. CASE q = t BY <1>1, <2>1, DelegateTells, ReviseTells
  <2>2. CASE q # t BY <1>0, <1>1, <2>2, OthersCalm, CalmKeeps
  <2> QED BY <2>1, <2>2
<1>2. CASE ResetBoard BY <1>2, ResetKeeps
<1>3. CASE \/ \E h \in Handlers : WaitStep(h) \/ Timer(h)
           \/ \E w \in Waits : WaitFor(w) \/ WaitEnds(w)
           \/ Abort \/ UNCHANGED vars
  BY <1>0, <1>3, WaitingCalm, CalmKeeps
<1> QED BY <1>1, <1>2, <1>3 DEF Next, Done

-----------------------------------------------------------------------------
(* Who waits waits on the slot that is there *)

\* A settle answers whoever waits on the slot, and leaves the others where they are.
LEMMA SettleOrphansNobody ==
  ASSUME TypeOK, Progress, NoOrphanWaiter, Without({"reset"}), met' = met,
         NEW t \in Tasks, NEW outcome \in Final, NEW stage \in {"done", "settled"},
         Settle(t, outcome, stage), NEW h \in Handlers, at'[h] = "parked"
  PROVE  /\ slot'[AsksFor(h)'].state = "open"
         /\ wait'[h].id = slot'[AsksFor(h)'].id
<1>1. AsksFor(h)' = AsksFor(h) BY AsksForSame
<1>2. h # t /\ at[h] = "parked" /\ wait'[h] = wait[h] /\ h \notin AwaitersOf(t)
  BY SettleDoes, Awaiting
<1>3. AsksFor(h) \in Tasks BY <1>2, AsksForTask DEF Asking
<1>4. slot[AsksFor(h)].state = "open" /\ wait[h].id = slot[AsksFor(h)].id
  BY <1>2 DEF NoOrphanWaiter
<1>5. AsksFor(h) # t
  <2>1. SUFFICES ASSUME AsksFor(h) = t PROVE h \in AwaitersOf(t) BY <1>2
  <2>2. SlotFor(slot[t]) = slot[t] BY <1>4, <2>1 DEF SlotFor
  <2> QED BY <1>2, <1>4, <2>1, <2>2 DEF AwaitersOf
<1>6. slot'[AsksFor(h)] = slot[AsksFor(h)] BY <1>3, <1>5, SettleDoes
<1> QED BY <1>1, <1>2, <1>4, <1>6

\* So do all steps that leave the open slots and the waits alone.
LEMMA StillParked ==
  ASSUME TypeOK, Progress, NoOrphanWaiter, Without({"reset"}),
         NEW h \in Handlers, at[h] = "parked", wait'[h] = wait[h],
         h \in Tasks => met'[h] = met[h],
         \A q \in Tasks : slot[q].state = "open" => slot'[q] = slot[q]
  PROVE  /\ slot'[AsksFor(h)'].state = "open"
         /\ wait'[h].id = slot'[AsksFor(h)'].id
<1>1. AsksFor(h)' = AsksFor(h) BY AsksForSame
<1>2. AsksFor(h) \in Tasks BY AsksForTask DEF Asking
<1> QED BY <1>1, <1>2 DEF NoOrphanWaiter

LEMMA NextOrphansNobody == ASSUME IInv, [Next]_vars PROVE NoOrphanWaiter'
<1> SUFFICES ASSUME Without({"reset"})', NEW h \in Handlers, at'[h] = "parked"
             PROVE  /\ slot'[AsksFor(h)'].state = "open"
                    /\ wait'[h].id = slot'[AsksFor(h)'].id
  BY DEF NoOrphanWaiter
<1>0. TypeOK /\ Progress /\ NoOrphanWaiter BY DEF IInv
<1>a. Without({"reset"}) BY <1>0, NotBefore
<1>b. ASSUME NEW t \in Tasks, Announce(t), NEW q \in Tasks, slot[q].state = "open"
      PROVE  slot'[q] = slot[q]
  BY <1>0, <1>b, AnnouncedOpen DEF Announce, TypeOK
<1>c. ASSUME NEW g \in Handlers, NEW stage, Goto(g, stage), stage # "parked"
      PROVE  h # g /\ at[h] = "parked"
  BY <1>0, <1>c DEF Goto, TypeOK
<1>d. "failed" \in Final /\ "completed" \in Final BY DEF Final
<1>1. ASSUME NEW t \in Tasks, Delegate(t) \/ DelegateStep(t)
      PROVE  /\ slot'[AsksFor(h)'].state = "open"
             /\ wait'[h].id = slot'[AsksFor(h)'].id
  <2>0. t \in Handlers BY DEF Handlers
  <2>1. CASE \E outcome \in Final, stage \in {"done", "settled"} :
               Settle(t, outcome, stage) /\ met' = met
    BY <1>0, <1>a, <2>1, SettleOrphansNobody
  <2>2. CASE Delegate(t) \/ CreateDoc(t)
    <3>1. PICK stage \in {"resolving", "created"} :
            Goto(t, stage) /\ Announce(t) /\ UNCHANGED <<wait, met>>
      BY <2>2 DEF Delegate, CreateDoc
    <3> QED BY <1>0, <1>a, <1>b, <1>c, <2>0, <3>1, StillParked
  <2>3. ASSUME NEW stage, Goto(t, stage), stage # "parked", UNCHANGED <<slot, wait, met>>
        PROVE  /\ slot'[AsksFor(h)'].state = "open"
               /\ wait'[h].id = slot'[AsksFor(h)'].id
    BY <1>0, <1>a, <1>c, <2>0, <2>3, StillParked
  <2>4. CASE UseAnswer(t)
    <3>1. CASE FailEarly(t) BY <1>d, <2>1, <3>1 DEF FailEarly
    <3>2. CASE answer[t] = "completed"
      <4>1. /\ Goto(t, NextDependency(t)) /\ NextDependency(t) # "parked" /\ slot' = slot
            /\ \A g \in Handlers : g # t => wait'[g] = wait[g] /\ (g \in Tasks => met'[g] = met[g])
        BY <1>0, <2>4, <3>2 DEF UseAnswer, NextDependency, TypeOK
      <4> QED BY <1>0, <1>a, <1>c, <2>0, <4>1, StillParked
    <3> QED BY <2>4, <3>1, <3>2 DEF UseAnswer
  <2>5. CASE Resolve(t)
    <3>1. FirstDependency(t) # "parked" BY DEF FirstDependency
    <3> QED BY <1>d, <2>1, <2>3, <2>5, <3>1 DEF Resolve, FailEarly
  <2>6. CASE Reuse(t) \/ SettleFailed(t) BY <1>d, <2>1, <2>6 DEF Reuse, SettleFailed
  <2>7. CASE Publish(t)
    <3>1. entry[t] \in Final BY <2>7 DEF Publish, IInv, Story, OutcomeTells
    <3> QED BY <2>1, <2>7, <3>1 DEF Publish
  <2>8. CASE Start(t) \/ Fail(t) \/ Conflict(t) \/ Deliver(t) \/ EndDelegate(t)
    BY <2>3, <2>8 DEF Start, Fail, Conflict, Deliver, EndDelegate
  <2> QED BY <1>1, <2>2, <2>4, <2>5, <2>6, <2>7, <2>8 DEF DelegateStep
<1>2. ASSUME NEW t \in Tasks, Revise(t) \/ ReviseStep(t)
      PROVE  /\ slot'[AsksFor(h)'].state = "open"
             /\ wait'[h].id = slot'[AsksFor(h)'].id
  <2>1. CASE RevisePublishes(t)
    <3>1. entry[t] \in Final BY <2>1 DEF RevisePublishes, IInv, Story, OutcomeTells
    <3> QED BY <1>0, <1>a, <2>1, <3>1, SettleOrphansNobody DEF RevisePublishes
  <2>2. CASE ReviseSettlesFailed(t)
    BY <1>0, <1>a, <1>d, <2>2, SettleOrphansNobody DEF ReviseSettlesFailed
  <2>3. CASE Revise(t) BY <1>0, <1>a, <1>b, <2>3, StillParked DEF Revise
  <2>4. CASE RevisePrepareFails(t) \/ ReviseDelivers(t) \/ ReviseEnds(t) \/ ReviseFails(t)
    BY <1>0, <1>a, <2>4, StillParked
       DEF RevisePrepareFails, ReviseDelivers, ReviseEnds, ReviseFails
  <2> QED BY <1>2, <2>1, <2>2, <2>3, <2>4 DEF ReviseStep
<1>3. ASSUME NEW g \in Handlers, WaitStep(g) \/ Timer(g)
      PROVE  /\ slot'[AsksFor(h)'].state = "open"
             /\ wait'[h].id = slot'[AsksFor(h)'].id
  <2>1. CASE Ask(g) \/ ReadDb(g) \/ Timer(g)
    BY <1>0, <1>a, <1>c, <2>1, StillParked DEF Ask, ReadDb, Timer
  <2>2. CASE Await(g)
    <3>0. AsksFor(g) \in Tasks BY <1>0, <2>2, AsksForTask DEF Await, Asking
    <3>1. CASE Goto(g, "answered") /\ UNCHANGED <<slot, wait, met>>
      BY <1>0, <1>a, <1>c, <3>1, StillParked
    <3>2. CASE /\ SlotFor(slot[AsksFor(g)]).state = "open"
               /\ Goto(g, "parked")
               /\ slot' = [slot EXCEPT ![AsksFor(g)] = SlotFor(slot[AsksFor(g)])]
               /\ wait' = [wait EXCEPT ![g] = [id |-> SlotFor(slot[AsksFor(g)]).id,
                                               known |-> slot[AsksFor(g)].state # "none"]]
               /\ met' = met
      <4>1. CASE h = g
        <5>1. AsksFor(h)' = AsksFor(g) BY <3>2, <4>1, AsksForSame
        <5>2. slot'[AsksFor(g)] = SlotFor(slot[AsksFor(g)]) BY <1>0, <3>0, <3>2 DEF TypeOK
        <5>3. wait'[h].id = SlotFor(slot[AsksFor(g)]).id BY <1>0, <3>2, <4>1 DEF TypeOK
        <5> QED BY <3>2, <5>1, <5>2, <5>3
      <4>2. CASE h # g
        <5>1. at[h] = "parked" /\ wait'[h] = wait[h]
          BY <1>0, <3>2, <4>2 DEF Goto, TypeOK
        <5>2. \A q \in Tasks : slot[q].state = "open" => slot'[q] = slot[q]
          BY <1>0, <3>0, <3>2, SlotForOpen DEF TypeOK
        <5> QED BY <1>0, <1>a, <3>2, <5>1, <5>2, StillParked
      <4> QED BY <4>1, <4>2
    <3> QED BY <2>2, <3>1, <3>2 DEF Await
  <2> QED BY <1>3, <2>1, <2>2 DEF WaitStep
<1>4. ASSUME NEW w \in Waits, WaitFor(w) \/ WaitEnds(w)
      PROVE  /\ slot'[AsksFor(h)'].state = "open"
             /\ wait'[h].id = slot'[AsksFor(h)'].id
  <2>1. w \in Handlers BY DEF Handlers
  <2>2. h # w /\ at[h] = "parked" BY <1>4, <1>c, <2>1 DEF WaitFor, WaitEnds
  <2>3. wait'[h] = wait[h] /\ slot' = slot /\ met' = met
    BY <1>0, <1>4, <2>2 DEF WaitFor, WaitEnds, TypeOK
  <2> QED BY <1>0, <1>a, <2>2, <2>3, StillParked
<1>5. CASE Abort BY <1>5 DEF Abort
<1>6. CASE ResetBoard BY <1>0, <1>6, HappensOnce DEF ResetBoard
<1>7. CASE UNCHANGED vars BY <1>0, <1>7, <1>a, StillParked DEF vars
<1> QED BY <1>1, <1>2, <1>3, <1>4, <1>5, <1>6, <1>7 DEF Next, Done

-----------------------------------------------------------------------------
(* Dependencies are delivered *)

\* What board, document or an older document call completed was delivered.
LEMMA CompletedIsDelivered ==
  ASSUME TypeOK, NEW d \in Tasks, Story(d), Without({"reset", "storage"}),
         slot[d].state = "completed" \/ InDb(d) = "completed"
  PROVE  Delivered(d)
<1>1. Without({"storage"}) BY DEF Without
<1>2. at[d] \in Stages /\ "completed" \in Final BY DEF TypeOK, Handlers, Final
<1>3. CASE slot[d].state = "completed"
  <2>1. at[d] \in {"settled", "done"}
    BY <1>1, <1>2, <1>3 DEF Story, NotYetSettled, Open, Stages, Early, Asking
  <2> QED BY <1>3, <2>1 DEF Delivered
<1>4. CASE InDb(d) = "completed" /\ doc[d] # "none"
  <2>1. doc[d] = "completed" BY <1>4 DEF InDb, NoAnswer
  <2>2. at[d] \in {"recorded", "settled", "done"}
    BY <1>2, <2>1 DEF Story, DocTells, Stages, Early, Asking
  <2> QED BY <2>1, <2>2 DEF Delivered
<1>5. CASE InDb(d) = "completed" /\ doc[d] = "none"
  BY <1>5 DEF InDb, NoAnswer, Delivered
<1> QED BY <1>3, <1>4, <1>5

\* What was delivered stays so, but for the failures that the property names.
LEMMA DeliveredStays ==
  ASSUME IInv, [Next]_vars, Without({"reset", "storage"})', NEW d \in Tasks, Delivered(d)
  PROVE  Delivered(d)'
<1>0. TypeOK /\ Story(d) /\ d \in Handlers BY DEF IInv, Handlers
<1>1. CASE Earlier[d] = "completed" BY <1>1 DEF Delivered
<1>2. CASE /\ at[d] \in {"recorded", "settled", "done"}
           /\ "completed" \in {doc[d], slot[d].state} \/ asked[d] > 0
  <2>1. CASE Calm(d) BY <1>2, <2>1 DEF Calm, Delivered, Asking, Final
  <2>2. CASE Delegate(d) \/ DelegateStep(d)
    <3>1. ~Conflict(d) BY <1>0, HappensOnce DEF Conflict
    <3>2. Publish(d) \/ EndDelegate(d)
      BY <1>2, <2>2, <3>1
         DEF Delegate, DelegateStep, Resolve, UseAnswer, Reuse, CreateDoc, Start, Fail,
             SettleFailed, Deliver
    <3>3. CASE Publish(d)
      <4>1. entry[d] \in Final BY <1>0, <3>3 DEF Publish, Story, OutcomeTells
      <4>2. at'[d] = "settled" BY <1>0, <3>3, <4>1, SettleDoes DEF Publish
      <4>3. doc'[d] = doc[d] /\ asked'[d] = asked[d] BY <3>3 DEF Publish, revision
      <4>4. slot[d].state # "completed"
        BY <1>0, <3>3 DEF Publish, Story, NotYetSettled, Open, Final
      <4> QED BY <1>2, <4>2, <4>3, <4>4 DEF Delivered
    <3>4. CASE EndDelegate(d)
      BY <1>0, <1>2, <3>4 DEF EndDelegate, Goto, TypeOK, Delivered, revision
    <3> QED BY <3>2, <3>3, <3>4
  <2>3. CASE Revise(d) \/ ReviseStep(d)
    <3>1. asked'[d] > 0
      BY <1>0, <2>3
         DEF Revise, ReviseStep, RevisePrepareFails, ReviseDelivers, RevisePublishes, ReviseEnds,
             ReviseFails, ReviseSettlesFailed, Story, DocTells, TypeOK
    <3>2. at'[d] = "done"
      <4>1. CASE Revise(d) BY <4>1 DEF Revise
      <4>2. CASE RevisePublishes(d)
        <5>1. entry[d] \in Final BY <1>0, <4>2 DEF RevisePublishes, Story, OutcomeTells
        <5> QED BY <1>0, <4>2, <5>1, SettleDoes DEF RevisePublishes
      <4>3. CASE ReviseSettlesFailed(d)
        BY <1>0, <4>3, SettleDoes DEF ReviseSettlesFailed, Final
      <4>4. CASE RevisePrepareFails(d) \/ ReviseDelivers(d) \/ ReviseEnds(d) \/ ReviseFails(d)
        BY <1>0, <4>4
           DEF RevisePrepareFails, ReviseDelivers, ReviseEnds, ReviseFails, Story, DocTells
      <4> QED BY <2>3, <4>1, <4>2, <4>3, <4>4 DEF ReviseStep
    <3> QED BY <3>1, <3>2 DEF Delivered
  <2>4. ~ResetBoard BY <1>0, HappensOnce DEF ResetBoard
  <2> QED BY <2>1, <2>2, <2>3, <2>4, OthersCalm, WaitingCalm DEF Next, Done
<1> QED BY <1>1, <1>2 DEF Delivered

\* Whoever is answered by a settle is told of the task that is settled.
LEMMA SettleGives ==
  ASSUME TypeOK, Progress, NEW d \in Tasks, NEW outcome \in Final, NEW stage \in {"done", "settled"},
         Settle(d, outcome, stage), met' = met, NEW t \in Tasks,
         at'[t] \in {"awaiting", "answered"}, answer'[t] = "completed"
  PROVE  \/ at[t] = at'[t] /\ answer[t] = "completed"
         \/ Delivered(AsksFor(t))'
<1>1. t \in Handlers /\ t # d BY SettleDoes DEF Handlers
<1>2. CASE t \in AwaitersOf(d)
  <2>1. AsksFor(t)' = d /\ outcome = "completed"
    BY <1>1, <1>2, SettleDoes, Awaiting, AsksForSame
  <2>2. Delivered(d)' BY <2>1, SettleDoes DEF Delivered
  <2> QED BY <2>1, <2>2
<1>3. CASE t \notin AwaitersOf(d) BY <1>1, <1>3, SettleDoes
<1> QED BY <1>2, <1>3

\* What a handler is told, it was told before, or it has just been found.
LEMMA NextTold ==
  ASSUME IInv, [Next]_vars, Without({"reset", "storage"})', NEW t \in Tasks,
         at'[t] \in {"awaiting", "answered"}, answer'[t] = "completed"
  PROVE  Delivered(AsksFor(t))'
<1>0. /\ TypeOK /\ Progress /\ t \in Handlers /\ Given(t) /\ Without({"reset", "storage"})
      /\ \A d \in Tasks : Story(d)
  BY NotBefore DEF IInv, Handlers
<1>a. ASSUME at[t] \in {"awaiting", "answered"}, answer[t] = "completed", met'[t] = met[t]
      PROVE  Delivered(AsksFor(t))'
  <2>1. AsksFor(t)' = AsksFor(t) BY <1>a, AsksForSame, <1>0
  <2>2. AsksFor(t) \in Tasks BY <1>0, <1>a, AsksForTask DEF Asking
  <2>3. Delivered(AsksFor(t)) BY <1>0, <1>a DEF Given
  <2> QED BY <2>1, <2>2, <2>3, DeliveredStays
<1>b. ASSUME NEW d \in Tasks, NEW outcome \in Final, NEW stage \in {"done", "settled"},
             Settle(d, outcome, stage), met' = met
      PROVE  Delivered(AsksFor(t))'
  BY <1>0, <1>a, <1>b, SettleGives
<1>c. ASSUME NEW g \in Handlers, NEW stage, Goto(g, stage), stage \notin {"awaiting", "answered"}
      PROVE  t # g /\ at[t] \in {"awaiting", "answered"}
  BY <1>0, <1>c DEF Goto, TypeOK
<1>d. "failed" \in Final /\ "completed" \in Final BY DEF Final
<1>1. ASSUME NEW d \in Tasks, Delegate(d) \/ DelegateStep(d)
      PROVE  Delivered(AsksFor(t))'
  <2>0. d \in Handlers BY DEF Handlers
  <2>1. CASE UseAnswer(d)
    <3>1. CASE FailEarly(d) BY <1>b, <1>d, <3>1 DEF FailEarly
    <3>2. CASE answer[d] = "completed"
      <4>1. /\ Goto(d, NextDependency(d)) /\ NextDependency(d) \notin {"awaiting", "answered"}
            /\ \A q \in Tasks : q # d => met'[q] = met[q] /\ answer'[q] = answer[q]
        BY <1>0, <2>1, <3>2 DEF UseAnswer, NextDependency, TypeOK, Handlers
      <4> QED BY <1>a, <1>c, <2>0, <4>1
    <3> QED BY <2>1, <3>1, <3>2 DEF UseAnswer
  <2>2. CASE Resolve(d)
    <3>1. FirstDependency(d) \notin {"awaiting", "answered"} BY DEF FirstDependency
    <3>2. CASE FailEarly(d) BY <1>b, <1>d, <3>2 DEF FailEarly
    <3> QED BY <1>a, <1>c, <2>0, <2>2, <3>1, <3>2 DEF Resolve
  <2>3. CASE Reuse(d) \/ SettleFailed(d) BY <1>b, <1>d, <2>3 DEF Reuse, SettleFailed
  <2>4. CASE Publish(d)
    <3>1. entry[d] \in Final BY <1>0, <2>4 DEF Publish, Story, OutcomeTells
    <3> QED BY <1>b, <2>4, <3>1 DEF Publish
  <2>5. CASE Delegate(d) \/ CreateDoc(d) \/ Start(d) \/ Fail(d) \/ Conflict(d) \/ Deliver(d)
               \/ EndDelegate(d)
    BY <1>a, <1>c, <2>0, <2>5 DEF Delegate, CreateDoc, Start, Fail, Conflict, Deliver, EndDelegate
  <2> QED BY <1>1, <2>1, <2>2, <2>3, <2>4, <2>5 DEF DelegateStep
<1>2. ASSUME NEW d \in Tasks, Revise(d) \/ ReviseStep(d)
      PROVE  Delivered(AsksFor(t))'
  <2>1. CASE RevisePublishes(d)
    <3>1. entry[d] \in Final BY <1>0, <2>1 DEF RevisePublishes, Story, OutcomeTells
    <3> QED BY <1>b, <2>1, <3>1 DEF RevisePublishes
  <2>2. CASE ReviseSettlesFailed(d) BY <1>b, <1>d, <2>2 DEF ReviseSettlesFailed
  <2>3. CASE Revise(d) \/ RevisePrepareFails(d) \/ ReviseDelivers(d) \/ ReviseEnds(d) \/ ReviseFails(d)
    BY <1>a, <2>3 DEF Revise, RevisePrepareFails, ReviseDelivers, ReviseEnds, ReviseFails
  <2> QED BY <1>2, <2>1, <2>2, <2>3 DEF ReviseStep
<1>3. ASSUME NEW g \in Handlers, WaitStep(g) \/ Timer(g)
      PROVE  Delivered(AsksFor(t))'
  <2>0. met' = met BY <1>3 DEF WaitStep, Ask, ReadDb, Await, Timer
  <2>1. CASE g # t
    <3>1. at'[t] = at[t] /\ answer'[t] = answer[t]
      BY <1>0, <1>3, <2>1 DEF WaitStep, Ask, ReadDb, Await, Timer, Goto, TypeOK
    <3> QED BY <1>a, <2>0, <3>1
  <2>2. CASE g = t
    <3>1. AsksFor(t) \in Tasks /\ AsksFor(t)' = AsksFor(t)
      BY <1>0, <1>3, <2>0, <2>2, AsksForTask, AsksForSame
         DEF WaitStep, Ask, ReadDb, Await, Timer, Asking
    <3>2. CASE Ask(t)
      <4>1. slot[AsksFor(t)].state = "completed"
        BY <1>0, <3>2 DEF Ask, Goto, TypeOK
      <4> QED BY <1>0, <3>1, <4>1, CompletedIsDelivered, DeliveredStays
    <3>3. CASE ReadDb(t)
      <4>1. InDb(AsksFor(t)) = "completed" BY <1>0, <3>3 DEF ReadDb, TypeOK
      <4> QED BY <1>0, <3>1, <4>1, CompletedIsDelivered, DeliveredStays
    <3>4. CASE Await(t)
      <4>1. CASE answer[t] # NoAnswer
        BY <1>a, <2>0, <3>4, <4>1 DEF Await
      <4>2. CASE /\ SlotFor(slot[AsksFor(t)]).state \in Final
                 /\ answer' = [answer EXCEPT ![t] = SlotFor(slot[AsksFor(t)]).state]
        <5>1. SlotFor(slot[AsksFor(t)]).state = "completed" BY <1>0, <4>2 DEF TypeOK
        <5>2. slot[AsksFor(t)].state = "completed" BY <1>0, <3>1, <5>1, SlotForOpen
        <5> QED BY <1>0, <3>1, <5>2, CompletedIsDelivered, DeliveredStays
      <4>3. CASE Goto(t, "parked") BY <1>c, <4>3, <1>0
      <4> QED BY <3>4, <4>1, <4>2, <4>3 DEF Await
    <3>5. CASE Timer(t) BY <1>0, <3>5 DEF Timer, TypeOK
    <3> QED BY <1>3, <2>2, <3>2, <3>3, <3>4, <3>5 DEF WaitStep
  <2> QED BY <2>1, <2>2
<1>4. ASSUME NEW w \in Waits, WaitFor(w) \/ WaitEnds(w)
      PROVE  Delivered(AsksFor(t))'
  <2>1. t # w /\ w \in Handlers BY DelegationAssumption DEF Handlers
  <2>2. at'[t] = at[t] /\ answer'[t] = answer[t] /\ met' = met
    BY <1>0, <1>4, <2>1 DEF WaitFor, WaitEnds, Goto, TypeOK
  <2> QED BY <1>a, <2>2
<1>5. CASE Abort BY <1>0, <1>5, <1>a DEF Abort
<1>6. ~ResetBoard
  <2>1. TypeOK BY <1>0
  <2> QED BY <2>1, HappensOnce DEF ResetBoard
<1>7. CASE UNCHANGED vars BY <1>a, <1>7 DEF vars
<1> QED BY <1>1, <1>2, <1>3, <1>4, <1>5, <1>6, <1>7 DEF Next, Done

LEMMA NextGives == ASSUME IInv, [Next]_vars, NEW t \in Tasks PROVE Given(t)'
<1> SUFFICES ASSUME Without({"reset", "storage"})'
             PROVE  \A i \in 1 .. met'[t] : Delivered(After[t][i])'
  BY NextTold DEF Given
<1>0. /\ TypeOK /\ Progress /\ t \in Handlers /\ Given(t) /\ Without({"reset", "storage"})
  BY NotBefore DEF IInv, Handlers
<1>1. met[t] \in Nat /\ met[t] <= Len(After[t]) /\ After[t] \in Seq(Tasks)
  BY <1>0, DelegationAssumption DEF TypeOK
<1>2. ASSUME NEW i \in 1 .. met[t] PROVE Delivered(After[t][i])'
  <2>1. Delivered(After[t][i]) BY <1>0 DEF Given
  <2>2. After[t][i] \in Tasks BY <1>1
  <2> QED BY <2>1, <2>2, DeliveredStays
<1>3. CASE UseAnswer(t) /\ answer[t] = "completed"
  <2>1. at[t] = "answered" /\ met'[t] = met[t] + 1 /\ met[t] < Len(After[t])
    BY <1>0, <1>3 DEF UseAnswer, TypeOK, Progress, Asking
  <2>2. Delivered(AsksFor(t)) BY <1>0, <1>3, <2>1 DEF Given
  <2>3. AsksFor(t) = After[t][met[t] + 1]
    BY DelegationAssumption DEF AsksFor
  <2>4. AsksFor(t) \in Tasks BY <1>0, <2>1, AsksForTask DEF Asking
  <2>5. ASSUME NEW i \in 1 .. met'[t] PROVE Delivered(After[t][i])'
    <3>1. CASE i \in 1 .. met[t] BY <1>2, <3>1
    <3>2. CASE i = met[t] + 1
      <4>1. Delivered(After[t][i]) /\ After[t][i] \in Tasks BY <2>2, <2>3, <2>4, <3>2
      <4> QED BY <4>1, DeliveredStays
    <3> QED BY <1>1, <2>1, <3>1, <3>2
  <2> QED BY <2>5
<1>4. CASE met'[t] = met[t] BY <1>2, <1>4
<1>5. \/ UseAnswer(t) /\ answer[t] = "completed"
      \/ met'[t] = met[t]
  <2>1. ASSUME NEW d \in Tasks, Delegate(d) \/ DelegateStep(d) \/ Revise(d) \/ ReviseStep(d)
        PROVE  met'[t] = met[t] \/ (UseAnswer(t) /\ answer[t] = "completed")
    <3>1. CASE d # t BY <2>1, <3>1, OthersCalm
    <3>2. CASE d = t
      BY <2>1, <3>2
         DEF Delegate, DelegateStep, Resolve, FailEarly, UseAnswer, Reuse, CreateDoc, Start, Fail,
             Conflict, SettleFailed, Deliver, Publish, EndDelegate, Revise, ReviseStep,
             RevisePrepareFails, ReviseDelivers, RevisePublishes, ReviseEnds, ReviseFails,
             ReviseSettlesFailed
    <3> QED BY <3>1, <3>2
  <2>2. CASE ResetBoard BY <2>2 DEF ResetBoard
  <2> QED BY <2>1, <2>2, WaitingCalm DEF Next, Done
<1> QED BY <1>3, <1>4, <1>5

-----------------------------------------------------------------------------
(* What is promised *)

LEMMA InitDelegation == Init => IInv
<1> SUFFICES ASSUME Init PROVE IInv OBVIOUS
<1>1. /\ \A t \in Tasks : slot[t].state = "none" /\ doc[t] = "none" /\ at[t] = "idle"
                          /\ revising[t] = "idle" /\ met[t] = 0
      /\ \A h \in Handlers : at[h] = "idle"
  BY DEF Init, Handlers
<1>2. TypeOK
  <2>1. \A t \in Tasks : Len(After[t]) \in Nat BY DelegationAssumption
  <2>2. upset \in Seq(Faults) /\ Len(upset) <= MaxUpsets BY DelegationAssumption DEF Init
  <2>3. slot \in [Tasks -> [id : Nat, state : Final \cup {"none", "open"}]] BY DEF Init
  <2>4. at \in [Handlers -> Stages] BY DEF Init, Stages
  <2>5. wait \in [Handlers -> [id : Nat, known : BOOLEAN]] BY DEF Init, NoWait
  <2>6. answer \in [Handlers -> Answers] /\ entry \in [Tasks -> Final \cup {NoAnswer}]
    BY DEF Init, Answers
  <2>7. met \in [Tasks -> Nat] /\ \A t \in Tasks : met[t] <= Len(After[t])
    BY <2>1 DEF Init
  <2>8. /\ doc \in [Tasks -> Final \cup {"none", "in_progress"}]
        /\ partial \in [Tasks -> BOOLEAN] /\ aborted \in BOOLEAN
        /\ revising \in [Tasks -> {"idle", "running", "recorded", "settled", "failing"}]
    BY DEF Init
  <2>9. revisions \in [Tasks -> 0 .. MaxRevisions] /\ asked \in [Tasks -> 0 .. MaxAsked]
    BY DelegationAssumption DEF Init
  <2> QED BY <2>2, <2>3, <2>4, <2>5, <2>6, <2>7, <2>8, <2>9 DEF TypeOK
<1>3. Progress BY <1>1 DEF Progress, Asking
<1>4. NoOrphanWaiter BY <1>1 DEF NoOrphanWaiter
<1>5. \A t \in Tasks : Story(t)
  BY <1>1 DEF Story, DocTells, NotYetSettled, OutcomeTells, IsSettled, AtRest, Open, Final
<1>6. \A t \in Tasks : Given(t) BY <1>1 DEF Given
<1> QED BY <1>2, <1>3, <1>4, <1>5, <1>6 DEF IInv

LEMMA NextDelegation == IInv /\ [Next]_vars => IInv'
BY NextTyped, NextOrphansNobody, NextTells, NextGives DEF IInv

\* Types and progress, who waits on what, the story of each task and what its handler was
\* given, in every state.
THEOREM DelegationInvariant == Spec => []IInv
<1> QED BY InitDelegation, NextDelegation, PTL DEF Spec

\* Unless the board is reset, whoever waits waits on the slot that the name has now, which is
\* open: no settle can miss a waiter.
THEOREM NobodyIsOrphaned == Spec => []NoOrphanWaiter
<1>1. IInv => NoOrphanWaiter BY DEF IInv
<1> QED BY <1>1, DelegationInvariant, PTL

\* A worker starts after all the tasks that its task names in `after`.
THEOREM DependenciesComeFirst == Spec => []StartsAfterDependencies
<1>1. IInv => StartsAfterDependencies
  <2> SUFFICES ASSUME IInv, Without({"reset", "storage"}), NEW t \in Tasks,
                      at[t] \in {"cleared", "created", "running"}, NEW i \in 1 .. Len(After[t])
               PROVE  Delivered(After[t][i])
    BY DEF StartsAfterDependencies
  <2>1. met[t] = Len(After[t]) BY DEF IInv, Progress
  <2> QED BY <2>1 DEF IInv, Given
<1> QED BY <1>1, DelegationInvariant, PTL

\* At rest the board and the document of a task say the same, and nobody waits for a task
\* whose document says that it has failed.
THEOREM BoardAndDocumentsAgree == Spec => []StoriesAgree
<1>1. IInv => StoriesAgree
  <2> SUFFICES ASSUME IInv PROVE StoriesAgree OBVIOUS
  <2>1. TypeOK /\ Progress BY DEF IInv
  <2>2. BoardAgreesWithDb
    <3> SUFFICES ASSUME NEW t \in Tasks, doc[t] \in Final, ~Active(t), slot[t].state \in Final
                 PROVE  Agree(t, slot[t].state)
      BY DEF BoardAgreesWithDb, Agree
    <3>1. at[t] \in {"idle", "done"} /\ revising[t] = "idle" BY DEF Active
    <3>2. at[t] = "done" BY <3>1 DEF IInv, Story, DocTells, Early, Final
    <3> QED BY <3>1, <3>2 DEF IInv, Story, OutcomeTells, AtRest, Open
  <2>3. FailedIsReported
    <3> SUFFICES ASSUME Without({"reset", "storage", "prepare"}), NEW h \in Handlers,
                        at[h] = "parked", doc[AsksFor(h)] = "failed", ~Active(AsksFor(h))
                 PROVE  FALSE
      BY DEF FailedIsReported
    <3>1. AsksFor(h) \in Tasks BY <2>1, AsksForTask DEF Asking
    <3>2. Without({"reset"}) BY DEF Without
    <3>3. slot[AsksFor(h)].state = "open" BY <3>2 DEF IInv, NoOrphanWaiter
    <3>4. at[AsksFor(h)] \in {"idle", "done"} /\ revising[AsksFor(h)] = "idle" BY DEF Active
    <3>5. at[AsksFor(h)] = "done" BY <3>1, <3>4 DEF IInv, Story, DocTells, Early
    <3> QED BY <3>1, <3>3, <3>4, <3>5 DEF IInv, Story, IsSettled, AtRest, Open, Final
  <2> QED BY <2>1, <2>2, <2>3 DEF StoriesAgree
<1> QED BY <1>1, DelegationInvariant, PTL

\* The outcome that a slot was given stays, unless a write conflicts after it.
THEOREM OutcomesAreFinal == Spec => OutcomeIsFinal
<1>1. ASSUME IInv, [Next]_vars, NEW t \in Tasks, Without({"storage"}), slot[t].state \in Final,
             slot'[t].id = slot[t].id, slot'[t].state # "none"
      PROVE  slot'[t].state = slot[t].state
  <2>0. TypeOK /\ Story(t) BY <1>1 DEF IInv
  <2>1. \A d \in Tasks : d # t /\ (Delegate(d) \/ DelegateStep(d) \/ Revise(d) \/ ReviseStep(d))
                         => slot'[t].state = slot[t].state
    BY <1>1, OthersCalm DEF Calm
  <2>2. CASE Delegate(t) \/ DelegateStep(t)
    <3>1. at[t] \notin Early \cup {"created", "running", "recorded", "failing"}
      BY <1>1, <2>0 DEF Story, NotYetSettled, Open
    <3>2. CASE Conflict(t) \/ EndDelegate(t) BY <3>2 DEF Conflict, EndDelegate
    <3> QED
      BY <2>2, <3>1, <3>2
         DEF Delegate, DelegateStep, Resolve, UseAnswer, Reuse, CreateDoc, Start, Fail,
             SettleFailed, Deliver, Publish, Early, Asking
  <2>3. CASE Revise(t)
    <3>1. slot'[t] = Announced(slot[t]) BY <2>0, <2>3 DEF Revise, Announce, TypeOK
    <3>2. slot'[t].id # slot[t].id
      BY <1>1, <2>0, <3>1 DEF Announced, SlotFor, TypeOK
    <3> QED BY <1>1, <3>2
  <2>4. CASE ReviseStep(t)
    <3>1. revising[t] \notin {"running", "recorded", "failing"}
      BY <1>1, <2>0 DEF Story, NotYetSettled, Open
    <3>2. CASE ReviseEnds(t) \/ ReviseFails(t) BY <3>2 DEF ReviseEnds, ReviseFails
    <3> QED
      BY <2>4, <3>1, <3>2
         DEF ReviseStep, RevisePrepareFails, ReviseDelivers, RevisePublishes, ReviseSettlesFailed
  <2>5. CASE ResetBoard BY <1>1, <2>0, <2>5 DEF ResetBoard, TypeOK
  <2>6. CASE \/ \E h \in Handlers : WaitStep(h) \/ Timer(h)
             \/ \E w \in Waits : WaitFor(w) \/ WaitEnds(w)
             \/ Abort \/ UNCHANGED vars
    BY <1>1, <2>6, WaitingCalm DEF Calm
  <2> QED BY <1>1, <2>1, <2>2, <2>3, <2>4, <2>5, <2>6 DEF Next, Done
<1>2. IInv /\ [Next]_vars =>
        [\A t \in Tasks :
           Without({"storage"}) /\ slot[t].state \in Final /\ slot'[t].id = slot[t].id /\ slot'[t].state # "none"
             => slot'[t].state = slot[t].state]_vars
  BY <1>1
<1> QED BY <1>2, DelegationInvariant, PTL DEF Spec, OutcomeIsFinal
=============================================================================
