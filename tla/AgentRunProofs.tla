--------------------------- MODULE AgentRunProofs ---------------------------
(***************************************************************************)
(* For any calls, step limit, number of turns and number of crashes:       *)
(*                                                                         *)
(*   - while a process drives a run its row is running and its own, however*)
(*     lease renewals race the writes of the loop;                         *)
(*   - as long as no write of the loop was dropped and none put counters   *)
(*     over a snapshot, nothing that was dispatched is ever forgotten, the *)
(*     snapshot is kept, the end of the run is recorded, and every tool    *)
(*     call of the transcript is answered before the model is called.      *)
(*                                                                         *)
(* The second part is what the order of the writes is for: the approved    *)
(* calls are in the row before the first of them is dispatched. So is that *)
(* a run makes no more turns than steps, over all its processes: the row   *)
(* has the count of the turn before the turn dispatches anything.          *)
(***************************************************************************)
EXTENDS AgentRun, FiniteSetTheorems, TLAPS

Alive == pc \notin {"off", "over", "crashed"}

-----------------------------------------------------------------------------
(* Whose row it is *)

\* A write of the loop is one of its six.
WritesKnown == pc = "writing" => job \in Jobs

\* While a process drives the run, its row is running and its own.
Ownership == Alive => row.owner = pid /\ row.status = "running"

Statuses == Ended \cup {"none", "running", "resumable"}
Owners == 0 .. MaxCrashes + 1
Rows == [ver : Nat, status : Statuses, owner : Owners, ckpt : Checkpoint]

OwnerInv == TypeOK /\ WritesKnown /\ Ownership

LEMMA InitOwnerInv == Init => OwnerInv
BY AgentRunAssumption
DEF Init, OwnerInv, TypeOK, WritesKnown, Ownership, Alive, Checkpoint, NoCheckpoint

\* A row with a new version is a row.
LEMMA RowPut ==
  ASSUME NEW r \in Rows
  PROVE  /\ [r EXCEPT !.ver = @ + 1] \in Rows
         /\ [r EXCEPT !.ver = @ + 1].owner = r.owner
         /\ [r EXCEPT !.ver = @ + 1].status = r.status
BY DEF Rows, Statuses, Owners

\* What a write of the loop puts is a row, with the owner of the one it read.
LEMMA WrittenIsRow ==
  ASSUME TypeOK, NEW r \in Rows, NEW j \in Jobs
  PROVE  /\ Written(r, j) \in Rows
         /\ [Written(r, j) EXCEPT !.ver = @ + 1] \in Rows
         /\ Written(r, j).owner = r.owner
         /\ j \notin {"final", "interrupted"} =>
              Written(r, j).status \in {r.status, "running"}
<1>1. approved \in SUBSET Call /\ told \in SUBSET Call /\ open \in SUBSET Call /\ iter \in 0 .. MaxSteps
  BY DEF TypeOK
<1>2. Snapshot(approved) \in Checkpoint /\ Snapshot({}) \in Checkpoint
  BY <1>1 DEF Snapshot, Checkpoint
<1>3. Counters \in Checkpoint
  BY AgentRunAssumption DEF Counters, NoCheckpoint, Checkpoint
<1>4. run \in Ended \cup {"running"} BY DEF TypeOK
<1>5. CASE j = "periodic"
  <2>1. Written(r, j) = [r EXCEPT !.status = "running", !.ckpt = Counters]
    BY <1>5 DEF Written
  <2>2. Written(r, j) \in Rows BY <1>3, <2>1 DEF Rows, Statuses, Owners
  <2>3. Written(r, j).owner = r.owner /\ Written(r, j).status \in {r.status, "running"}
    BY <2>1 DEF Rows, Statuses, Owners
  <2> QED BY <2>2, <2>3, RowPut
<1>6. CASE j = "pre-tool"
  <2>1. Written(r, j) = [r EXCEPT !.ckpt = Snapshot(approved)]
    BY <1>6 DEF Written
  <2>2. Written(r, j) \in Rows BY <1>2, <2>1 DEF Rows, Statuses, Owners
  <2>3. Written(r, j).owner = r.owner /\ Written(r, j).status \in {r.status, "running"}
    BY <2>1 DEF Rows, Statuses, Owners
  <2> QED BY <2>2, <2>3, RowPut
<1>7. CASE j \in {"post-tool", "clear"} BY <1>2, <1>7 DEF Written, Rows, Statuses, Owners
<1>8. CASE j \in {"final", "interrupted"} BY <1>4, <1>8 DEF Written, Rows, Statuses, Owners
<1> QED BY <1>5, <1>6, <1>7, <1>8 DEF Jobs

LEMMA OwnerStep == OwnerInv /\ [Next]_vars => OwnerInv'
<1> SUFFICES ASSUME TypeOK, WritesKnown, Ownership, [Next]_vars PROVE OwnerInv'
  BY DEF OwnerInv
<1> USE AgentRunAssumption
<1>0. row \in Rows BY DEF TypeOK, Rows, Statuses, Owners
<1>1. CASE ReadRow
  BY <1>1 DEF ReadRow, TypeOK, OwnerInv, WritesKnown, Ownership, Alive, loop, lease, history
<1>2. CASE PutRow
  <2>1. row' \in Rows /\ row'.owner = row.owner
    BY <1>0, <1>2, WrittenIsRow DEF PutRow, WritesKnown, Rows, Statuses, Owners
  <2>2. After(job) \in {"model", "tools", "top", "ending", "over"}
    BY <1>2 DEF PutRow, WritesKnown, Jobs, After
  <2>3. Alive' => row'.status = "running"
    <3>1. SUFFICES ASSUME job \notin {"final", "interrupted"} PROVE row'.status = "running"
      BY <1>2 DEF PutRow, WritesKnown, Jobs, After, Alive
    <3> QED BY <1>0, <1>2, <3>1, WrittenIsRow DEF PutRow, WritesKnown, Ownership, Alive, Rows, Statuses, Owners
  <2> QED BY <1>2, <2>1, <2>2, <2>3
    DEF PutRow, Upsets, TypeOK, Rows, Statuses, Owners, OwnerInv, WritesKnown, Ownership, Alive, loop, lease, history
<1>3. CASE Top
  <2>1. upset' \subseteq Upsets
    <3>1. upset' = upset \/ upset' = upset \cup {"periodic"} BY <1>3 DEF Top
    <3> QED BY <3>1 DEF TypeOK, Upsets
  <2>2. iter' \in 0 .. MaxSteps BY <1>3 DEF Top, StepsLeft, TypeOK
  <2>3. run' \in Ended \cup {"running"} BY <1>3 DEF Top, StopWith, Ended, TypeOK
  <2>4. \/ pc' = "writing" /\ job' \in Jobs /\ seen' = 0
        \/ pc' \in {"model", "ending"} /\ UNCHANGED <<job, seen>>
    BY <1>3 DEF Top, StopWith, StartWrite, Jobs
  <2> QED BY <1>3, <2>1, <2>2, <2>3, <2>4
    DEF Top, TypeOK, OwnerInv, WritesKnown, Ownership, Alive, lease
<1>4. CASE AnswerText
  BY <1>4 DEF AnswerText, StopWith, Ended, TypeOK, OwnerInv, WritesKnown, Ownership, Alive,
              lease, history
<1>5. CASE Retry
  BY <1>5 DEF Retry, TypeOK, OwnerInv, WritesKnown, Ownership, Alive, lease, history
<1>6. CASE CallTools
  <2>1. PICK asked \in SUBSET Calls, ok \in SUBSET Calls :
          /\ open' = open \cup ({turns + 1} \X asked)
          /\ approved' = {turns + 1} \X ok
          /\ todo' = {turns + 1} \X ok
    BY <1>6 DEF CallTools
  <2>2. turns + 1 \in 1 .. MaxTurns BY <1>6 DEF CallTools, TypeOK
  <2>3. open' \subseteq Call /\ approved' \subseteq Call
    BY <2>1, <2>2 DEF Call, TypeOK
  <2> QED BY <1>6, <2>1, <2>2, <2>3
    DEF CallTools, StartWrite, Upsets, TypeOK, OwnerInv, WritesKnown, Jobs, Ownership, Alive, lease
<1>7. CASE Dispatch
  BY <1>7 DEF Dispatch, TypeOK, OwnerInv, WritesKnown, Ownership, Alive, lease
<1>8. CASE Collect
  BY <1>8 DEF Collect, StartWrite, Ended, TypeOK, OwnerInv, WritesKnown, Jobs, Ownership, Alive,
              lease, history
<1>9. CASE Finish
  BY <1>9 DEF Finish, StartWrite, Ended, TypeOK, OwnerInv, WritesKnown, Jobs, Ownership, Alive,
              lease, history
<1>10. CASE Begin
  <2>1. pid \in Owners BY DEF TypeOK, Owners
  <2>2. row' \in Rows /\ row'.owner = pid /\ row'.status = "running"
    BY <1>0, <1>10, <2>1 DEF Begin, Rows, Statuses, Owners
  <2> QED BY <1>10, <2>2
    DEF Begin, Rows, Statuses, Owners, TypeOK, OwnerInv, WritesKnown, Ownership, Alive, loop, lease, history
<1>11. CASE Resume
  <2>0. pid \in Owners BY DEF TypeOK, Owners
  <2>1. row' \in Rows /\ row'.owner = pid /\ row'.status = "running"
    <3>1. row' = [row EXCEPT !.ver = @ + 1, !.status = "running", !.owner = pid]
      BY <1>11 DEF Resume, Reclaimed
    <3>2. row.ver + 1 \in Nat /\ "running" \in Statuses BY <1>0 DEF Rows, Statuses
    <3> QED BY <1>0, <2>0, <3>1, <3>2 DEF Rows
  <2>2. row.ckpt \in Checkpoint BY <1>0 DEF Rows, Statuses, Owners
  <2>3. CASE row.ckpt.kind = "full"
    <3>1. told' \subseteq Call /\ open' \subseteq Call /\ iter' \in 0 .. MaxSteps
      BY <1>11, <2>2, <2>3 DEF Resume, RestoredIter, Checkpoint
    <3>2. \/ pc' = "writing" /\ job' = "clear" /\ seen' = 0
          \/ pc' = "top" /\ UNCHANGED <<job, seen>>
      BY <1>11, <2>3 DEF Resume, StartWrite
    <3> QED BY <1>11, <2>1, <3>1, <3>2
      DEF Resume, TypeOK, Rows, Statuses, Owners, OwnerInv, WritesKnown, Jobs, Ownership, Alive, lease, history
  <2>4. CASE row.ckpt.kind # "full"
    BY <1>11, <2>1, <2>4
    DEF Resume, TypeOK, Rows, Statuses, Owners, OwnerInv, WritesKnown, Ownership, Alive, lease, history
  <2> QED BY <2>3, <2>4
<1>12. CASE Throw
  BY <1>12 DEF Throw, StartWrite, Ended, TypeOK, OwnerInv, WritesKnown, Jobs, Ownership, Alive,
               lease, history
<1>13. CASE Crash
  BY <1>13 DEF Crash, TypeOK, OwnerInv, WritesKnown, Ownership, Alive, history
<1>14. CASE Reconcile
  <2>1. row' \in Rows
    <3>1. row.ver + 1 \in Nat /\ 0 \in Owners /\ "resumable" \in Statuses
      BY <1>0 DEF Rows, Owners, Statuses
    <3>2. row' = row \/ row' = [row EXCEPT !.ver = @ + 1, !.status = "resumable", !.owner = 0]
      BY <1>14 DEF Reconcile
    <3> QED BY <1>0, <3>1, <3>2 DEF Rows
  <2> QED BY <1>0, <1>14, <2>1
    DEF Reconcile, Rows, Statuses, Owners, TypeOK, OwnerInv, WritesKnown, Ownership, Alive, loop, lease, history
<1>15. CASE RenewRead
  BY <1>15 DEF RenewRead, TypeOK, OwnerInv, WritesKnown, Ownership, Alive, loop, history
<1>16. CASE RenewPut
  <2>1. row' \in Rows BY <1>0, <1>16 DEF RenewPut, Rows, Statuses, Owners
  <2> QED BY <1>0, <1>16, <2>1
    DEF RenewPut, Rows, Statuses, Owners, TypeOK, OwnerInv, WritesKnown, Ownership, Alive, loop, history
<1>17. CASE UNCHANGED vars
  BY <1>17 DEF vars, TypeOK, OwnerInv, WritesKnown, Ownership, Alive, loop, lease, history
<1> QED
  BY <1>1, <1>2, <1>3, <1>4, <1>5, <1>6, <1>7, <1>8, <1>9, <1>10, <1>11, <1>12, <1>13, <1>14,
     <1>15, <1>16, <1>17
  DEF Next, Step, Over

\* Every variable of the loop keeps its type, the steps within maxSteps over all processes.
THEOREM TypeCorrect == Spec => []TypeOK
<1>1. OwnerInv => TypeOK BY DEF OwnerInv
<1> QED BY <1>1, InitOwnerInv, OwnerStep, PTL DEF Spec

\* The row of a run that a process drives is never taken for abandoned, nor another's.
THEOREM RowIsOwned == Spec => []OwnedWhileRunning
<1>1. OwnerInv => OwnedWhileRunning BY DEF OwnerInv, Ownership, Alive, OwnedWhileRunning
<1> QED BY <1>1, InitOwnerInv, OwnerStep, PTL DEF Spec

\* No late renewal and no write of the loop makes a finished run "running" again.
THEOREM EndIsKept == Spec => NeverRevived
<1>1. ASSUME OwnerInv, [Next]_vars, row.status \in Ended, row'.status = "running"
      PROVE  pc = "off"
  <2>0. row \in Rows BY <1>1 DEF OwnerInv, TypeOK, Rows, Statuses, Owners
  <2>1. CASE PutRow
    <3>1. row.status = "running" BY <1>1, <2>1 DEF PutRow, OwnerInv, Ownership, Alive
    <3> QED BY <1>1, <3>1 DEF Ended
  <2>2. CASE Begin \/ Resume BY <2>2 DEF Begin, Resume
  <2>3. CASE Reconcile BY <1>1, <2>0, <2>3 DEF Reconcile, Ended, Rows, Statuses, Owners
  <2>4. CASE RenewPut BY <1>1, <2>0, <2>4 DEF RenewPut, Ended, Rows, Statuses, Owners
  <2>5. CASE UNCHANGED row BY <1>1, <2>5 DEF Ended
  <2> QED BY <1>1, <2>1, <2>2, <2>3, <2>4, <2>5
    DEF Next, Step, Over, vars, ReadRow, Top, AnswerText, Retry, CallTools, Dispatch, Collect,
        Finish, Throw, Crash, RenewRead
<1>2. OwnerInv /\ [Next]_vars => [row.status \in Ended /\ row'.status = "running" => pc = "off"]_vars
  BY <1>1
<1> QED BY <1>2, InitOwnerInv, OwnerStep, PTL DEF Spec, NeverRevived

-----------------------------------------------------------------------------
(* Nothing is forgotten *)

\* What went against the run stays in the history: an undisturbed run always was one.
LEMMA UpsetGrows == [Next]_vars => upset \subseteq upset'
BY DEF Next, Step, Over, vars, history, ReadRow, PutRow, Begin, Resume, Top, StopWith, StartWrite,
       AnswerText, Retry, CallTools, Dispatch, Collect, Finish, Throw, Crash, Reconcile,
       RenewRead, RenewPut

\* No write under way is a periodic one.
NoCounters == pc = "writing" => job # "periodic"

\* A process that drives no run knows nothing.
Forgetful == pc \in {"off", "crashed"} => told = {} /\ open = {}

\* The calls of this turn that were approved are open.
ApprovedAreOpen ==
  (pc = "writing" /\ job = "pre-tool") \/ pc = "tools"
    => approved \subseteq {c \in open : c[1] = turns}

\* Outside of a batch of tools the transcript tells of all that was dispatched; in one,
\* the row has the batch as pending.
Told ==
  /\ \/ pc \in {"top", "model"}
     \/ pc = "writing" /\ job \in {"pre-tool", "post-tool", "clear"}
     => ran \subseteq told
  /\ pc = "tools" => /\ ran \subseteq told \cup approved
                     /\ approved \subseteq row.ckpt.pending

\* The row tells of all that was dispatched, by any process.
Recorded ==
  /\ ran \subseteq row.ckpt.told \cup row.ckpt.pending
  /\ row.ckpt.kind # "full" => row.ckpt.told = {} /\ row.ckpt.pending = {}
  /\ row.ver = 0 => row.ckpt.kind # "full"

Memory == NoCounters /\ Forgetful /\ ApprovedAreOpen /\ Told /\ Recorded
MemoryInv == OwnerInv /\ (Undisturbed => Memory)

LEMMA InitMemoryInv == Init => MemoryInv
BY InitOwnerInv
DEF Init, MemoryInv, Memory, NoCounters, Forgetful, ApprovedAreOpen, Told, Recorded, NoCheckpoint

\* What a write puts in the checkpoint, once it is a snapshot.
LEMMA WrittenCheckpoint ==
  ASSUME NEW r \in Rows, NEW j \in Jobs, j # "periodic"
  PROVE  Written(r, j).ckpt =
           IF j = "pre-tool" THEN Snapshot(approved)
           ELSE IF j \in {"post-tool", "clear"} THEN Snapshot({}) ELSE r.ckpt
BY DEF Written, Rows, Jobs

LEMMA WrittenKeeps ==
  ASSUME OwnerInv, NoCounters, PutRow, Undisturbed'
  PROVE  /\ row' = [Written(row, job) EXCEPT !.ver = @ + 1]
         /\ row'.ver # 0
         /\ row'.status = Written(row, job).status
         /\ row'.ckpt = IF job = "pre-tool" THEN Snapshot(approved)
                        ELSE IF job \in {"post-tool", "clear"} THEN Snapshot({}) ELSE row.ckpt
<1>1. row \in Rows /\ job \in Jobs /\ job # "periodic"
  BY DEF OwnerInv, TypeOK, Rows, Statuses, Owners, WritesKnown, NoCounters, PutRow
<1>2. row' = [Written(row, job) EXCEPT !.ver = @ + 1]
  BY DEF PutRow, Undisturbed
<1>3. Written(row, job) \in Rows BY <1>1, WrittenIsRow DEF OwnerInv
<1> QED BY <1>1, <1>2, <1>3, WrittenCheckpoint DEF Rows

LEMMA MemoryStep == MemoryInv /\ [Next]_vars => MemoryInv'
<1> SUFFICES ASSUME OwnerInv, Undisturbed => Memory, [Next]_vars, Undisturbed'
             PROVE  Memory'
  BY OwnerStep DEF MemoryInv
<1>00. Undisturbed /\ Memory BY UpsetGrows DEF Undisturbed
<1>0. row \in Rows /\ TypeOK /\ WritesKnown
  BY DEF OwnerInv, TypeOK, Rows, Statuses, Owners
<1> USE <1>00, AgentRunAssumption DEF Memory
<1>1. CASE ReadRow
  BY <1>1 DEF ReadRow, NoCounters, Forgetful, ApprovedAreOpen, Told, Recorded, loop, lease, history
<1>2. CASE PutRow
  <2>1. job \in Jobs /\ job # "periodic" /\ pc = "writing"
    BY <1>0, <1>2 DEF PutRow, WritesKnown, NoCounters
  <2>2. CASE job = "pre-tool"
    <3>1. pc' = "tools" /\ row'.ckpt = Snapshot(approved) /\ row'.ver # 0
      BY <1>2, <2>2, WrittenKeeps DEF PutRow, After
    <3> QED BY <1>2, <2>1, <2>2, <3>1
      DEF PutRow, Snapshot, NoCounters, Forgetful, ApprovedAreOpen, Told, Recorded, loop, lease,
          history
  <2>3. CASE job \in {"post-tool", "clear"}
    <3>1. pc' \in {"top", "ending"} /\ row'.ckpt = Snapshot({}) /\ row'.ver # 0
      BY <1>2, <2>3, WrittenKeeps DEF PutRow, After
    <3> QED BY <1>2, <2>1, <2>3, <3>1
      DEF PutRow, Snapshot, NoCounters, Forgetful, ApprovedAreOpen, Told, Recorded, loop, lease,
          history
  <2>4. CASE job \in {"final", "interrupted"}
    <3>1. pc' = "over" /\ row'.ckpt = row.ckpt /\ row'.ver # 0
      BY <1>2, <2>4, WrittenKeeps DEF PutRow, After
    <3> QED BY <1>2, <2>1, <2>4, <3>1
      DEF PutRow, NoCounters, Forgetful, ApprovedAreOpen, Told, Recorded, loop, lease
  <2> QED BY <2>1, <2>2, <2>3, <2>4 DEF Jobs
<1>3. CASE Top
  <2>1. pc = "top" /\ pc' \in {"model", "ending"}
    <3>1. upset' # upset \cup {"periodic"} BY DEF Undisturbed
    <3> QED BY <1>3, <3>1 DEF Top, StopWith
  <2>2. UNCHANGED <<row, told, open, approved, job, seen, turns, ran>>
    BY <1>3, <2>1 DEF Top, StartWrite
  <2> QED BY <2>1, <2>2
    DEF NoCounters, Forgetful, ApprovedAreOpen, Told, Recorded, lease, history
<1>4. CASE AnswerText
  BY <1>4 DEF AnswerText, StopWith, NoCounters, Forgetful, ApprovedAreOpen, Told, Recorded, lease,
              history
<1>5. CASE Retry
  BY <1>5 DEF Retry, NoCounters, Forgetful, ApprovedAreOpen, Told, Recorded, lease, history
<1>6. CASE CallTools
  <2>1. PICK asked \in SUBSET Calls, ok \in SUBSET Calls :
          /\ ok \subseteq asked
          /\ open' = open \cup ({turns + 1} \X asked)
          /\ approved' = {turns + 1} \X ok
    BY <1>6 DEF CallTools
  <2>2. approved' \subseteq {c \in open' : c[1] = turns + 1} BY <2>1
  <2> QED BY <1>6, <2>2
    DEF CallTools, StartWrite, NoCounters, Forgetful, ApprovedAreOpen, Told, Recorded, lease
<1>7. CASE Dispatch
  <2>1. PICK c \in approved : ran' = ran \cup {c} BY <1>0, <1>7 DEF Dispatch, TypeOK
  <2> QED BY <1>7, <2>1
    DEF Dispatch, NoCounters, Forgetful, ApprovedAreOpen, Told, Recorded, lease
<1>8. CASE Collect
  BY <1>8 DEF Collect, StartWrite, NoCounters, Forgetful, ApprovedAreOpen, Told, Recorded, lease,
              history
<1>9. CASE Finish
  BY <1>9 DEF Finish, StartWrite, NoCounters, Forgetful, ApprovedAreOpen, Told, Recorded, lease,
              history
<1>10. CASE Begin
  <2>1. row'.ckpt = row.ckpt /\ row'.ver # 0 BY <1>0, <1>10 DEF Begin, Rows
  <2> QED BY <1>10, <2>1
    DEF Begin, NoCounters, Forgetful, ApprovedAreOpen, Told, Recorded, loop, lease, history
<1>11. CASE Resume
  <2>1. row'.ckpt = row.ckpt /\ row'.ver # 0 BY <1>0, <1>11 DEF Resume, Reclaimed, Rows
  <2>2. CASE row.ckpt.kind = "full"
    <3>1. told' = row.ckpt.told \cup row.ckpt.pending BY <1>11, <2>2 DEF Resume
    <3>2. \/ pc' = "writing" /\ job' = "clear" /\ seen' = 0
          \/ pc' = "top" /\ UNCHANGED <<job, seen>>
      BY <1>11, <2>2 DEF Resume, StartWrite
    <3> QED BY <1>11, <2>1, <3>1, <3>2
      DEF Resume, NoCounters, Forgetful, ApprovedAreOpen, Told, Recorded, lease, history
  <2>3. CASE row.ckpt.kind # "full"
    BY <1>11, <2>1, <2>3
    DEF Resume, NoCounters, Forgetful, ApprovedAreOpen, Told, Recorded, lease, history
  <2> QED BY <2>2, <2>3
<1>12. CASE Throw
  BY <1>12 DEF Throw, StartWrite, NoCounters, Forgetful, ApprovedAreOpen, Told, Recorded, lease,
               history
<1>13. CASE Crash
  BY <1>13 DEF Crash, NoCounters, Forgetful, ApprovedAreOpen, Told, Recorded, history
<1>14. CASE Reconcile
  <2>1. row'.ckpt = row.ckpt /\ (row.ver # 0 => row'.ver # 0) BY <1>0, <1>14 DEF Reconcile, Rows
  <2> QED BY <1>14, <2>1
    DEF Reconcile, NoCounters, Forgetful, ApprovedAreOpen, Told, Recorded, loop, lease, history
<1>15. CASE RenewRead \/ RenewPut
  <2>1. row'.ckpt = row.ckpt /\ (row.ver # 0 => row'.ver # 0)
    BY <1>0, <1>15 DEF RenewRead, RenewPut, Rows
  <2>2. UNCHANGED <<pc, job, loop, history>> BY <1>15 DEF RenewRead, RenewPut
  <2> QED BY <1>15, <2>1, <2>2
    DEF RenewRead, RenewPut, NoCounters, Forgetful, ApprovedAreOpen, Told, Recorded, loop, history
<1>16. CASE UNCHANGED vars
  BY <1>16 DEF vars, NoCounters, Forgetful, ApprovedAreOpen, Told, Recorded, loop, lease, history
<1> QED
  BY <1>1, <1>2, <1>3, <1>4, <1>5, <1>6, <1>7, <1>8, <1>9, <1>10, <1>11, <1>12, <1>13, <1>14,
     <1>15, <1>16
  DEF Next, Step, Over

\* Before every call of the model the transcript tells of every tool that was dispatched
\* by this process or one before it, for any number of crashes.
THEOREM NothingForgotten == Spec => []NoForgottenCall
<1>1. Init => MemoryInv BY InitMemoryInv
<1>2. MemoryInv /\ [Next]_vars => MemoryInv' BY MemoryStep
<1>3. MemoryInv => NoForgottenCall BY DEF MemoryInv, Memory, Told, NoForgottenCall
<1> QED BY <1>1, <1>2, <1>3, PTL DEF Spec

\* Once a run has a snapshot to resume from it always has one.
THEOREM SnapshotsStay == Spec => SnapshotKept
<1>1. Init => MemoryInv BY InitMemoryInv
<1>2. MemoryInv /\ [Next]_vars => MemoryInv' BY MemoryStep
<1>3. ASSUME MemoryInv, [Next]_vars, Undisturbed', row.ckpt.kind = "full"
      PROVE  row'.ckpt.kind = "full"
  <2>0. row \in Rows /\ OwnerInv /\ NoCounters
    BY <1>3, UpsetGrows DEF Undisturbed, MemoryInv, Memory, OwnerInv, TypeOK, Rows, Statuses, Owners
  <2>1. CASE PutRow BY <1>3, <2>0, <2>1, WrittenKeeps DEF Snapshot
  <2>2. CASE Begin \/ Resume \/ Reconcile \/ RenewPut
    BY <1>3, <2>0, <2>2 DEF Begin, Resume, Reclaimed, Reconcile, RenewPut, Rows
  <2>3. CASE UNCHANGED row BY <1>3, <2>3
  <2> QED BY <1>3, <2>1, <2>2, <2>3
    DEF Next, Step, Over, vars, ReadRow, Top, AnswerText, Retry, CallTools, Dispatch, Collect,
        Finish, Throw, Crash, RenewRead
<1>4. MemoryInv /\ [Next]_vars => [Undisturbed' /\ row.ckpt.kind = "full" => row'.ckpt.kind = "full"]_vars
  BY <1>3
<1> QED BY <1>1, <1>2, <1>4, PTL DEF Spec, SnapshotKept

-----------------------------------------------------------------------------
(* The end of a run, and the replies *)

LEMMA OverStep == MemoryInv /\ OverIsRecorded /\ [Next]_vars => OverIsRecorded'
<1> SUFFICES ASSUME MemoryInv, OverIsRecorded, [Next]_vars, Undisturbed', pc' = "over"
             PROVE  row'.status = run'
  BY DEF OverIsRecorded
<1>0. row \in Rows /\ OwnerInv /\ NoCounters /\ Undisturbed
  BY UpsetGrows DEF Undisturbed, MemoryInv, Memory, OwnerInv, TypeOK, Rows, Statuses, Owners
<1>1. CASE PutRow
  <2>1. job \in {"final", "interrupted"}
    BY <1>0, <1>1 DEF PutRow, After, OwnerInv, WritesKnown, Jobs
  <2>2. Written(row, job).status = run BY <1>0, <2>1 DEF Written, Rows
  <2> QED BY <1>0, <1>1, <2>2, WrittenKeeps DEF PutRow, loop
<1>2. CASE RenewRead \/ RenewPut
  <2>1. pc = "over" /\ row.status = run BY <1>0, <1>2 DEF RenewRead, RenewPut, OverIsRecorded
  <2>2. row'.status = row.status BY <1>0, <1>2 DEF RenewRead, RenewPut, Rows
  <2> QED BY <1>2, <2>1, <2>2 DEF RenewRead, RenewPut, loop
<1>3. CASE UNCHANGED vars BY <1>0, <1>3 DEF vars, loop, OverIsRecorded
<1> QED BY <1>1, <1>2, <1>3
  DEF Next, Step, Over, ReadRow, Begin, Resume, Top, StopWith, StartWrite, AnswerText, Retry,
      CallTools, Dispatch, Collect, Finish, Throw, Crash, Reconcile

\* The status a run ended with, in a process that lives, is the status in its row.
THEOREM EndIsRecorded == Spec => []OverIsRecorded
<1>1. Init => MemoryInv /\ OverIsRecorded BY InitMemoryInv DEF Init, OverIsRecorded
<1>2. MemoryInv /\ OverIsRecorded /\ [Next]_vars => MemoryInv' /\ OverIsRecorded'
  BY MemoryStep, OverStep
<1> QED BY <1>1, <1>2, PTL DEF Spec

\* As long as no call was denied: between batches no call is open; in one the open calls are the approved ones, and the
\* row has those that are open as pending.
Agreed == Undisturbed /\ "denial" \notin upset
Answered ==
  /\ pc \in {"top", "model"} \/ (pc = "writing" /\ job \in {"post-tool", "clear"})
     => open = {}
  /\ (pc = "writing" /\ job = "pre-tool") \/ pc = "tools" => open = approved
  /\ row.ckpt.open \subseteq row.ckpt.pending

AnsweredInv == Agreed => Answered

LEMMA AnsweredStep == MemoryInv /\ AnsweredInv /\ [Next]_vars => AnsweredInv'
<1> SUFFICES ASSUME MemoryInv, AnsweredInv, [Next]_vars, Agreed'
             PROVE  Answered'
  BY DEF AnsweredInv
<1>00. Agreed /\ Undisturbed /\ Undisturbed' /\ Answered
  BY UpsetGrows DEF Agreed, Undisturbed, AnsweredInv
<1>0. row \in Rows /\ OwnerInv /\ NoCounters /\ TypeOK /\ WritesKnown /\ Memory
  BY <1>00 DEF MemoryInv, Memory, OwnerInv, TypeOK, Rows, Statuses, Owners
<1> USE <1>00
<1>1. CASE ReadRow
  BY <1>1 DEF ReadRow, Answered, loop
<1>2. CASE PutRow
  <2>1. job \in Jobs /\ job # "periodic" /\ pc = "writing"
    BY <1>0, <1>2 DEF PutRow, WritesKnown, NoCounters
  <2>2. CASE job = "pre-tool"
    <3>1. pc' = "tools" /\ row'.ckpt = Snapshot(approved)
      BY <1>0, <1>2, <2>2, WrittenKeeps DEF PutRow, After
    <3> QED BY <1>2, <2>1, <2>2, <3>1 DEF PutRow, Snapshot, Answered, loop
  <2>3. CASE job \in {"post-tool", "clear"}
    <3>1. pc' \in {"top", "ending"} /\ row'.ckpt = Snapshot({})
      BY <1>0, <1>2, <2>3, WrittenKeeps DEF PutRow, After
    <3> QED BY <1>2, <2>1, <2>3, <3>1 DEF PutRow, Snapshot, Answered, loop
  <2>4. CASE job \in {"final", "interrupted"}
    <3>1. pc' = "over" /\ row'.ckpt = row.ckpt
      BY <1>0, <1>2, <2>4, WrittenKeeps DEF PutRow, After
    <3> QED BY <1>2, <2>1, <2>4, <3>1 DEF PutRow, Answered, loop
  <2> QED BY <2>1, <2>2, <2>3, <2>4 DEF Jobs
<1>3. CASE Top
  BY <1>3 DEF Top, StopWith, StartWrite, Answered
<1>4. CASE AnswerText \/ Retry \/ Dispatch \/ Finish \/ Throw
  BY <1>4 DEF AnswerText, Retry, Dispatch, Finish, Throw, StopWith, StartWrite, Answered
<1>5. CASE CallTools
  <2>1. PICK asked \in SUBSET Calls :
          /\ open' = open \cup ({turns + 1} \X asked)
          /\ approved' = {turns + 1} \X asked
    BY <1>5 DEF CallTools, Agreed
  <2>2. open' = approved' BY <1>5, <2>1 DEF CallTools, Answered
  <2> QED BY <1>5, <2>2 DEF CallTools, StartWrite, Answered
<1>6. CASE Collect
  <2>1. open = approved /\ approved \subseteq {c \in open : c[1] = turns}
    BY <1>0, <1>6 DEF Collect, Answered, Memory, ApprovedAreOpen
  <2>2. open' = {} BY <1>6, <2>1 DEF Collect
  <2> QED BY <1>6, <2>2 DEF Collect, StartWrite, Answered
<1>7. CASE Begin
  <2>1. row'.ckpt = row.ckpt BY <1>0, <1>7 DEF Begin, Rows
  <2>2. open = {} BY <1>0, <1>7 DEF Begin, Memory, Forgetful
  <2> QED BY <1>7, <2>1, <2>2 DEF Begin, Answered, loop
<1>8. CASE Resume
  <2>1. row'.ckpt = row.ckpt BY <1>0, <1>8 DEF Resume, Reclaimed, Rows
  <2>2. open' = {}
    <3>1. CASE row.ckpt.kind = "full"
      BY <1>8, <3>1 DEF Resume, Answered
    <3>2. CASE row.ckpt.kind # "full"
      BY <1>0, <1>8, <3>2 DEF Resume, Memory, Forgetful
    <3> QED BY <3>1, <3>2
  <2>3. pc' = "top" \/ (pc' = "writing" /\ job' = "clear")
    BY <1>8 DEF Resume, StartWrite
  <2> QED BY <2>1, <2>2, <2>3 DEF Answered
<1>9. CASE Crash BY <1>9 DEF Crash, Answered
<1>10. CASE Reconcile
  <2>1. row'.ckpt = row.ckpt BY <1>0, <1>10 DEF Reconcile, Rows
  <2> QED BY <1>10, <2>1 DEF Reconcile, Answered
<1>11. CASE RenewRead \/ RenewPut
  <2>1. row'.ckpt = row.ckpt BY <1>0, <1>11 DEF RenewRead, RenewPut, Rows
  <2> QED BY <1>11, <2>1 DEF RenewRead, RenewPut, Answered, loop
<1>12. CASE UNCHANGED vars BY <1>12 DEF vars, loop, Answered
<1> QED
  BY <1>1, <1>2, <1>3, <1>4, <1>5, <1>6, <1>7, <1>8, <1>9, <1>10, <1>11, <1>12
  DEF Next, Step, Over

\* As long as no call was denied, each tool call of the transcript has its reply before
\* the model is called, after any number of crashes.
THEOREM RepliesMatch == Spec => []TranscriptValid
<1>1. Init => MemoryInv /\ AnsweredInv
  BY InitMemoryInv DEF Init, AnsweredInv, Answered, NoCheckpoint
<1>2. MemoryInv /\ AnsweredInv /\ [Next]_vars => MemoryInv' /\ AnsweredInv'
  BY MemoryStep, AnsweredStep
<1>3. AnsweredInv => TranscriptValid BY DEF AnsweredInv, Agreed, Answered, TranscriptValid
<1> QED BY <1>1, <1>2, <1>3, PTL DEF Spec

-----------------------------------------------------------------------------
(* How many turns *)

\* The turns in which something was dispatched, by any process.
TurnsOf(calls) == {c[1] : c \in calls}
Worked == TurnsOf(ran)

\* Every such turn cost the run an iteration, which its snapshot remembers: the turn that
\* is under way has cost its own already.
TurnsCounted ==
  /\ pc = "top" \/ (pc = "writing" /\ job \in {"post-tool", "clear"})
       => Cardinality(Worked) <= iter
  /\ pc = "model" \/ (pc = "writing" /\ job = "pre-tool") => Cardinality(Worked) < iter
  /\ pc = "tools" =>
       /\ Cardinality(Worked \cup {turns}) <= iter
       /\ row.ckpt.kind = "full" /\ row.ckpt.iter = iter
  /\ row.ckpt.kind = "full" => Cardinality(Worked) <= row.ckpt.iter
TurnsInv == Undisturbed => TurnsCounted

LEMMA TurnsAreFinite ==
  ASSUME NEW R \in SUBSET Call, NEW t
  PROVE  /\ Cardinality(TurnsOf(R)) \in Nat /\ Cardinality(TurnsOf(R) \cup {t}) \in Nat
         /\ Cardinality(TurnsOf(R)) <= Cardinality(TurnsOf(R) \cup {t})
         /\ Cardinality(TurnsOf(R) \cup {t}) <= Cardinality(TurnsOf(R)) + 1
         /\ R = {} => Cardinality(TurnsOf(R)) = 0
<1> DEFINE S == TurnsOf(R)
<1>1. S \subseteq 1 .. MaxTurns BY DEF Call, TurnsOf
<1>2. IsFiniteSet(1 .. MaxTurns) BY AgentRunAssumption, FS_Interval
<1>3. R = {} => S = {} BY DEF TurnsOf
<1> HIDE DEF S
<1>4. IsFiniteSet(S) BY <1>1, <1>2, FS_Subset
<1>5. Cardinality(S \cup {t}) \in {Cardinality(S), Cardinality(S) + 1} BY <1>4, FS_AddElement
<1>6. Cardinality(S) \in Nat BY <1>4, FS_CardinalityType
<1>7. R = {} => Cardinality(S) = 0 BY <1>3, FS_EmptySet
<1>8. /\ Cardinality(S) \in Nat /\ Cardinality(S \cup {t}) \in Nat
      /\ Cardinality(S) <= Cardinality(S \cup {t})
      /\ Cardinality(S \cup {t}) <= Cardinality(S) + 1
      /\ R = {} => Cardinality(S) = 0
  BY <1>5, <1>6, <1>7
<1> QED BY <1>8 DEF S

LEMMA TurnsStep == MemoryInv /\ TurnsInv /\ [Next]_vars => TurnsInv'
<1> SUFFICES ASSUME OwnerInv, Undisturbed => Memory, TurnsInv, [Next]_vars, Undisturbed'
             PROVE  TurnsCounted'
  BY DEF MemoryInv, TurnsInv
<1>1. Memory /\ TurnsCounted BY UpsetGrows DEF Undisturbed, TurnsInv
<1>2. row \in Rows /\ TypeOK /\ WritesKnown /\ iter \in Nat
  BY DEF OwnerInv, TypeOK, Rows, Statuses, Owners
<1>3. /\ Cardinality(Worked) \in Nat /\ Cardinality(Worked \cup {turns}) \in Nat
      /\ Cardinality(Worked) <= Cardinality(Worked \cup {turns})
      /\ Cardinality(Worked \cup {turns}) <= Cardinality(Worked) + 1
      /\ ran = {} => Cardinality(Worked) = 0
  BY <1>2, TurnsAreFinite DEF TypeOK, Worked
<1>4. ASSUME ran' = ran PROVE Worked' = Worked BY <1>4 DEF Worked
<1> USE <1>1, <1>3 DEF TurnsCounted
<1>5. CASE ReadRow \/ UNCHANGED vars
  <2>1. UNCHANGED <<row, pc, job, iter, turns, ran>>
    BY <1>5 DEF ReadRow, vars, loop, history
  <2> QED BY <1>4, <2>1
<1>6. CASE PutRow
  <2>1. job \in Jobs \ {"periodic"} /\ pc = "writing" /\ UNCHANGED <<iter, turns, ran>>
    BY <1>2, <1>6 DEF PutRow, WritesKnown, Memory, NoCounters, loop
  <2>2. pc' = After(job)
        /\ row'.ckpt = IF job = "pre-tool" THEN Snapshot(approved)
                       ELSE IF job \in {"post-tool", "clear"} THEN Snapshot({}) ELSE row.ckpt
    BY <1>6, WrittenKeeps DEF PutRow, Memory
  <2>3. CASE job = "pre-tool"
    <3>1. pc' = "tools" /\ row'.ckpt.kind = "full" /\ row'.ckpt.iter = iter
      BY <2>2, <2>3 DEF After, Snapshot
    <3> QED BY <1>2, <1>4, <2>1, <2>3, <3>1
  <2>4. CASE job \in {"post-tool", "clear"}
    <3>1. pc' \in {"top", "ending"} /\ row'.ckpt.iter = iter
      BY <2>2, <2>4 DEF After, Snapshot
    <3> QED BY <1>2, <1>4, <2>1, <2>4, <3>1
  <2>5. CASE job \in {"final", "interrupted"}
    <3>1. pc' = "over" /\ row'.ckpt = row.ckpt BY <2>2, <2>5 DEF After
    <3> QED BY <1>4, <2>1, <3>1
  <2> QED BY <2>1, <2>3, <2>4, <2>5 DEF Jobs
<1>7. CASE Top
  <2>1. upset' # upset \cup {"periodic"} BY DEF Undisturbed
  <2>2. /\ pc = "top" /\ UNCHANGED <<row, turns, ran>>
        /\ (pc' = "model" /\ iter' = iter + 1) \/ pc' = "ending"
    BY <1>7, <2>1 DEF Top, StopWith
  <2> QED BY <1>2, <1>4, <2>2
<1>8. CASE AnswerText \/ Retry
  <2>1. pc = "model" /\ pc' \in {"top", "ending"} /\ UNCHANGED <<row, iter, turns, ran>>
    BY <1>8 DEF AnswerText, Retry, StopWith, history
  <2> QED BY <1>2, <1>4, <2>1
<1>9. CASE CallTools
  <2>1. /\ pc = "model" /\ pc' = "writing" /\ job' = "pre-tool" /\ UNCHANGED <<row, iter, ran>>
    BY <1>9 DEF CallTools, StartWrite
  <2> QED BY <1>4, <2>1
<1>10. CASE Dispatch
  <2>1. PICK c \in approved : ran' = ran \cup {c} BY <1>2, <1>10 DEF Dispatch, TypeOK
  <2>2. pc = "tools" /\ UNCHANGED <<row, pc, job, iter, turns>> BY <1>10 DEF Dispatch
  <2>3. c[1] = turns BY <2>1, <2>2 DEF Memory, ApprovedAreOpen
  <2>4. Worked' = Worked \cup {turns} BY <2>1, <2>3 DEF Worked, TurnsOf
  <2>5. (Worked \cup {turns})' = Worked \cup {turns} BY <2>2, <2>4
  <2> QED BY <2>2, <2>4, <2>5
<1>11. CASE Collect
  <2>1. /\ pc = "tools" /\ pc' = "writing" /\ job' = "post-tool"
        /\ UNCHANGED <<row, iter, turns, ran>>
    BY <1>11 DEF Collect, StartWrite, history
  <2> QED BY <1>2, <1>4, <2>1
<1>12. CASE Finish \/ Throw
  <2>1. /\ pc' = "writing" /\ job' \in {"final", "interrupted"}
        /\ UNCHANGED <<row, iter, turns, ran>>
    BY <1>12 DEF Finish, Throw, StartWrite, history
  <2> QED BY <1>4, <2>1
<1>13. CASE Begin \/ Reconcile \/ RenewRead \/ RenewPut
  <2>1. row'.ckpt = row.ckpt /\ UNCHANGED <<iter, turns, ran>>
    BY <1>2, <1>13 DEF Begin, Reconcile, RenewRead, RenewPut, Rows, loop, history
  <2>2. CASE Begin
    <3>1. row.ckpt.kind # "full" /\ pc' = "top" BY <2>2 DEF Begin, Memory, Recorded
    <3>2. ran = {} BY <3>1 DEF Memory, Recorded
    <3> QED BY <1>2, <1>4, <2>1, <3>1, <3>2
  <2>3. CASE Reconcile BY <1>4, <2>1, <2>3 DEF Reconcile
  <2>4. CASE RenewRead \/ RenewPut
    <3>1. UNCHANGED <<pc, job>> BY <2>4 DEF RenewRead, RenewPut
    <3> QED BY <1>4, <2>1, <3>1
  <2> QED BY <1>13, <2>2, <2>3, <2>4
<1>14. CASE Resume
  <2>1. row'.ckpt = row.ckpt /\ UNCHANGED <<turns, ran>>
    BY <1>2, <1>14 DEF Resume, Reclaimed, Rows, history
  <2>2. CASE row.ckpt.kind = "full"
    <3>1. iter' = row.ckpt.iter BY <1>14, <2>2 DEF Resume, RestoredIter
    <3>2. (pc' = "writing" /\ job' = "clear") \/ pc' = "top"
      BY <1>14, <2>2 DEF Resume, StartWrite
    <3> QED BY <1>4, <2>1, <2>2, <3>1, <3>2
  <2>3. CASE row.ckpt.kind # "full"
    <3>1. ran = {} BY <2>3 DEF Memory, Recorded
    <3>2. pc' = "top" /\ iter' = iter BY <1>14, <2>3 DEF Resume
    <3> QED BY <1>2, <1>4, <2>1, <2>3, <3>1, <3>2
  <2> QED BY <2>2, <2>3
<1>15. CASE Crash
  <2>1. pc' = "crashed" /\ UNCHANGED <<row, turns, ran>> BY <1>15 DEF Crash, history
  <2> QED BY <1>4, <2>1
<1> QED
  BY <1>5, <1>6, <1>7, <1>8, <1>9, <1>10, <1>11, <1>12, <1>13, <1>14, <1>15
  DEF Next, Step, Over

\* Over all its processes a run dispatches tools in at most as many turns as it may make steps:
\* a resume goes on counting where the snapshot stood.
THEOREM TurnsAreBounded == Spec => []StepsBounded
<1> DEFINE Small == Undisturbed => Cardinality(Worked) <= MaxSteps
<1>1. Init => TurnsInv /\ Small
  <2> SUFFICES ASSUME Init PROVE TurnsInv /\ Small OBVIOUS
  <2>1. Cardinality(Worked) = 0
    BY TurnsAreFinite DEF Init, Worked
  <2>2. TurnsInv BY DEF Init, TurnsInv, TurnsCounted, NoCheckpoint
  <2> QED BY <2>1, <2>2, AgentRunAssumption
<1>2. MemoryInv /\ TurnsInv /\ [Next]_vars => MemoryInv' /\ TurnsInv'
  BY MemoryStep, TurnsStep
<1>3. MemoryInv /\ MemoryInv' /\ TurnsInv /\ TurnsInv' /\ Small /\ [Next]_vars => Small'
  <2> SUFFICES ASSUME MemoryInv, MemoryInv', TurnsInv', Small, [Next]_vars, Undisturbed'
               PROVE  Cardinality(Worked)' <= MaxSteps
    OBVIOUS
  <2>1. Undisturbed BY UpsetGrows DEF Undisturbed
  <2>2. CASE Dispatch
    <3>1. pc' = "tools" BY <2>2 DEF Dispatch
    <3>2. Cardinality(Worked)' <= Cardinality(Worked \cup {turns})'
          /\ Cardinality(Worked)' \in Nat /\ Cardinality(Worked \cup {turns})' \in Nat
      <4>1. ran' \in SUBSET Call BY DEF MemoryInv, OwnerInv, TypeOK
      <4> QED BY <4>1, TurnsAreFinite DEF Worked
    <3>3. iter' \in 0 .. MaxSteps BY DEF MemoryInv, OwnerInv, TypeOK
    <3> QED BY <3>1, <3>2, <3>3, AgentRunAssumption DEF TurnsInv, TurnsCounted
  <2>3. CASE ran' = ran BY <2>1, <2>3 DEF Worked
  <2> QED BY <2>2, <2>3
    DEF Next, Step, Over, vars, history, ReadRow, PutRow, Begin, Resume, Top, AnswerText, Retry,
        CallTools, Collect, Finish, Throw, Crash, Reconcile, RenewRead, RenewPut
<1>4. Small => StepsBounded BY DEF StepsBounded, Worked, TurnsOf
<1> QED BY <1>1, <1>2, <1>3, <1>4, InitMemoryInv, PTL DEF Spec

\* Before the model is called, the transcript tells of all that was dispatched and answers
\* every call.
THEOREM TranscriptIsComplete == Spec => []TranscriptTells
<1>1. NoForgottenCall /\ TranscriptValid => TranscriptTells BY DEF TranscriptTells
<1> QED BY <1>1, NothingForgotten, RepliesMatch, PTL

\* The row belongs to the process that drives the run, and says how it ended.
THEOREM RowIsFaithful == Spec => []RowFollowsRun
<1>1. TypeOK /\ OwnedWhileRunning /\ OverIsRecorded => RowFollowsRun BY DEF RowFollowsRun
<1> QED BY <1>1, TypeCorrect, RowIsOwned, EndIsRecorded, PTL

\* Neither an end nor a snapshot is taken back by a later write.
THEOREM RowNeverGoesBack == Spec => RowMovesForward
<1>1. NeverRevived /\ SnapshotKept => RowMovesForward BY DEF RowMovesForward
<1> QED BY <1>1, EndIsKept, SnapshotsStay
=============================================================================
