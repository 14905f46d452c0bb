---------------------------- MODULE CronJobsProofs ----------------------------
(* That the stored row of a job behaves as CronRecord promises, that a paused job stays
   paused, that the runs of the job are counted, and that its timer agrees with it, for any
   runs, operations, limits and any number of events.

   The put that checks the version makes a read and the write that follows it one step, if
   no other version is the one that was read (ReadsAreOld). That a run never counts ahead of
   the runs there were needs more: while it waits to count, it is one of those that were
   started and are not counted (Behind). The numbers of the history are tied to the runs that
   are between two places (Follows, Counted, Limited), and the timer to the operations that
   stopped it and have not told the row (ArmedIsActive, ActiveIsArmed). *)
EXTENDS CronJobs, FiniteSetTheorems, TLAPS

Agents == Runs \cup Ops
RunPlaces == {"idle", "loading", "storing", "count", "calling", "fail", "closing", "ending",
              "finish", "renew", "expire"}
OpPlaces == {"idle", "pause", "resume", "update", "delete"}

\* Runs that were started and have not been counted.
Early == {"loading", "storing", "count"}
Uncounted == {a \in Runs : At(a) \in Early}

Types ==
  /\ row \in Rows /\ started \in Nat /\ begun \in Nat
  /\ pc \in [Agents -> [at : Places, read : Rows, seen : Nat]]
  /\ \A a \in Runs : At(a) \in RunPlaces
  /\ \A a \in Ops : At(a) \in OpPlaces

\* There is a row after the one creation, until it is deleted.
RowIsThere ==
  /\ row.ver = 0 => row = NoRow
  /\ row # NoRow => row.status # "none" /\ begun > 0

\* Nobody has read a version that is still to come, nor another row of the present version.
ReadsAreOld ==
  \A a \in Agents :
    LET read == pc[a].read IN
    read # NoRow =>
      /\ read.ver > 0 /\ begun > 0
      /\ row # NoRow => read.ver <= row.ver /\ (read.ver = row.ver => read = row)

Behind ==
  /\ row.count + Cardinality(Uncounted) <= started
  /\ \A a \in Uncounted : pc[a].seen + Cardinality(Uncounted) <= started

RecordInv == Types /\ RowIsThere /\ ReadsAreOld /\ Behind

-----------------------------------------------------------------------------
(* The runs that are not counted *)

LEMMA UncountedFinite ==
  /\ IsFiniteSet(Uncounted) /\ Cardinality(Uncounted) \in Nat
  /\ IsFiniteSet(Uncounted') /\ Cardinality(Uncounted') \in Nat
<1>1. Uncounted \subseteq Runs /\ Uncounted' \subseteq Runs BY DEF Uncounted
<1> QED BY <1>1, CronJobsAssumption, FS_Subset, FS_CardinalityType

\* One agent moves: the others stay where they are.
LEMMA OneMoves ==
  ASSUME Types, NEW a \in Agents, NEW p \in [at : Places, read : Rows, seen : Nat],
         pc' = [pc EXCEPT ![a] = p]
  PROVE  /\ pc' \in [Agents -> [at : Places, read : Rows, seen : Nat]]
         /\ pc'[a] = p
         /\ \A b \in Agents \ {a} : pc'[b] = pc[b]
         /\ a \in Runs /\ p.at \in Early => Uncounted' = Uncounted \cup {a}
         /\ ~(a \in Runs /\ p.at \in Early) => Uncounted' = Uncounted \ {a}
BY DEF Types, Uncounted, At, Agents

\* Where no run is started or counted, and who waits to count has seen what it had, or the
\* row as it is.
LEMMA StaysBehind ==
  ASSUME Types, Behind, Uncounted' \subseteq Uncounted, started' = started,
         row'.count \in {0, row.count},
         \A b \in Uncounted' : pc'[b].seen \in {pc[b].seen, row.count}
  PROVE  Behind'
<1>1. Cardinality(Uncounted') <= Cardinality(Uncounted)
  BY UncountedFinite, FS_Subset
<1>2. /\ row.count \in Nat /\ started \in Nat
      /\ \A b \in Uncounted : pc[b].seen \in Nat
  BY DEF Types, Rows, Uncounted, Agents
<1>3. row'.count + Cardinality(Uncounted') <= started'
  BY <1>1, <1>2, UncountedFinite DEF Behind
<1>4. ASSUME NEW b \in Uncounted'
      PROVE  pc'[b].seen + Cardinality(Uncounted') <= started'
  <2>1. pc[b].seen + Cardinality(Uncounted) <= started BY DEF Behind
  <2>2. row.count + Cardinality(Uncounted) <= started BY DEF Behind
  <2>3. pc[b].seen \in Nat BY <1>2
  <2>4. pc'[b].seen = pc[b].seen \/ pc'[b].seen = row.count OBVIOUS
  <2> QED BY <1>1, <1>2, <2>1, <2>2, <2>3, <2>4, UncountedFinite
<1> QED BY <1>3, <1>4 DEF Behind

\* A run starts.
LEMMA StartsBehind ==
  ASSUME Types, Behind, NEW a \in Runs, a \notin Uncounted, Uncounted' = Uncounted \cup {a},
         started' = started + 1, row' = row,
         pc'[a].seen \in 0 .. row.count,
         \A b \in Uncounted : pc'[b].seen = pc[b].seen
  PROVE  Behind'
<1>1. Cardinality(Uncounted') = Cardinality(Uncounted) + 1
  BY UncountedFinite, FS_AddElement
<1>2. /\ row.count \in Nat /\ started \in Nat
      /\ \A b \in Uncounted : pc[b].seen \in Nat
  BY DEF Types, Rows, Uncounted, Agents
<1>3. row'.count + Cardinality(Uncounted') <= started'
  BY <1>1, <1>2, UncountedFinite DEF Behind
<1>4. pc'[a].seen + Cardinality(Uncounted') <= started'
  BY <1>1, <1>2, UncountedFinite DEF Behind
<1>5. ASSUME NEW b \in Uncounted
      PROVE  pc'[b].seen + Cardinality(Uncounted') <= started'
  BY <1>1, <1>2, UncountedFinite DEF Behind
<1> QED BY <1>3, <1>4, <1>5 DEF Behind

\* A run is counted.
LEMMA CountedBehind ==
  ASSUME Types, Behind, NEW a \in Uncounted, Uncounted' = Uncounted \ {a},
         started' = started, row'.count = pc[a].seen + 1,
         \A b \in Uncounted' : pc'[b].seen = pc[b].seen
  PROVE  Behind' /\ row'.count \in 1 .. started
<1>1. Cardinality(Uncounted') = Cardinality(Uncounted) - 1
  BY UncountedFinite, FS_RemoveElement
<1>2. /\ started \in Nat
      /\ \A b \in Uncounted : pc[b].seen \in Nat
  BY DEF Types, Rows, Uncounted, Agents
<1>3. pc[a].seen + Cardinality(Uncounted) <= started BY DEF Behind
<1>4. row'.count + Cardinality(Uncounted') <= started'
  BY <1>1, <1>2, <1>3, UncountedFinite
<1>5. ASSUME NEW b \in Uncounted'
      PROVE  pc'[b].seen + Cardinality(Uncounted') <= started'
  BY <1>1, <1>2, UncountedFinite DEF Behind
<1>6. row'.count \in 1 .. started
  <2>1. Cardinality(Uncounted) >= 1 BY <1>1, UncountedFinite
  <2>2. pc[a].seen \in Nat BY <1>2
  <2> QED BY <1>2, <1>3, <2>1, <2>2, UncountedFinite
<1>7. Behind' BY <1>4, <1>5 DEF Behind
<1> QED BY <1>6, <1>7

-----------------------------------------------------------------------------
(* The invariant *)

LEMMA InitRecordInv == Init => RecordInv
<1> SUFFICES ASSUME Init PROVE RecordInv OBVIOUS
<1>1. Types /\ RowIsThere /\ ReadsAreOld
  BY CronJobsAssumption
     DEF Init, Types, RowIsThere, ReadsAreOld, Agents, Rows, Statuses, NoRow, Rest, Place,
         Places, At, RunPlaces, OpPlaces
<1>2. Uncounted = {} BY DEF Init, Uncounted, Rest, Place, At, Early
<1>3. Behind BY <1>2, FS_EmptySet DEF Behind, Init, NoRow
<1> QED BY <1>1, <1>3 DEF RecordInv

\* An agent moves, and reads nothing: the row, and what was read of it, are as they were.
LEMMA MovesOn ==
  ASSUME RecordInv, NEW a \in Agents, NEW place \in RunPlaces \cup OpPlaces, NEW seen \in Nat,
         pc' = [pc EXCEPT ![a] = Place(place, seen)],
         a \in Runs => place \in RunPlaces, a \in Ops => place \in OpPlaces,
         row' = row, started' = started, begun' \in {begun, begun + 1},
         place \in Early => a \in Uncounted /\ seen \in {pc[a].seen, row.count}
  PROVE  RecordInv'
<1> DEFINE p == Place(place, seen)
<1>1. p \in [at : Places, read : Rows, seen : Nat] /\ p.at = place /\ p.read = NoRow
  BY DEF Place, Places, Patches, RunPlaces, OpPlaces, Agents, Rows, NoRow, Statuses
<1>2. Types BY DEF RecordInv
<1> HIDE DEF p
<1>3. /\ pc' \in [Agents -> [at : Places, read : Rows, seen : Nat]]
      /\ pc'[a] = p
      /\ \A b \in Agents \ {a} : pc'[b] = pc[b]
      /\ a \in Runs /\ p.at \in Early => Uncounted' = Uncounted \cup {a}
      /\ ~(a \in Runs /\ p.at \in Early) => Uncounted' = Uncounted \ {a}
  BY <1>1, <1>2, OneMoves DEF p
<1>4. Types'
  BY <1>1, <1>2, <1>3 DEF Types, At
<1>5. RowIsThere' BY DEF RecordInv, RowIsThere, Types
<1>6. ReadsAreOld' BY <1>1, <1>2, <1>3 DEF RecordInv, ReadsAreOld, Types
<1>7. Behind'
  <2>1. Uncounted' \subseteq Uncounted BY <1>1, <1>3
  <2>2. \A b \in Uncounted' : pc'[b].seen \in {pc[b].seen, row.count}
    BY <1>1, <1>3, <2>1 DEF p, Place, Uncounted, Agents
  <2> QED BY <1>2, <2>1, <2>2, StaysBehind DEF RecordInv
<1> QED BY <1>4, <1>5, <1>6, <1>7 DEF RecordInv

LEMMA StartRecordInv ==
  ASSUME RecordInv, NEW a \in Runs, Fire(a) \/ Trigger(a)
  PROVE  RecordInv'
<1>1. PICK place \in {"loading", "storing"}, seen \in 0 .. row.count :
        /\ At(a) = "idle" /\ started' = started + 1
        /\ pc' = [pc EXCEPT ![a] = Place(place, seen)]
        /\ UNCHANGED <<row, begun>>
  <2>1. 0 \in 0 .. row.count /\ row.count \in 0 .. row.count
    BY DEF RecordInv, Types, Rows
  <2> QED BY <2>1 DEF Fire, Trigger, StartRun
<1> DEFINE p == Place(place, seen)
<1>2. /\ p \in [at : Places, read : Rows, seen : Nat]
      /\ p.at = place /\ p.read = NoRow /\ p.seen = seen
  BY DEF Place, Places, Rows, NoRow, Statuses
<1>3. Types BY DEF RecordInv
<1>4. a \in Agents /\ a \notin Ops BY CronJobsAssumption DEF Agents
<1> HIDE DEF p
<1>5. /\ pc' \in [Agents -> [at : Places, read : Rows, seen : Nat]]
      /\ pc'[a] = p
      /\ \A b \in Agents \ {a} : pc'[b] = pc[b]
      /\ Uncounted' = Uncounted \cup {a}
  BY <1>1, <1>2, <1>3, <1>4, OneMoves DEF p, Early
<1>6. Types' BY <1>1, <1>2, <1>3, <1>4, <1>5 DEF Types, At, RunPlaces
<1>7. RowIsThere' BY <1>1 DEF RecordInv, RowIsThere
<1>8. ReadsAreOld' BY <1>1, <1>2, <1>5 DEF RecordInv, ReadsAreOld
<1>9. Behind'
  <2>1. a \notin Uncounted BY <1>1 DEF Uncounted, Early
  <2>2. \A b \in Uncounted : pc'[b].seen = pc[b].seen
    BY <1>5, <2>1 DEF Uncounted, Agents
  <2> QED BY <1>1, <1>2, <1>3, <1>5, <2>1, <2>2, StartsBehind DEF RecordInv
<1> QED BY <1>6, <1>7, <1>8, <1>9 DEF RecordInv

LEMMA RunStepRecordInv ==
  ASSUME RecordInv, NEW a \in Runs, RunStep(a)
  PROVE  RecordInv'
<1>1. a \in Agents /\ a \notin Ops /\ pc[a].seen \in Nat /\ row.count \in Nat /\ begun \in Nat
  BY CronJobsAssumption DEF Agents, RecordInv, Types, Rows
<1>2. CASE Load(a)
  <2>1. a \in Uncounted BY <1>2 DEF Load, Uncounted, Early
  <2>2. PICK place \in {"idle", "expire", "storing"}, seen \in {pc[a].seen, row.count} :
          pc' = [pc EXCEPT ![a] = Place(place, seen)]
    BY <1>2 DEF Load, Goto
  <2>3. row' = row /\ started' = started /\ begun' = begun BY <1>2 DEF Load
  <2> QED BY <1>1, <2>1, <2>2, <2>3, MovesOn DEF RunPlaces, Early
<1>3. CASE StoreRun(a)
  <2>1. a \in Uncounted BY <1>3 DEF StoreRun, Uncounted, Early
  <2>2. /\ pc' = [pc EXCEPT ![a] = Place("count", pc[a].seen)]
        /\ row' = row /\ started' = started /\ begun' = begun
    BY <1>3 DEF StoreRun, Goto
  <2> QED BY <1>1, <2>1, <2>2, MovesOn DEF RunPlaces, Early
<1>4. CASE Call(a) \/ CloseRun(a) \/ Decide(a)
  <2>1. PICK place \in {"closing", "fail", "ending", "idle", "finish", "renew"} :
          pc' = [pc EXCEPT ![a] = Place(place, pc[a].seen)]
    BY <1>4 DEF Call, CloseRun, Decide, Goto, AgentFails
  <2>2. row' = row /\ started' = started /\ begun' = begun BY <1>4 DEF Call, CloseRun, Decide
  <2> QED BY <1>1, <2>1, <2>2, MovesOn DEF RunPlaces, Early
<1> QED BY <1>2, <1>3, <1>4 DEF RunStep

LEMMA OperationRecordInv ==
  ASSUME RecordInv, NEW a \in Ops, Pause(a) \/ Resume(a) \/ Delete(a)
  PROVE  RecordInv'
<1>1. a \in Agents /\ a \notin Runs /\ pc[a].seen \in Nat /\ begun \in Nat
  BY CronJobsAssumption DEF Agents, RecordInv, Types
<1>2. PICK place \in {"pause", "resume", "delete"} :
        pc' = [pc EXCEPT ![a] = Place(place, pc[a].seen)]
  BY DEF Pause, Resume, Delete, Goto
<1>3. row' = row /\ started' = started /\ begun' = begun + 1
  BY DEF Pause, Resume, Delete, Begin
<1> QED BY <1>1, <1>2, <1>3, MovesOn DEF OpPlaces, Early

\* An agent has read the row.
LEMMA ReadRecordInv ==
  ASSUME RecordInv, NEW a \in Agents, NEW p \in [at : Places, read : Rows, seen : Nat],
         pc' = [pc EXCEPT ![a] = p], p.read = row, row # NoRow,
         (p.at = pc[a].at /\ p.seen = pc[a].seen) \/ (a \in Ops /\ p.at = "update"),
         row' = row, started' = started, begun' \in {begun, begun + 1}
  PROVE  RecordInv'
<1>1. Types BY DEF RecordInv
<1>2. a \in Ops => a \notin Runs BY CronJobsAssumption
<1>3. /\ pc' \in [Agents -> [at : Places, read : Rows, seen : Nat]]
      /\ pc'[a] = p
      /\ \A b \in Agents \ {a} : pc'[b] = pc[b]
      /\ a \in Runs /\ p.at \in Early => Uncounted' = Uncounted \cup {a}
      /\ ~(a \in Runs /\ p.at \in Early) => Uncounted' = Uncounted \ {a}
  BY <1>1, OneMoves
<1>4. Types' BY <1>1, <1>2, <1>3 DEF Types, At, OpPlaces
<1>5. RowIsThere' BY <1>1 DEF RecordInv, RowIsThere, Types
<1>6. ReadsAreOld'
  <2>1. row.ver \in Nat /\ row.ver > 0 /\ begun \in Nat /\ begun > 0
    BY <1>1 DEF RecordInv, RowIsThere, Types, Rows
  <2> QED BY <1>1, <1>3, <2>1 DEF RecordInv, ReadsAreOld, Types
<1>7. Behind'
  <2>1. Uncounted' \subseteq Uncounted BY <1>2, <1>3 DEF Uncounted, At, Early
  <2>2. \A b \in Uncounted' : pc'[b].seen \in {pc[b].seen, row.count}
    BY <1>2, <1>3, <2>1 DEF Uncounted, Agents
  <2> QED BY <1>1, <2>1, <2>2, StaysBehind DEF RecordInv
<1> QED BY <1>4, <1>5, <1>6, <1>7 DEF RecordInv

LEMMA ReadsRecordInv ==
  ASSUME RecordInv, NEW a \in Agents, Reads(a)
  PROVE  RecordInv'
<1>1. /\ At(a) \in Patches /\ row' = row /\ started' = started /\ begun' = begun
      /\ pc[a] \in [at : Places, read : Rows, seen : Nat] /\ row \in Rows
      /\ pc \in [Agents -> [at : Places, read : Rows, seen : Nat]]
      /\ a \in Runs => At(a) \in RunPlaces
      /\ a \in Ops => At(a) \in OpPlaces
  BY DEF Reads, RecordInv, Types
<1>2. CASE row = NoRow
  <2>1. PICK place : place = Then(At(a)) OBVIOUS
  <2>2. pc' = [pc EXCEPT ![a] = Place(place, pc[a].seen)]
    BY <1>2, <2>1 DEF Reads, Goto
  <2>3. /\ place \in {"calling", "closing", "idle"}
        /\ a \in Ops => place = "idle"
    BY <1>1, <2>1 DEF Then, OpPlaces
  <2>4. /\ place \in RunPlaces \cup OpPlaces /\ place \notin Early
        /\ a \in Runs => place \in RunPlaces
        /\ a \in Ops => place \in OpPlaces
    BY <2>3 DEF RunPlaces, OpPlaces, Early
  <2>5. pc[a].seen \in Nat BY <1>1
  <2> QED BY <1>1, <2>2, <2>4, <2>5, MovesOn
<1>3. CASE row # NoRow
  <2> DEFINE p == [pc[a] EXCEPT !.read = row]
  <2>1. pc' = [pc EXCEPT ![a] = p] BY <1>1, <1>3 DEF Reads
  <2>2. /\ p \in [at : Places, read : Rows, seen : Nat]
        /\ p.read = row /\ p.at = pc[a].at /\ p.seen = pc[a].seen
    BY <1>1
  <2> HIDE DEF p
  <2>3. row' = row /\ started' = started /\ begun' \in {begun, begun + 1} BY <1>1
  <2> QED BY <1>3, <2>1, <2>2, <2>3, ReadRecordInv
<1> QED BY <1>2, <1>3

LEMMA UpdateRecordInv ==
  ASSUME RecordInv, NEW a \in Ops, Update(a)
  PROVE  RecordInv'
<1> DEFINE p == [at |-> "update", read |-> row, seen |-> 0]
<1>1. p \in [at : Places, read : Rows, seen : Nat] /\ p.read = row /\ p.at = "update"
  BY DEF RecordInv, Types, Places, Patches
<1>2. /\ pc' = [pc EXCEPT ![a] = p] /\ row # NoRow
      /\ row' = row /\ started' = started /\ begun' = begun + 1
  BY DEF Update, Begin
<1> HIDE DEF p
<1> QED BY <1>1, <1>2, ReadRecordInv DEF Agents

LEMMA RefusedRecordInv ==
  ASSUME RecordInv, NEW a \in Agents, Refused(a)
  PROVE  RecordInv'
<1>1. /\ pc' = [pc EXCEPT ![a] = Place("idle", 0)]
      /\ row' = row /\ started' = started /\ begun' = begun
  BY DEF Refused, Rest
<1> QED BY <1>1, MovesOn DEF RunPlaces, OpPlaces, Early

LEMMA DeletesRecordInv ==
  ASSUME RecordInv, NEW a \in Ops, Deletes(a)
  PROVE  RecordInv'
<1> DEFINE p == Place("idle", pc[a].seen)
<1>1. Types /\ a \in Agents /\ a \notin Runs BY CronJobsAssumption DEF RecordInv, Agents
<1>2. /\ p \in [at : Places, read : Rows, seen : Nat] /\ p.read = NoRow /\ p.at = "idle"
      /\ NoRow \in Rows
  BY <1>1 DEF Types, Place, Places, Rows, NoRow, Statuses
<1>3. pc' = [pc EXCEPT ![a] = p] /\ row' = NoRow /\ started' = started /\ begun' = begun
  BY DEF Deletes, Goto
<1> HIDE DEF p
<1>4. /\ pc' \in [Agents -> [at : Places, read : Rows, seen : Nat]]
      /\ pc'[a] = p
      /\ \A b \in Agents \ {a} : pc'[b] = pc[b]
      /\ Uncounted' = Uncounted \ {a}
  BY <1>1, <1>2, <1>3, OneMoves
<1>5. Types' BY <1>1, <1>2, <1>3, <1>4 DEF Types, At, OpPlaces
<1>6. RowIsThere' BY <1>3 DEF RowIsThere
<1>7. ReadsAreOld' BY <1>2, <1>3, <1>4 DEF RecordInv, ReadsAreOld
<1>8. Behind'
  <2>1. \A b \in Uncounted' : pc'[b].seen \in {pc[b].seen, row.count}
    BY <1>1, <1>4 DEF Uncounted, Agents
  <2> QED BY <1>1, <1>3, <1>4, <2>1, StaysBehind DEF RecordInv, NoRow
<1> QED BY <1>5, <1>6, <1>7, <1>8 DEF RecordInv

-----------------------------------------------------------------------------
(* The write that follows a read *)

\* Whose version is the present one has read the present row.
LEMMA WriteIsAtomic ==
  ASSUME RecordInv, NEW a \in Agents, Writes(a)
  PROVE  pc[a].read = row /\ row # NoRow /\ At(a) \in Patches
BY DEF RecordInv, ReadsAreOld, Writes, Accepted, NoRow

\* What a write makes of the row.
LEMMA WhatIsWritten ==
  ASSUME RecordInv, NEW a \in Agents, Writes(a)
  PROVE  /\ row' \in Rows /\ row'.ver = row.ver + 1
         /\ row'.count = IF At(a) = "count" THEN pc[a].seen + 1 ELSE row.count
         /\ row'.status = CASE At(a) \in {"finish", "expire"} -> "completed"
                             [] At(a) = "pause" -> "paused"
                             [] At(a) = "resume" -> "active"
                             [] OTHER -> row.status
<1>1. pc[a].read = row /\ row \in Rows /\ pc[a].seen \in Nat
  BY WriteIsAtomic DEF RecordInv, Types
<1>2. row' = [Patch(a) EXCEPT !.ver = row.ver + 1] BY DEF Writes
<1> QED BY <1>1, <1>2 DEF Patch, Rows, Statuses

LEMMA WritesRecordInv ==
  ASSUME RecordInv, NEW a \in Agents, Writes(a)
  PROVE  RecordInv' /\ (At(a) = "count" => row'.count \in 1 .. started)
<1> DEFINE p == Place(Then(At(a)), pc[a].seen)
<1>1. /\ Types /\ At(a) \in Patches /\ pc[a].read = row /\ row # NoRow
      /\ a \in Ops => At(a) \in OpPlaces /\ a \notin Runs
  BY WriteIsAtomic, CronJobsAssumption DEF RecordInv, Types
<1>2. pc' = [pc EXCEPT ![a] = p] /\ started' = started /\ begun' = begun
  BY DEF Writes, Goto
<1>3. /\ p \in [at : Places, read : Rows, seen : Nat] /\ p.read = NoRow
      /\ p.at \in {"calling", "closing", "idle"} /\ (a \in Ops => p.at = "idle")
  BY <1>1 DEF Place, Then, Places, Rows, NoRow, Statuses, Types, OpPlaces
<1> HIDE DEF p
<1>4. /\ pc' \in [Agents -> [at : Places, read : Rows, seen : Nat]]
      /\ pc'[a] = p
      /\ \A b \in Agents \ {a} : pc'[b] = pc[b]
      /\ Uncounted' = Uncounted \ {a}
  BY <1>1, <1>2, <1>3, OneMoves DEF Early
<1>5. Types'
  BY <1>1, <1>2, <1>3, <1>4, WhatIsWritten DEF Types, At, RunPlaces, OpPlaces
<1>6. RowIsThere'
  BY <1>1, <1>2, WhatIsWritten DEF RecordInv, RowIsThere, NoRow, Types, Rows
<1>7. ReadsAreOld'
  BY <1>1, <1>2, <1>3, <1>4, WhatIsWritten DEF RecordInv, ReadsAreOld, Types, Rows
<1>8. \A b \in Uncounted' : pc'[b].seen = pc[b].seen
  BY <1>4 DEF Uncounted, Agents
<1>9. CASE At(a) = "count"
  <2>1. a \in Uncounted BY <1>1, <1>9 DEF Uncounted, Early, Agents, OpPlaces
  <2>2. Behind' /\ row'.count \in 1 .. started
    BY <1>1, <1>2, <1>4, <1>8, <1>9, <2>1, WhatIsWritten, CountedBehind DEF RecordInv
  <2> QED BY <1>5, <1>6, <1>7, <2>2 DEF RecordInv
<1>10. CASE At(a) # "count"
  <2>1. row'.count = row.count BY <1>10, WhatIsWritten
  <2>2. Behind' BY <1>1, <1>2, <1>4, <1>8, <2>1, StaysBehind DEF RecordInv
  <2> QED BY <1>5, <1>6, <1>7, <1>10, <2>2 DEF RecordInv
<1> QED BY <1>9, <1>10

-----------------------------------------------------------------------------
(* Every step *)

LEMMA ProcessRecordInv ==
  ASSUME RecordInv, Create \/ Crash \/ Startup
  PROVE  RecordInv'
<1>1. Types /\ RowIsThere /\ ReadsAreOld /\ Behind BY DEF RecordInv
<1>2. CASE Create
  <2>1. /\ row = NoRow /\ begun = 0 /\ begun' = 1 /\ pc' = pc /\ started' = started
        /\ row' = [ver |-> 1, status |-> "active", count |-> 0]
    BY <1>2 DEF Create
  <2>2. Types' BY <1>1, <2>1 DEF Types, At, Rows, Statuses
  <2>3. RowIsThere' BY <2>1 DEF RowIsThere, NoRow
  <2>4. \A a \in Agents : pc[a].read = NoRow BY <1>1, <2>1 DEF ReadsAreOld
  <2>5. ReadsAreOld' BY <2>1, <2>4 DEF ReadsAreOld
  <2>6. Uncounted' = Uncounted BY <2>1 DEF Uncounted, At
  <2>7. Behind' BY <1>1, <2>1, <2>6, StaysBehind DEF Uncounted, Agents
  <2> QED BY <2>2, <2>3, <2>5, <2>7 DEF RecordInv
<1>3. CASE Crash
  <2>1. /\ row' = row /\ begun' = begun /\ started' = started
        /\ pc' = [a \in Agents |-> Rest]
    BY <1>3 DEF Crash, Agents
  <2>2. Types'
    BY <1>1, <2>1
       DEF Types, At, Agents, Rest, Place, Places, Rows, NoRow, Statuses, RunPlaces, OpPlaces
  <2>3. RowIsThere' BY <1>1, <2>1 DEF RowIsThere
  <2>4. ReadsAreOld' BY <2>1 DEF ReadsAreOld, Rest, Place
  <2>5. Uncounted' = {} BY <2>1 DEF Uncounted, At, Agents, Rest, Place, Early
  <2>6. Behind' BY <1>1, <2>1, <2>5, StaysBehind
  <2> QED BY <2>2, <2>3, <2>4, <2>6 DEF RecordInv
<1>4. CASE Startup
  <2>1. row' = row /\ begun' = begun /\ started' = started /\ pc' = pc
    BY <1>4 DEF Startup
  <2> QED BY <1>1, <2>1 DEF RecordInv, Types, RowIsThere, ReadsAreOld, Behind, Uncounted, At
<1> QED BY <1>2, <1>3, <1>4

LEMMA NextRecordInv == RecordInv /\ [Next]_vars => RecordInv'
<1> SUFFICES ASSUME RecordInv, [Next]_vars PROVE RecordInv' OBVIOUS
<1>1. CASE UNCHANGED vars
  BY <1>1 DEF vars, RecordInv, Types, RowIsThere, ReadsAreOld, Behind, Uncounted, At
<1>2. CASE Create \/ Crash \/ Startup BY <1>2, ProcessRecordInv
<1>3. ASSUME NEW a \in Runs, Fire(a) \/ Trigger(a) PROVE RecordInv'
  BY <1>3, StartRecordInv
<1>4. ASSUME NEW a \in Runs, RunStep(a) PROVE RecordInv' BY <1>4, RunStepRecordInv
<1>5. ASSUME NEW a \in Ops, Pause(a) \/ Resume(a) \/ Delete(a) PROVE RecordInv'
  BY <1>5, OperationRecordInv
<1>6. ASSUME NEW a \in Ops, Update(a) \/ Deletes(a) PROVE RecordInv'
  BY <1>6, UpdateRecordInv, DeletesRecordInv
<1>7. ASSUME NEW a \in Agents, Write(a) PROVE RecordInv'
  BY <1>7, ReadsRecordInv, WritesRecordInv, RefusedRecordInv DEF Write
<1> QED BY <1>1, <1>2, <1>3, <1>4, <1>5, <1>6, <1>7 DEF Next, Agents

\* The row, what was read of it and the runs that are not counted agree, in every state.
THEOREM RowInvariant == Spec => []RecordInv
<1> QED BY InitRecordInv, NextRecordInv, PTL DEF Spec

-----------------------------------------------------------------------------
(* What is promised *)

\* The steps that do not write the row.
LEMMA OnlyWritesWrite ==
  ASSUME Types, Next, ~Create, \A a \in Ops : ~Deletes(a), \A a \in Agents : ~Writes(a)
  PROVE  row' = row /\ started' \in {started, started + 1}
<1>1. CASE Crash \/ Startup BY <1>1 DEF Crash, Startup
<1>2. CASE \E a \in Runs : Fire(a) \/ Trigger(a) BY <1>2 DEF Fire, Trigger, StartRun
<1>3. CASE \E a \in Runs : RunStep(a)
  BY <1>3 DEF RunStep, Load, StoreRun, Call, CloseRun, Decide
<1>4. CASE \E a \in Ops : Pause(a) \/ Resume(a) \/ Update(a) \/ Delete(a)
  BY <1>4 DEF Pause, Resume, Update, Delete
<1>5. CASE \E a \in Agents : Reads(a) \/ Refused(a) BY <1>5 DEF Reads, Refused
<1> QED BY <1>1, <1>2, <1>3, <1>4, <1>5 DEF Next, Write, Agents

\* A job that a person paused is made active by a resumption only.
THEOREM PausedJobsStay == Spec => PausedStays
<1>1. RecordInv /\ [Next]_vars =>
        [row.status = "paused" /\ row'.status = "active" =>
           \E a \in Ops : At(a) = "resume" /\ pc'[a] # pc[a]]_vars
  <2> SUFFICES ASSUME RecordInv, Next, row.status = "paused", row'.status = "active"
               PROVE  \E a \in Ops : At(a) = "resume" /\ pc'[a] # pc[a]
    OBVIOUS
  <2>1. Types BY DEF RecordInv
  <2>2. ~Create BY DEF Create, NoRow
  <2>3. \A a \in Ops : ~Deletes(a) BY DEF Deletes, NoRow
  <2>4. PICK a \in Agents : Writes(a)
    BY <2>1, <2>2, <2>3, OnlyWritesWrite
  <2>5. At(a) = "resume" BY <2>4, WhatIsWritten
  <2>6. a \in Ops BY <2>1, <2>5 DEF Types, RunPlaces, Agents
  <2>7. pc'[a].at = "idle" BY <2>1, <2>4, <2>5, <2>6 DEF Writes, Goto, Then, Place, Types, Agents
  <2>8. pc'[a] # pc[a] BY <2>5, <2>7 DEF At
  <2> QED BY <2>5, <2>6, <2>8
<1> QED BY <1>1, RowInvariant, PTL DEF Spec, PausedStays

\* Every write of the row is one step of the abstract row.
LEMMA WritesAreRecordSteps ==
  ASSUME RecordInv, NEW a \in Agents, Writes(a)
  PROVE  [Record!Next]_<<[status |-> row.status, count |-> row.count], started>>
<1>1. /\ row \in Rows /\ row.status # "none" /\ started' = started
  BY WriteIsAtomic DEF RecordInv, Types, RowIsThere, Writes
<1>2. CASE At(a) = "count"
  <2>1. row'.count \in 1 .. started /\ row'.status = row.status
    BY <1>2, WritesRecordInv, WhatIsWritten
  <2> QED BY <1>1, <2>1 DEF Record!Next, Record!Count, Record!Exists
<1>3. CASE At(a) \in {"finish", "expire"}
  <2>1. row'.count = row.count /\ row'.status = "completed" BY <1>3, WhatIsWritten
  <2> QED BY <1>1, <2>1 DEF Record!Next, Record!Complete, Record!Exists
<1>4. CASE At(a) = "pause"
  <2>1. row'.count = row.count /\ row'.status = "paused" BY <1>4, WhatIsWritten
  <2> QED BY <1>1, <2>1 DEF Record!Next, Record!Pause, Record!Exists
<1>5. CASE At(a) = "resume"
  <2>1. row'.count = row.count /\ row'.status = "active" BY <1>5, WhatIsWritten
  <2> QED BY <1>1, <2>1 DEF Record!Next, Record!Resume, Record!Exists
<1>6. CASE At(a) \notin {"count", "finish", "expire", "pause", "resume"}
  <2>1. row'.count = row.count /\ row'.status = row.status BY <1>6, WhatIsWritten
  <2> QED BY <1>1, <2>1
<1> QED BY <1>2, <1>3, <1>4, <1>5, <1>6

\* The row and its writers implement the row that everybody changes in one step.
THEOREM RowImplementsRecord == Spec => RowIsRecord
<1> DEFINE abstract == <<[status |-> row.status, count |-> row.count], started>>
<1>1. Init => Record!Init BY DEF Init, NoRow, Record!Init, Record!Gone
<1>2. RecordInv /\ [Next]_vars => [Record!Next]_abstract
  <2> SUFFICES ASSUME RecordInv, [Next]_vars PROVE [Record!Next]_abstract OBVIOUS
  <2>1. CASE UNCHANGED vars BY <2>1 DEF vars
  <2>2. CASE Create
    BY <2>2 DEF Create, NoRow, Record!Next, Record!Create, Record!Exists
  <2>3. CASE \E a \in Ops : Deletes(a)
    BY <2>3 DEF Deletes, NoRow, Record!Next, Record!Delete, Record!Gone
  <2>4. CASE \E a \in Agents : Writes(a) BY <2>4, WritesAreRecordSteps
  <2>5. CASE Next /\ ~Create /\ (\A a \in Ops : ~Deletes(a)) /\ \A a \in Agents : ~Writes(a)
    <3>1. row' = row /\ started' \in {started, started + 1}
      BY <2>5, OnlyWritesWrite DEF RecordInv
    <3> QED BY <3>1 DEF Record!Next, Record!Start
  <2> QED BY <2>1, <2>2, <2>3, <2>4, <2>5
<1> QED BY <1>1, <1>2, RowInvariant, PTL DEF Spec, RowIsRecord, Record!Spec
-----------------------------------------------------------------------------
(* How many runs there are. Each number of the history is tied to the runs that are between
   two places, so that a run that moves on changes both sides. *)

UncalledAt == {"loading", "storing", "count", "calling"}
UnstoredAt == {"loading", "storing"}
StoredAt == {"count", "calling", "fail", "closing"}
AheadAt == {"storing", "count", "calling"}
PastAt == {"calling", "fail", "closing", "ending", "finish"}

Uncalled == {a \in Runs : At(a) \in UncalledAt}
Unstored == {a \in Runs : At(a) \in UnstoredAt}
Stored == {a \in Runs : At(a) \in {"count", "calling", "fail", "closing"}}
Ahead == {a \in Runs : At(a) \in AheadAt}
Calling == {a \in Runs : At(a) = "calling"}

Ranges ==
  /\ kind \in Kinds /\ due \in BOOLEAN /\ timer \in {"none", "armed", "spent"} /\ up \in BOOLEAN
  /\ calls \in Nat /\ open \in Nat /\ started <= MaxStarted
  /\ upset \subseteq Upsets \cup Consequences

\* Before the one creation nothing happens.
Untouched ==
  begun = 0 => timer = "none" /\ calls = 0 /\ \A a \in Agents : At(a) = "idle"

\* A run that is not called, or not stored, is started; one that is stored is open.
Follows ==
  /\ calls + Cardinality(Uncalled) <= started
  /\ open + Cardinality(Unstored) <= started
  /\ Cardinality(Stored) <= open

Alone ==
  Without({"overlap"}) => \A a, b \in Runs : At(a) # "idle" /\ At(b) # "idle" => a = b

\* The one run counts from the number the row has.
SeenIsCount ==
  row # NoRow /\ Without({"overlap"}) =>
    \A a \in Runs : At(a) \in {"storing", "count"} => pc[a].seen = row.count

Counted ==
  row # NoRow /\ Without({"overlap"}) =>
    /\ row.count >= calls + Cardinality(Calling)
    /\ Without({"crash"}) => row.count = calls + Cardinality(Calling)

\* The run that is ahead of its call fits, and a job that may start another has a run left.
Exempt == {"overlap", "trigger", "crash"} \cup Consequences
Open(r) == r # NoRow /\ r.status # "completed"
Limited ==
  MaxRuns > 0 /\ Without(Exempt) =>
    /\ calls + Cardinality(Ahead) <= MaxRuns
    /\ Open(row) /\ (\A a \in Runs : At(a) \notin PastAt) => row.count < MaxRuns

CountingInv ==
  Ranges /\ Untouched /\ Follows /\ Alone /\ SeenIsCount /\ Counted /\ StoredRunsEnd /\ Limited

LEMMA RunsFinite ==
  ASSUME NEW S, S \subseteq Runs
  PROVE  IsFiniteSet(S) /\ Cardinality(S) \in Nat
BY CronJobsAssumption, FS_Subset, FS_CardinalityType

\* A set of runs that differs from another in one of them at most.
LEMMA OneDiffers ==
  ASSUME NEW S, NEW T, S \subseteq Runs, T \subseteq Runs, NEW a \in Runs, S \ {a} = T \ {a}
  PROVE  Cardinality(T) = Cardinality(S) + (IF a \in T THEN 1 ELSE 0) - (IF a \in S THEN 1 ELSE 0)
<1>1. /\ IsFiniteSet(S) /\ Cardinality(S) \in Nat
      /\ IsFiniteSet(T) /\ Cardinality(T) \in Nat
  BY RunsFinite
<1>2. CASE a \in S <=> a \in T
  <2>1. S = T BY <1>2
  <2> QED BY <1>1, <1>2, <2>1
<1>3. CASE a \in S /\ a \notin T
  <2>1. T = S \ {a} BY <1>3
  <2>2. Cardinality(T) = Cardinality(S) - 1 BY <1>1, <1>3, <2>1, FS_RemoveElement
  <2> QED BY <1>1, <1>3, <2>2
<1>4. CASE a \notin S /\ a \in T
  <2>1. T = S \cup {a} BY <1>4
  <2>2. Cardinality(T) = Cardinality(S) + 1 BY <1>1, <1>4, <2>1, FS_AddElement
  <2> QED BY <1>1, <1>4, <2>2
<1> QED BY <1>2, <1>3, <1>4

Delta(to, from, places) == (IF to \in places THEN 1 ELSE 0) - (IF from \in places THEN 1 ELSE 0)

LEMMA Sizes ==
  /\ Cardinality(Uncalled) \in Nat /\ Cardinality(Unstored) \in Nat
  /\ Cardinality(Stored) \in Nat /\ Cardinality(Ahead) \in Nat /\ Cardinality(Calling) \in Nat
<1>1. /\ Uncalled \subseteq Runs /\ Unstored \subseteq Runs /\ Stored \subseteq Runs
      /\ Ahead \subseteq Runs /\ Calling \subseteq Runs
  BY DEF Uncalled, Unstored, Stored, Ahead, Calling
<1> QED BY <1>1, RunsFinite

\* A run moves on, and the others stay.
Moved(a, p) ==
  /\ pc'[a] = p /\ At(a)' = p.at
  /\ \A b \in Runs : b # a => pc'[b] = pc[b] /\ At(b)' = At(b)
  /\ Cardinality(Uncalled') = Cardinality(Uncalled) + Delta(p.at, At(a), UncalledAt)
  /\ Cardinality(Unstored') = Cardinality(Unstored) + Delta(p.at, At(a), UnstoredAt)
  /\ Cardinality(Stored') = Cardinality(Stored) + Delta(p.at, At(a), StoredAt)
  /\ Cardinality(Ahead') = Cardinality(Ahead) + Delta(p.at, At(a), AheadAt)
  /\ Cardinality(Calling') = Cardinality(Calling) + Delta(p.at, At(a), {"calling"})

LEMMA RunMoves ==
  ASSUME Types, NEW a \in Runs, NEW p \in [at : Places, read : Rows, seen : Nat],
         pc' = [pc EXCEPT ![a] = p]
  PROVE  Moved(a, p)
<1>1. /\ pc'[a] = p /\ At(a)' = p.at
      /\ \A b \in Runs : b # a => pc'[b] = pc[b] /\ At(b)' = At(b)
  BY OneMoves DEF Agents, At
<1>2. Cardinality(Uncalled') = Cardinality(Uncalled) + Delta(p.at, At(a), UncalledAt)
  <2>1. /\ Uncalled \subseteq Runs /\ Uncalled' \subseteq Runs
        /\ Uncalled' \ {a} = Uncalled \ {a}
        /\ a \in Uncalled <=> At(a) \in UncalledAt
        /\ a \in Uncalled' <=> p.at \in UncalledAt
    BY <1>1 DEF Uncalled
  <2> QED BY <2>1, OneDiffers, Sizes DEF Delta
<1>3. Cardinality(Unstored') = Cardinality(Unstored) + Delta(p.at, At(a), UnstoredAt)
  <2>1. /\ Unstored \subseteq Runs /\ Unstored' \subseteq Runs
        /\ Unstored' \ {a} = Unstored \ {a}
        /\ a \in Unstored <=> At(a) \in UnstoredAt
        /\ a \in Unstored' <=> p.at \in UnstoredAt
    BY <1>1 DEF Unstored
  <2> QED BY <2>1, OneDiffers, Sizes DEF Delta
<1>4. Cardinality(Stored') = Cardinality(Stored) + Delta(p.at, At(a), StoredAt)
  <2>1. /\ Stored \subseteq Runs /\ Stored' \subseteq Runs
        /\ Stored' \ {a} = Stored \ {a}
        /\ a \in Stored <=> At(a) \in StoredAt
        /\ a \in Stored' <=> p.at \in StoredAt
    BY <1>1 DEF Stored, StoredAt
  <2> QED BY <2>1, OneDiffers, Sizes DEF Delta
<1>5. Cardinality(Ahead') = Cardinality(Ahead) + Delta(p.at, At(a), AheadAt)
  <2>1. /\ Ahead \subseteq Runs /\ Ahead' \subseteq Runs
        /\ Ahead' \ {a} = Ahead \ {a}
        /\ a \in Ahead <=> At(a) \in AheadAt
        /\ a \in Ahead' <=> p.at \in AheadAt
    BY <1>1 DEF Ahead
  <2> QED BY <2>1, OneDiffers, Sizes DEF Delta
<1>6. Cardinality(Calling') = Cardinality(Calling) + Delta(p.at, At(a), {"calling"})
  <2>1. /\ Calling \subseteq Runs /\ Calling' \subseteq Runs
        /\ Calling' \ {a} = Calling \ {a}
        /\ a \in Calling <=> At(a) \in {"calling"}
        /\ a \in Calling' <=> p.at \in {"calling"}
    BY <1>1 DEF Calling
  <2> QED BY <2>1, OneDiffers, Sizes DEF Delta
<1> QED BY <1>1, <1>2, <1>3, <1>4, <1>5, <1>6 DEF Moved

\* The runs stay where they are.
LEMMA RunsRest ==
  ASSUME Types, \A b \in Runs : pc'[b] = pc[b]
  PROVE  /\ \A b \in Runs : At(b)' = At(b)
         /\ Uncalled' = Uncalled /\ Unstored' = Unstored /\ Stored' = Stored
         /\ Ahead' = Ahead /\ Calling' = Calling
BY DEF At, Uncalled, Unstored, Stored, Ahead, Calling

LEMMA Bounds == MaxRuns \in Nat /\ MaxStarted \in Nat
BY CronJobsAssumption

LEMMA InitCountingInv == Init => CountingInv
<1> SUFFICES ASSUME Init PROVE CountingInv OBVIOUS
<1>1. \A a \in Agents : At(a) = "idle" BY DEF Init, At, Rest, Place, Agents
<1>2. /\ Uncalled = {} /\ Unstored = {} /\ Stored = {} /\ Ahead = {}
  BY <1>1 DEF Agents, Uncalled, Unstored, Stored, Ahead, UncalledAt, UnstoredAt, AheadAt
<1>3. /\ Cardinality(Uncalled) = 0 /\ Cardinality(Unstored) = 0 /\ Cardinality(Stored) = 0
      /\ Cardinality(Ahead) = 0
  BY <1>2, FS_EmptySet
<1>4. Ranges
  <2>1. due \in BOOLEAN /\ up \in BOOLEAN BY DEF Init
  <2>2. kind \in Kinds /\ timer \in {"none", "armed", "spent"} /\ upset = {} BY DEF Init
  <2>3. calls \in Nat /\ open \in Nat /\ started <= MaxStarted BY Bounds DEF Init
  <2> QED BY <2>1, <2>2, <2>3 DEF Ranges
<1>5. Untouched BY <1>1 DEF Init, Untouched
<1>6. Follows BY <1>3 DEF Init, Follows
<1>7. Alone BY <1>1 DEF Alone, Agents
<1>8. SeenIsCount /\ Counted BY DEF Init, SeenIsCount, Counted
<1>9. StoredRunsEnd BY <1>3 DEF Init, StoredRunsEnd, Stored
<1>10. Limited BY <1>3, Bounds DEF Init, Limited, Open
<1> QED BY <1>4, <1>5, <1>6, <1>7, <1>8, <1>9, <1>10 DEF CountingInv

\* Where the runs that are counted stay as they are, and only a history of events grows.
LEMMA NothingCounted ==
  ASSUME RecordInv, RecordInv', CountingInv, Ranges', Untouched',
         \A b \in Runs : pc'[b] = pc[b],
         row' = NoRow \/ (row # NoRow /\ row'.count = row.count),
         row'.status = row.status \/ row'.status \in {"none", "completed"} \/ row.status # "completed"
           \/ "reopened" \in upset',
         upset \subseteq upset',
         UNCHANGED <<open, calls, started>>
  PROVE  CountingInv'
<1>1. /\ \A b \in Runs : At(b)' = At(b)
      /\ Uncalled' = Uncalled /\ Unstored' = Unstored /\ Stored' = Stored
      /\ Ahead' = Ahead /\ Calling' = Calling
  BY RunsRest DEF RecordInv
<1>2. Follows' BY <1>1 DEF CountingInv, Follows
<1>3. Alone' BY <1>1 DEF CountingInv, Alone, Without
<1>4. SeenIsCount' BY <1>1 DEF CountingInv, SeenIsCount, Without
<1>5. Counted' BY <1>1 DEF CountingInv, Counted, Without
<1>6. StoredRunsEnd' BY <1>1 DEF CountingInv, StoredRunsEnd, Without, Stored
<1>7. Limited'
  <2>1. Open(row') /\ Without(Exempt)' => Open(row) /\ Without(Exempt)
    BY DEF Open, Exempt, Without, Consequences, RecordInv, RowIsThere
  <2>2. Without(Exempt)' => Without(Exempt) BY DEF Without
  <2>3. Open(row') => row'.count = row.count BY DEF Open
  <2> QED BY <1>1, <2>1, <2>2, <2>3 DEF CountingInv, Limited
<1> QED BY <1>2, <1>3, <1>4, <1>5, <1>6, <1>7 DEF CountingInv

\* A run that is alone is the only one there is.
LEMMA OnlyRun ==
  ASSUME Alone, Without({"overlap"}), NEW a \in Runs, At(a) # "idle"
  PROVE  \A b \in Runs : b # a => At(b) = "idle"
BY DEF Alone

LEMMA StaysAlone ==
  ASSUME Types, Alone, NEW a \in Runs, NEW p \in [at : Places, read : Rows, seen : Nat],
         pc' = [pc EXCEPT ![a] = p], upset \subseteq upset',
         \/ At(a) # "idle"
         \/ \A b \in Runs : At(b) = "idle"
         \/ "overlap" \in upset'
  PROVE  Alone'
<1>1. /\ At(a)' = p.at
      /\ \A b \in Runs : b # a => At(b)' = At(b)
  BY RunMoves DEF Moved
<1>2. Without({"overlap"})' => Without({"overlap"}) /\ "overlap" \notin upset'
  BY DEF Without
<1> QED BY <1>1, <1>2, OnlyRun DEF Alone

\* A run starts.
LEMMA StartCounts ==
  ASSUME RecordInv, RecordInv', CountingInv, Ranges', NEW a \in Runs, Fire(a) \/ Trigger(a)
  PROVE  CountingInv'
<1>1. PICK place \in {"loading", "storing"}, seen \in Nat :
        /\ At(a) = "idle" /\ started' = started + 1
        /\ pc' = [pc EXCEPT ![a] = Place(place, seen)]
        /\ place = "storing" => row # NoRow /\ seen = row.count /\ "trigger" \in upset'
        /\ UNCHANGED <<row, begun, calls, open>> /\ begun > 0
        /\ upset \subseteq upset' /\ ("overlap" \in upset' \/ \A b \in Runs : At(b) = "idle")
  <2>1. 0 \in Nat /\ row.count \in Nat BY DEF RecordInv, Types, Rows
  <2>2. CASE Fire(a)
    <3>1. begun # 0 /\ begun \in Nat BY <2>2 DEF Fire, CountingInv, Untouched, RecordInv, Types
    <3>2. upset \subseteq upset' /\ ("overlap" \in upset' \/ \A b \in Runs : At(b) = "idle")
      BY <2>2 DEF Fire, HappensIf, Happens, Busy
    <3>3. /\ At(a) = "idle" /\ started' = started + 1
          /\ pc' = [pc EXCEPT ![a] = Place("loading", 0)]
          /\ UNCHANGED <<row, begun, calls, open>> /\ begun > 0
      BY <2>2, <3>1 DEF Fire, StartRun
    <3> QED BY <2>1, <3>2, <3>3
  <2>3. CASE Trigger(a)
    <3>1. begun > 0 BY <2>3 DEF Trigger, RecordInv, RowIsThere
    <3> QED BY <2>1, <2>3, <3>1 DEF Trigger, StartRun, Happens, Busy
  <2> QED BY <2>2, <2>3
<1> DEFINE p == Place(place, seen)
<1>2. /\ p \in [at : Places, read : Rows, seen : Nat]
      /\ p.at = place /\ p.read = NoRow /\ p.seen = seen
  BY DEF Place, Places, Rows, NoRow, Statuses
<1> HIDE DEF p
<1>3. /\ pc'[a] = p /\ At(a)' = p.at
      /\ \A b \in Runs : b # a => pc'[b] = pc[b] /\ At(b)' = At(b)
      /\ Cardinality(Uncalled') = Cardinality(Uncalled) + 1
      /\ Cardinality(Unstored') = Cardinality(Unstored) + 1
      /\ Cardinality(Stored') = Cardinality(Stored)
      /\ place = "loading" => Cardinality(Ahead') = Cardinality(Ahead)
      /\ Cardinality(Calling') = Cardinality(Calling)
  <2>1. Types /\ pc' = [pc EXCEPT ![a] = p] BY <1>1 DEF p, RecordInv
  <2>2. /\ Delta(p.at, At(a), UncalledAt) = 1 /\ Delta(p.at, At(a), UnstoredAt) = 1
        /\ Delta(p.at, At(a), StoredAt) = 0 /\ Delta(p.at, At(a), {"calling"}) = 0
        /\ place = "loading" => Delta(p.at, At(a), AheadAt) = 0
    BY <1>1, <1>2 DEF Delta, UncalledAt, UnstoredAt, StoredAt, AheadAt
  <2>3. Moved(a, p) BY <1>2, <2>1, RunMoves
  <2> QED BY <1>2, <2>2, <2>3, Sizes DEF Moved
<1>4. Untouched' BY <1>1 DEF Untouched
<1>5. Follows'
  BY <1>1, <1>3, Sizes DEF CountingInv, Follows, RecordInv, Types, Ranges
<1>6. Alone' BY <1>1, <1>2, StaysAlone DEF p, CountingInv, RecordInv
<1>7. SeenIsCount' BY <1>1, <1>2, <1>3 DEF CountingInv, SeenIsCount, Without
<1>8. Counted' BY <1>1, <1>3 DEF CountingInv, Counted, Without
<1>9. StoredRunsEnd' BY <1>1, <1>3 DEF CountingInv, StoredRunsEnd, Stored, Without
<1>10. Limited'
  BY <1>1, <1>2, <1>3 DEF CountingInv, Limited, Without, PastAt, Exempt, Open
<1> QED BY <1>4, <1>5, <1>6, <1>7, <1>8, <1>9, <1>10 DEF CountingInv

\* A run goes on. What it changes of the history, and of the count in the row, is what it
\* leaves and where it arrives; and where it lets the job start another run, a run is left.
Accounted(a, p) ==
  /\ UNCHANGED <<started, begun>> /\ upset \subseteq upset' /\ (row' # NoRow => row # NoRow)
  /\ calls' + Delta(p.at, At(a), UncalledAt) <= calls
  /\ open' + Delta(p.at, At(a), UnstoredAt) <= open
  /\ open + Delta(p.at, At(a), StoredAt) <= open'
  /\ "refused" \in upset' \/ open + Delta(p.at, At(a), StoredAt) = open'
  /\ Without({"overlap"}) /\ row' # NoRow =>
       /\ p.at \in {"storing", "count"} => p.seen = row'.count
       /\ row'.count = row.count + (calls' - calls) + Delta(p.at, At(a), {"calling"})
  /\ \/ calls' + Delta(p.at, At(a), AheadAt) <= calls
     \/ At(a) = "loading" /\ calls' = calls /\ Open(row)
  /\ MaxRuns > 0 /\ Open(row') /\ p.at \notin PastAt =>
       \/ row'.count < MaxRuns
       \/ At(a) \notin PastAt /\ row'.count = row.count /\ Open(row)
       \/ "refused" \in upset'

LEMMA RunCounts ==
  ASSUME RecordInv, RecordInv', CountingInv, Ranges', NEW a \in Runs, At(a) # "idle",
         NEW p \in [at : Places, read : Rows, seen : Nat], pc' = [pc EXCEPT ![a] = p],
         Accounted(a, p)
  PROVE  CountingInv'
<1> USE DEF Accounted
<1>1. Moved(a, p) BY RunMoves DEF RecordInv
<1>2. /\ Delta(p.at, At(a), UncalledAt) \in Int /\ Delta(p.at, At(a), UnstoredAt) \in Int
      /\ Delta(p.at, At(a), StoredAt) \in Int /\ Delta(p.at, At(a), AheadAt) \in Int
      /\ Delta(p.at, At(a), {"calling"}) \in Int
      /\ Delta(p.at, At(a), AheadAt) <= 1
  BY DEF Delta
<1>3. /\ calls \in Nat /\ calls' \in Nat /\ open \in Nat /\ open' \in Nat /\ started \in Nat
      /\ row.count \in Nat /\ row'.count \in Nat
  BY DEF CountingInv, Ranges, RecordInv, Types, Rows
<1>4. Untouched'
  <2>1. begun # 0 BY DEF CountingInv, Untouched, Agents
  <2> QED BY <2>1 DEF Untouched
<1>5. Follows'
  BY <1>1, <1>2, <1>3, Sizes DEF CountingInv, Follows, Moved
<1>6. Alone' BY StaysAlone DEF CountingInv, RecordInv
<1>7. Without({"overlap"})' => Without({"overlap"}) /\ \A b \in Runs : b # a => At(b) = "idle"
  BY OnlyRun DEF Without, CountingInv
<1>8. SeenIsCount' BY <1>1, <1>7 DEF SeenIsCount, Moved
<1>9. Counted'
  BY <1>1, <1>2, <1>3, <1>7, Sizes DEF CountingInv, Counted, Moved, Without
<1>10. StoredRunsEnd'
  BY <1>1, <1>2, <1>3, Sizes DEF CountingInv, StoredRunsEnd, Stored, Moved, Without
<1>11. Limited'
  <2> SUFFICES ASSUME MaxRuns > 0, Without(Exempt)'
               PROVE  /\ calls' + Cardinality(Ahead') <= MaxRuns
                      /\ Open(row') /\ (\A b \in Runs : At(b)' \notin PastAt)
                           => row'.count < MaxRuns
    BY DEF Limited
  <2>1. /\ Without({"overlap"})' /\ Without({"crash"}) /\ Without({"overlap"})
        /\ Without(Exempt)
    BY DEF Without, Exempt
  <2>2. /\ calls + Cardinality(Ahead) <= MaxRuns
        /\ Open(row) /\ (\A b \in Runs : At(b) \notin PastAt) => row.count < MaxRuns
    BY <2>1 DEF CountingInv, Limited
  <2>3. \A b \in Runs : b # a => At(b) \notin PastAt BY <1>7, <2>1 DEF PastAt
  <2>4. calls' + Cardinality(Ahead') <= MaxRuns
    <3>1. CASE calls' + Delta(p.at, At(a), AheadAt) <= calls
      BY <1>1, <1>2, <1>3, <2>2, <3>1, Sizes, Bounds DEF Moved
    <3>2. CASE At(a) = "loading" /\ calls' = calls /\ Open(row)
      <4>1. Ahead = {} /\ Calling = {}
        BY <1>7, <2>1, <3>2 DEF Ahead, AheadAt, Calling
      <4>2. Cardinality(Ahead) = 0 /\ Cardinality(Calling) = 0 BY <4>1, FS_EmptySet
      <4>3. row.count = calls
        BY <1>3, <2>1, <3>2, <4>2 DEF CountingInv, Counted, Open
      <4>4. row.count < MaxRuns BY <2>2, <2>3, <3>2 DEF PastAt
      <4> QED BY <1>1, <1>2, <1>3, <3>2, <4>2, <4>3, <4>4, Bounds DEF Moved
    <3> QED BY <3>1, <3>2
  <2>5. Open(row') /\ (\A b \in Runs : At(b)' \notin PastAt) => row'.count < MaxRuns
    <3> SUFFICES ASSUME Open(row'), \A b \in Runs : At(b)' \notin PastAt
                 PROVE  row'.count < MaxRuns
      OBVIOUS
    <3>1. p.at \notin PastAt BY <1>1 DEF Moved
    <3>2. CASE At(a) \notin PastAt /\ row'.count = row.count /\ Open(row)
      BY <2>2, <2>3, <3>2
    <3>3. "refused" \notin upset' BY DEF Without, Exempt, Consequences
    <3> QED BY <3>1, <3>2, <3>3
  <2> QED BY <2>4, <2>5
<1> QED BY <1>4, <1>5, <1>6, <1>8, <1>9, <1>10, <1>11 DEF CountingInv

LEMMA RunStepCounts ==
  ASSUME RecordInv, RecordInv', CountingInv, Ranges', NEW a \in Runs, RunStep(a)
  PROVE  CountingInv'
<1>1. /\ a \in Agents /\ pc[a].seen \in Nat /\ row.count \in Nat
      /\ calls \in Nat /\ open \in Nat
  BY DEF Agents, RecordInv, Types, Rows, CountingInv, Ranges
<1>2. Without({"overlap"}) /\ row # NoRow /\ At(a) \in {"storing", "count"} => pc[a].seen = row.count
  BY DEF CountingInv, SeenIsCount
<1>3. ASSUME NEW place \in RunPlaces, NEW seen \in Nat
      PROVE  /\ Place(place, seen) \in [at : Places, read : Rows, seen : Nat]
             /\ Place(place, seen).at = place /\ Place(place, seen).seen = seen
  BY DEF Place, Places, Patches, RunPlaces, Rows, NoRow, Statuses
<1>4. CASE Load(a)
  <2>1. PICK place \in {"idle", "expire", "storing"}, seen \in Nat :
          /\ pc' = [pc EXCEPT ![a] = Place(place, seen)]
          /\ place = "storing" => seen = row.count /\ row.status = "active"
    BY <1>1, <1>4 DEF Load, Goto
  <2>2. /\ At(a) = "loading"
        /\ UNCHANGED <<row, started, begun, calls, open, upset>>
        /\ place = "storing" => Open(row)
    BY <1>4, <2>1 DEF Load, Open, NoRow
  <2>3. place \in RunPlaces BY DEF RunPlaces
  <2> DEFINE p == Place(place, seen)
  <2>4. Accounted(a, p)
    BY <1>1, <1>3, <2>1, <2>2, <2>3
       DEF Accounted, Delta, UncalledAt, UnstoredAt, StoredAt, AheadAt, PastAt
  <2> QED BY <1>3, <2>1, <2>2, <2>3, <2>4, RunCounts
<1>5. CASE StoreRun(a)
  <2>1. /\ At(a) = "storing" /\ pc' = [pc EXCEPT ![a] = Place("count", pc[a].seen)]
        /\ UNCHANGED <<row, started, begun, calls, upset>> /\ open' = open + 1
    BY <1>5 DEF StoreRun, Goto
  <2>2. "count" \in RunPlaces BY DEF RunPlaces
  <2> DEFINE p == Place("count", pc[a].seen)
  <2>3. Accounted(a, p)
    BY <1>1, <1>2, <1>3, <2>1, <2>2
       DEF Accounted, Delta, UncalledAt, UnstoredAt, StoredAt, AheadAt, PastAt
  <2> QED BY <1>1, <1>3, <2>1, <2>2, <2>3, RunCounts
<1>6. CASE Call(a)
  <2>1. PICK place \in {"closing", "fail"} : pc' = [pc EXCEPT ![a] = Place(place, pc[a].seen)]
    BY <1>6 DEF Call, Goto, AgentFails
  <2>2. /\ At(a) = "calling" /\ UNCHANGED <<row, started, begun, open>> /\ calls' = calls + 1
        /\ upset \subseteq upset'
    BY <1>6 DEF Call, Happens
  <2>3. place \in RunPlaces BY DEF RunPlaces
  <2> DEFINE p == Place(place, pc[a].seen)
  <2>4. Accounted(a, p)
    BY <1>1, <1>3, <2>1, <2>2, <2>3
       DEF Accounted, Delta, UncalledAt, UnstoredAt, StoredAt, AheadAt, PastAt
  <2> QED BY <1>1, <1>3, <2>1, <2>2, <2>3, <2>4, RunCounts
<1>7. CASE CloseRun(a)
  <2>1. /\ At(a) = "closing" /\ pc' = [pc EXCEPT ![a] = Place("ending", pc[a].seen)]
        /\ UNCHANGED <<row, started, begun, calls, upset>> /\ open' = open - 1
    BY <1>7 DEF CloseRun, Goto
  <2>2. "ending" \in RunPlaces BY DEF RunPlaces
  <2> DEFINE p == Place("ending", pc[a].seen)
  <2>3. Accounted(a, p)
    BY <1>1, <1>3, <2>1, <2>2
       DEF Accounted, Delta, UncalledAt, UnstoredAt, StoredAt, AheadAt, PastAt
  <2> QED BY <1>1, <1>3, <2>1, <2>2, <2>3, RunCounts
<1>8. CASE Decide(a)
  <2>1. PICK place \in {"idle", "finish", "renew"} :
          /\ pc' = [pc EXCEPT ![a] = Place(place, pc[a].seen)]
          /\ place # "finish" => row = NoRow \/ ~LimitReached
    BY <1>8 DEF Decide, Goto
  <2>2. /\ At(a) = "ending" /\ UNCHANGED <<row, started, begun, calls, open, upset>>
    BY <1>8 DEF Decide
  <2>3. MaxRuns > 0 /\ Open(row) /\ place # "finish" => row.count < MaxRuns
    BY <1>1, <2>1, Bounds DEF LimitReached, Open
  <2>4. place \in RunPlaces BY DEF RunPlaces
  <2> DEFINE p == Place(place, pc[a].seen)
  <2>5. Accounted(a, p)
    BY <1>1, <1>3, <2>1, <2>2, <2>3, <2>4
       DEF Accounted, Delta, UncalledAt, UnstoredAt, StoredAt, AheadAt, PastAt
  <2> QED BY <1>1, <1>3, <2>1, <2>2, <2>4, <2>5, RunCounts
<1> QED BY <1>4, <1>5, <1>6, <1>7, <1>8 DEF RunStep

LEMMA RunReadCounts ==
  ASSUME RecordInv, RecordInv', CountingInv, Ranges', NEW a \in Runs, Reads(a)
  PROVE  CountingInv'
<1>1. /\ At(a) \in {"count", "fail", "finish", "renew", "expire"}
      /\ pc[a] \in [at : Places, read : Rows, seen : Nat] /\ row \in Rows
      /\ calls \in Nat /\ open \in Nat
      /\ UNCHANGED <<row, started, begun, calls, open, upset>>
  BY DEF Reads, RecordInv, Types, RunPlaces, Patches, Agents, CountingInv, Ranges
<1>2. CASE row = NoRow
  <2> DEFINE p == Place(Then(At(a)), pc[a].seen)
  <2>1. pc' = [pc EXCEPT ![a] = p] BY <1>2 DEF Reads, Goto
  <2>2. /\ p \in [at : Places, read : Rows, seen : Nat]
        /\ p.at = Then(At(a)) /\ Then(At(a)) \in {"calling", "closing", "idle"}
    BY <1>1 DEF Place, Then, Places, Rows, NoRow, Statuses
  <2>3. Accounted(a, p)
    BY <1>1, <1>2, <2>2
       DEF Accounted, Delta, UncalledAt, UnstoredAt, StoredAt, AheadAt, PastAt, Open, Then
  <2> HIDE DEF p
  <2> QED BY <1>1, <2>1, <2>2, <2>3, RunCounts
<1>3. CASE row # NoRow
  <2> DEFINE p == [pc[a] EXCEPT !.read = row]
  <2>1. pc' = [pc EXCEPT ![a] = p] BY <1>1, <1>3, OneMoves DEF Reads, RecordInv, Types, Agents
  <2>2. /\ p \in [at : Places, read : Rows, seen : Nat]
        /\ p.at = At(a) /\ p.seen = pc[a].seen
    BY <1>1 DEF At
  <2> HIDE DEF p
  <2>3. Without({"overlap"}) /\ p.at \in {"storing", "count"} => p.seen = row.count
    BY <1>3, <2>2 DEF CountingInv, SeenIsCount
  <2>4. Accounted(a, p)
    BY <1>1, <1>3, <2>2, <2>3 DEF Accounted, Delta, Rows
  <2> QED BY <1>1, <2>1, <2>2, <2>4, RunCounts
<1> QED BY <1>2, <1>3

LEMMA RunWriteCounts ==
  ASSUME RecordInv, RecordInv', CountingInv, Ranges', NEW a \in Runs, Writes(a)
  PROVE  CountingInv'
<1> DEFINE p == Place(Then(At(a)), pc[a].seen)
<1>1. /\ At(a) \in {"count", "fail", "finish", "renew", "expire"}
      /\ pc[a].seen \in Nat /\ row \in Rows /\ row # NoRow
      /\ calls \in Nat /\ open \in Nat
      /\ UNCHANGED <<started, begun, calls, open>> /\ upset' = upset
  BY WriteIsAtomic DEF Writes, RecordInv, Types, RunPlaces, Patches, Agents, CountingInv, Ranges
<1>2. pc' = [pc EXCEPT ![a] = p] BY DEF Writes, Goto
<1>3. /\ p \in [at : Places, read : Rows, seen : Nat]
      /\ p.at = Then(At(a)) /\ Then(At(a)) \in {"calling", "closing", "idle"}
  BY <1>1 DEF Place, Then, Places, Rows, NoRow, Statuses
<1>4. /\ row'.count = IF At(a) = "count" THEN pc[a].seen + 1 ELSE row.count
      /\ row'.status = IF At(a) \in {"finish", "expire"} THEN "completed" ELSE row.status
  BY <1>1, WhatIsWritten DEF Agents
<1>5. Without({"overlap"}) /\ At(a) = "count" => pc[a].seen = row.count
  BY <1>1 DEF CountingInv, SeenIsCount
<1> HIDE DEF p
<1>6. Accounted(a, p)
  BY <1>1, <1>3, <1>4, <1>5
     DEF Accounted, Delta, UncalledAt, UnstoredAt, StoredAt, AheadAt, PastAt, Open, Then, Rows
<1> QED BY <1>1, <1>2, <1>3, <1>6, RunCounts

LEMMA RunRefusedCounts ==
  ASSUME RecordInv, RecordInv', CountingInv, Ranges', NEW a \in Runs, Refused(a)
  PROVE  CountingInv'
<1>1. /\ At(a) \in {"count", "fail", "finish", "renew", "expire"} /\ row \in Rows
      /\ calls \in Nat /\ open \in Nat
      /\ UNCHANGED <<row, started, begun, calls, open>>
      /\ upset \subseteq upset' /\ "refused" \in upset'
  BY DEF Refused, RecordInv, Types, RunPlaces, Patches, Agents, CountingInv, Ranges
<1>2. pc' = [pc EXCEPT ![a] = Rest] BY DEF Refused
<1>3. Rest \in [at : Places, read : Rows, seen : Nat] /\ Rest.at = "idle"
  BY DEF Rest, Place, Places, Rows, NoRow, Statuses
<1>4. Accounted(a, Rest)
  BY <1>1, <1>3
     DEF Accounted, Delta, UncalledAt, UnstoredAt, StoredAt, AheadAt, PastAt, Rows
<1> QED BY <1>1, <1>2, <1>3, <1>4, RunCounts

\* What persons do changes what the runs are counted by in the status of the row only.
LEMMA OperationCounts ==
  ASSUME RecordInv, RecordInv', CountingInv, Ranges', NEW a \in Ops,
         Pause(a) \/ Resume(a) \/ Update(a) \/ Delete(a) \/ Deletes(a) \/ Write(a)
  PROVE  CountingInv'
<1>1. /\ a \in Agents /\ a \notin Runs /\ pc \in [Agents -> [at : Places, read : Rows, seen : Nat]]
      /\ At(a) \in OpPlaces /\ row \in Rows
  BY CronJobsAssumption DEF Agents, RecordInv, Types
<1>2. \A b \in Runs : pc'[b] = pc[b]
  <2>1. ASSUME NEW p, pc' = [pc EXCEPT ![a] = p] PROVE \A b \in Runs : pc'[b] = pc[b]
    BY <1>1, <2>1 DEF Agents
  <2>2. CASE Pause(a) \/ Resume(a) \/ Update(a) \/ Delete(a) \/ Deletes(a)
    <3>1. \E p : pc' = [pc EXCEPT ![a] = p]
      BY <2>2 DEF Pause, Resume, Update, Delete, Deletes, Goto
    <3> QED BY <2>1, <3>1
  <2>3. CASE Write(a)
    <3>1. CASE Reads(a)
      <4>1. CASE row = NoRow BY <2>1, <3>1, <4>1 DEF Reads, Goto
      <4>2. CASE row # NoRow BY <1>1, <3>1, <4>2 DEF Reads, Agents
      <4> QED BY <4>1, <4>2
    <3>2. CASE Writes(a) BY <2>1, <3>2 DEF Writes, Goto
    <3>3. CASE Refused(a) BY <2>1, <3>3 DEF Refused
    <3> QED BY <2>3, <3>1, <3>2, <3>3 DEF Write
  <2> QED BY <2>2, <2>3
<1>3. /\ UNCHANGED <<open, calls, started>> /\ upset \subseteq upset'
  BY DEF Pause, Resume, Update, Delete, Deletes, Write, Reads, Writes, Refused, Begin, HappensIf,
         Happens
<1>4. /\ row' = NoRow \/ (row # NoRow /\ row'.count = row.count) \/ row' = row
      /\ row'.status = row.status \/ row'.status = "none" \/ row.status # "completed"
           \/ "reopened" \in upset'
  <2>1. CASE Writes(a)
    <3>1. At(a) \in {"pause", "resume", "update"} /\ row # NoRow
      BY <1>1, <2>1, WriteIsAtomic DEF OpPlaces, Patches
    <3>2. /\ row'.count = row.count
          /\ At(a) = "update" => row'.status = row.status
      BY <1>1, <2>1, <3>1, WhatIsWritten
    <3>3. At(a) \in {"pause", "resume"} /\ row.status = "completed" => "reopened" \in upset'
      BY <2>1 DEF Writes
    <3> QED BY <3>1, <3>2, <3>3
  <2>2. CASE Deletes(a) BY <2>2 DEF Deletes, NoRow
  <2>3. CASE ~Writes(a) /\ ~Deletes(a)
    BY <2>3 DEF Pause, Resume, Update, Delete, Write, Reads, Refused
  <2> QED BY <2>1, <2>2, <2>3
<1>5. Untouched'
  <2>1. begun > 0
    <3>1. CASE Pause(a) \/ Resume(a) \/ Update(a) \/ Delete(a)
      BY <3>1 DEF Pause, Resume, Update, Delete, Begin, RecordInv, RowIsThere
    <3>2. CASE Deletes(a) \/ Write(a)
      <4>1. At(a) # "idle" BY <3>2 DEF Deletes, Write, Reads, Writes, Refused, Patches
      <4>2. begun # 0 /\ begun' = begun
        BY <1>1, <3>2, <4>1
           DEF Deletes, Write, Reads, Writes, Refused, CountingInv, Untouched
      <4> QED BY <4>2 DEF RecordInv, Types
    <3> QED BY <3>1, <3>2
  <2>2. begun' \in {begun, begun + 1}
    BY DEF Pause, Resume, Update, Delete, Deletes, Write, Reads, Writes, Refused, Begin
  <2>3. begun' # 0 BY <2>1, <2>2 DEF RecordInv, Types
  <2> QED BY <2>3 DEF Untouched
<1> QED BY <1>2, <1>3, <1>4, <1>5, NothingCounted

LEMMA ProcessCounts ==
  ASSUME RecordInv, RecordInv', CountingInv, Ranges', Create \/ Crash \/ Startup
  PROVE  CountingInv'
<1>1. CASE Create
  <2>1. /\ begun = 0 /\ begun' = 1 /\ pc' = pc /\ upset' = upset
        /\ row' = [ver |-> 1, status |-> "active", count |-> 0]
        /\ UNCHANGED <<open, calls, started>>
    BY <1>1 DEF Create
  <2>2. calls = 0 /\ \A a \in Runs : At(a) = "idle" /\ At(a)' = "idle"
    BY <2>1 DEF CountingInv, Untouched, Agents, At
  <2>3. /\ Uncalled' = Uncalled /\ Unstored' = Unstored /\ Stored' = Stored
        /\ Ahead' = Ahead /\ Calling' = Calling
    BY <2>1, RunsRest DEF RecordInv
  <2>4. Ahead = {} /\ Calling = {} BY <2>2 DEF Ahead, Calling, AheadAt
  <2>5. Cardinality(Ahead) = 0 /\ Cardinality(Calling) = 0 BY <2>4, FS_EmptySet
  <2>6. Untouched' BY <2>1 DEF Untouched
  <2>7. Follows' BY <2>1, <2>3 DEF CountingInv, Follows
  <2>8. Alone' /\ SeenIsCount' BY <2>2 DEF Alone, SeenIsCount
  <2>9. Counted' BY <2>1, <2>2, <2>3, <2>5 DEF Counted
  <2>10. StoredRunsEnd' BY <2>1, <2>3 DEF CountingInv, StoredRunsEnd, Stored, Without
  <2>11. Limited' BY <2>1, <2>2, <2>3, <2>5, Bounds DEF Limited
  <2> QED BY <2>6, <2>7, <2>8, <2>9, <2>10, <2>11 DEF CountingInv
<1>2. CASE Crash
  <2>1. /\ pc' = [a \in Runs \cup Ops |-> Rest] /\ "crash" \in upset' /\ upset \subseteq upset'
        /\ UNCHANGED <<row, begun, open, calls, started>> /\ timer' = "none"
    BY <1>2 DEF Crash, Happens
  <2>2. \A a \in Agents : At(a)' = "idle" BY <2>1 DEF At, Rest, Place, Agents
  <2>3. /\ Uncalled' = {} /\ Unstored' = {} /\ Stored' = {} /\ Calling' = {}
    BY <2>2 DEF Agents, Uncalled, Unstored, Stored, Calling, UncalledAt, UnstoredAt
  <2>4. /\ Cardinality(Uncalled') = 0 /\ Cardinality(Unstored') = 0
        /\ Cardinality(Stored') = 0 /\ Cardinality(Calling') = 0
    BY <2>3, FS_EmptySet
  <2>5. /\ calls \in Nat /\ open \in Nat /\ started \in Nat /\ row.count \in Nat
    BY DEF CountingInv, Ranges, RecordInv, Types, Rows
  <2>6. Untouched' BY <2>1, <2>2 DEF CountingInv, Untouched
  <2>7. Follows' BY <2>1, <2>4, <2>5, Sizes DEF CountingInv, Follows
  <2>8. Alone' /\ SeenIsCount' BY <2>2 DEF Alone, SeenIsCount, Agents
  <2>9. Counted'
    BY <2>1, <2>4, <2>5, Sizes DEF CountingInv, Counted, Without
  <2>10. StoredRunsEnd' /\ Limited'
    BY <2>1 DEF StoredRunsEnd, Limited, Exempt, Without
  <2> QED BY <2>6, <2>7, <2>8, <2>9, <2>10 DEF CountingInv
<1>3. CASE Startup
  <2>1. /\ UNCHANGED <<pc, row, begun, open, calls, started, upset>>
        /\ timer' = IF row.status = "active" THEN Registered(due') ELSE "none"
    BY <1>3 DEF Startup
  <2>2. Untouched'
    <3>1. begun = 0 => row.status = "none"
      BY DEF RecordInv, RowIsThere, NoRow, Types
    <3> QED BY <2>1, <3>1 DEF CountingInv, Untouched, At
  <2>3. row' = NoRow \/ (row # NoRow /\ row'.count = row.count) BY <2>1
  <2> QED BY <2>1, <2>2, <2>3, NothingCounted
<1> QED BY <1>1, <1>2, <1>3

\* Every variable that is not counted stays in its range.
LEMMA NextRanges ==
  ASSUME RecordInv, CountingInv, [Next]_vars
  PROVE  Ranges' /\ upset \subseteq upset'
<1>1. Ranges BY DEF CountingInv
<1>2. due' \in BOOLEAN /\ up' \in BOOLEAN
  <2>1. due \in BOOLEAN /\ up \in BOOLEAN BY <1>1 DEF Ranges
  <2> QED
    BY <2>1
       DEF Next, vars, Create, Crash, Startup, Fire, Trigger, RunStep, Load, StoreRun, Call, CloseRun,
           Decide, Write, Reads, Writes, Refused, Pause, Resume, Update, Delete, Deletes, StartRun
<1>3. kind' = kind
  BY DEF Next, vars, Create, Crash, Startup, Fire, Trigger, RunStep, Load, StoreRun, Call, CloseRun,
         Decide, Write, Reads, Writes, Refused, Pause, Resume, Update, Delete, Deletes
<1>4. timer' \in {"none", "armed", "spent"}
  <2>1. timer \in {"none", "armed", "spent"} /\ Registered(due') \in {"none", "armed"}
        /\ Registered(due) \in {"none", "armed"}
    BY <1>1 DEF Ranges, Registered
  <2>2. \/ timer' = timer \/ timer' \in {"none", "spent"}
        \/ timer' = Registered(due') \/ timer' = Registered(due)
    BY DEF Next, vars, Create, Crash, Startup, Fire, Trigger, RunStep, Load, StoreRun, Call, CloseRun,
           Decide, Write, Reads, Writes, Refused, Pause, Resume, Update, Delete, Deletes
  <2> QED BY <2>1, <2>2
<1>5. calls' \in Nat
  <2>1. calls' \in {calls, calls + 1}
    BY DEF Next, vars, Create, Crash, Startup, Fire, Trigger, RunStep, Load, StoreRun, Call, CloseRun,
           Decide, Write, Reads, Writes, Refused, Pause, Resume, Update, Delete, Deletes
  <2> QED BY <1>1, <2>1 DEF Ranges
<1>6. open' \in Nat
  <2>1. ASSUME NEW a \in Runs, CloseRun(a) PROVE open' \in Nat
    <3>1. a \in Stored BY <2>1 DEF CloseRun, Stored
    <3>2. Stored # {} /\ IsFiniteSet(Stored) /\ Cardinality(Stored) \in Nat
      BY <3>1, RunsFinite DEF Stored
    <3>3. Cardinality(Stored) # 0 BY <3>2, FS_EmptySet
    <3> QED BY <1>1, <2>1, <3>2, <3>3 DEF CloseRun, CountingInv, Follows, Ranges
  <2>2. (\E a \in Runs : CloseRun(a)) \/ open' \in {open, open + 1}
    BY DEF Next, vars, Create, Crash, Startup, Fire, Trigger, RunStep, Load, StoreRun, Call,
           Decide, Write, Reads, Writes, Refused, Pause, Resume, Update, Delete, Deletes
  <2> QED BY <1>1, <2>1, <2>2 DEF Ranges
<1>7. started' <= MaxStarted
  <2>1. started' = started \/ (started < MaxStarted /\ started' = started + 1)
    BY DEF Next, vars, Create, Crash, Startup, Fire, Trigger, StartRun, RunStep, Load, StoreRun, Call,
           CloseRun, Decide, Write, Reads, Writes, Refused, Pause, Resume, Update, Delete, Deletes
  <2> QED BY <1>1, <2>1, Bounds DEF Ranges, RecordInv, Types
<1>8. upset \subseteq upset' /\ upset' \subseteq Upsets \cup Consequences
  <2>1. ASSUME NEW event, Happens(event) PROVE event \in Upsets /\ upset' = upset \cup {event}
    BY <2>1 DEF Happens
  <2>2. \/ upset' = upset \/ \E event : Happens(event)
        \/ upset' = upset \cup {"refused"} \/ upset' = upset \cup {"reopened"}
    <3>1. CASE UNCHANGED vars BY <3>1 DEF vars
    <3>2. CASE Create \/ Crash \/ Startup BY <3>2 DEF Create, Crash, Startup
    <3>3. ASSUME NEW a \in Runs, Fire(a) \/ Trigger(a) \/ RunStep(a)
          PROVE  upset' = upset \/ \E event : Happens(event)
      BY <3>3
         DEF Fire, Trigger, HappensIf, RunStep, Load, StoreRun, Call, CloseRun, Decide
    <3>4. ASSUME NEW a \in Ops, Pause(a) \/ Resume(a) \/ Update(a) \/ Delete(a) \/ Deletes(a)
          PROVE  upset' = upset \/ \E event : Happens(event)
      BY <3>4 DEF Pause, Resume, Update, Delete, Deletes, Begin, HappensIf
    <3>5. ASSUME NEW a, Write(a)
          PROVE  upset' \in {upset, upset \cup {"refused"}, upset \cup {"reopened"}}
      BY <3>5 DEF Write, Reads, Writes, Refused
    <3> QED BY <3>1, <3>2, <3>3, <3>4, <3>5 DEF Next
  <2> QED BY <1>1, <2>1, <2>2 DEF Ranges, Consequences
<1> QED BY <1>1, <1>2, <1>3, <1>4, <1>5, <1>6, <1>7, <1>8 DEF Ranges

LEMMA NextCountingInv == RecordInv /\ CountingInv /\ [Next]_vars => CountingInv'
<1> SUFFICES ASSUME RecordInv, CountingInv, [Next]_vars PROVE CountingInv' OBVIOUS
<1>1. RecordInv' /\ Ranges' BY NextRecordInv, NextRanges
<1>2. CASE UNCHANGED vars
  <2>1. Untouched' BY <1>2 DEF vars, CountingInv, Untouched, At
  <2>2. /\ row' = row /\ pc' = pc /\ UNCHANGED <<open, calls, started, upset>>
    BY <1>2 DEF vars
  <2>3. row' = NoRow \/ (row # NoRow /\ row'.count = row.count) BY <2>2
  <2> QED BY <1>1, <2>1, <2>2, <2>3, NothingCounted
<1>3. CASE Create \/ Crash \/ Startup BY <1>1, <1>3, ProcessCounts
<1>4. ASSUME NEW a \in Runs, Fire(a) \/ Trigger(a) PROVE CountingInv'
  BY <1>1, <1>4, StartCounts
<1>5. ASSUME NEW a \in Runs, RunStep(a) PROVE CountingInv' BY <1>1, <1>5, RunStepCounts
<1>6. ASSUME NEW a \in Runs, Write(a) PROVE CountingInv'
  BY <1>1, <1>6, RunReadCounts, RunWriteCounts, RunRefusedCounts DEF Write
<1>7. ASSUME NEW a \in Ops,
             Pause(a) \/ Resume(a) \/ Update(a) \/ Delete(a) \/ Deletes(a) \/ Write(a)
      PROVE  CountingInv'
  BY <1>1, <1>7, OperationCounts
<1> QED BY <1>2, <1>3, <1>4, <1>5, <1>6, <1>7 DEF Next

\* The numbers of runs started, stored, called and counted agree with where the runs are, in
\* every state.
THEOREM RunsInvariant == Spec => [](RecordInv /\ CountingInv)
<1>1. Init => RecordInv /\ CountingInv BY InitRecordInv, InitCountingInv
<1>2. RecordInv /\ CountingInv /\ [Next]_vars => RecordInv' /\ CountingInv'
  BY NextRecordInv, NextCountingInv
<1> QED BY <1>1, <1>2, PTL DEF Spec

\* The runs of a job are counted, kept to max_runs, and stored as what they are, for any
\* number of runs and of persons (executeJob).
THEOREM RunsAreAlwaysCounted == Spec => []RunsAreCounted
<1>1. RecordInv /\ CountingInv => RunsAreCounted
  <2> SUFFICES ASSUME RecordInv, CountingInv PROVE RunsAreCounted OBVIOUS
  <2>1. /\ calls \in 0 .. started /\ open \in 0 .. started /\ started \in 0 .. MaxStarted
    BY Sizes, Bounds DEF CountingInv, Follows, Ranges, RecordInv, Types
  <2>2. TypeOK BY <2>1 DEF TypeOK, RecordInv, Types, Agents, CountingInv, Ranges
  <2>3. CountIsCalls BY DEF CountIsCalls, CountingInv, Counted, Calling
  <2>4. LimitIsKept
    BY Sizes, Bounds DEF LimitIsKept, CountingInv, Limited, Exempt, Ranges
  <2> QED BY <2>2, <2>3, <2>4 DEF RunsAreCounted, CountingInv
<1> QED BY <1>1, RunsInvariant, PTL

-----------------------------------------------------------------------------
(* The timer. A person who pauses or deletes the job stops the timer before the row says so:
   between the two there is no timer for a job that is active. *)

StopsFirst == {"pause", "delete"}
Stopping == \E a \in Ops : At(a) \in StopsFirst

OneOperation ==
  Without({"ops"}) => \A a, b \in Ops : At(a) # "idle" /\ At(b) # "idle" => a = b

ArmedIsActive ==
  up /\ Without({"ops"}) /\ timer = "armed" =>
    row.status = "active" /\ ~(kind = "one_shot" /\ due) /\ ~Stopping

ActiveIsArmed ==
  up /\ Without({"refused"}) /\ row.status = "active" /\ ~due /\ ~Stopping => timer = "armed"

DownIsIdle == ~up => \A a \in Agents : At(a) = "idle"

TimerInv == OneOperation /\ ArmedIsActive /\ ActiveIsArmed /\ DownIsIdle

LEMMA InitTimerInv == Init => TimerInv
<1> SUFFICES ASSUME Init PROVE TimerInv OBVIOUS
<1>1. \A a \in Agents : At(a) = "idle" BY DEF Init, At, Rest, Place, Agents
<1>2. timer = "none" /\ row.status = "none" BY DEF Init, NoRow
<1> QED BY <1>1, <1>2
        DEF TimerInv, OneOperation, ArmedIsActive, ActiveIsArmed, DownIsIdle, Agents

\* A run moves; the timer may fire, or be stopped because the job ends.
LEMMA RunTimer ==
  ASSUME RecordInv, TimerInv, upset \subseteq upset', NEW a \in Runs,
         Fire(a) \/ Trigger(a) \/ RunStep(a) \/ Write(a)
  PROVE  TimerInv'
<1>1. a \in Agents /\ a \notin Ops /\ At(a) \in RunPlaces
  BY CronJobsAssumption DEF Agents, RecordInv, Types
<1>2. \A b \in Ops : At(b)' = At(b)
  <2>1. ASSUME NEW p, pc' = [pc EXCEPT ![a] = p] PROVE \A b \in Ops : At(b)' = At(b)
    BY <1>1, <2>1 DEF At, RecordInv, Types, Agents
  <2>2. CASE Fire(a) \/ Trigger(a) BY <2>1, <2>2 DEF Fire, Trigger, StartRun
  <2>3. CASE RunStep(a)
    BY <2>1, <2>3 DEF RunStep, Load, StoreRun, Call, CloseRun, Decide, Goto, AgentFails
  <2>4. CASE Reads(a)
    <3>1. CASE row = NoRow BY <2>1, <2>4, <3>1 DEF Reads, Goto
    <3>2. CASE row # NoRow
      BY <1>1, <2>4, <3>2 DEF Reads, At, RecordInv, Types, Agents
    <3> QED BY <3>1, <3>2
  <2>5. CASE Writes(a) \/ Refused(a) BY <2>1, <2>5 DEF Writes, Refused, Goto
  <2> QED BY <2>2, <2>3, <2>4, <2>5 DEF Write
<1>3. up
  <2>1. CASE Fire(a) \/ Trigger(a) BY <2>1 DEF Fire, Trigger
  <2>2. CASE RunStep(a) \/ Write(a)
    <3>1. At(a) # "idle"
      BY <2>2
         DEF RunStep, Load, StoreRun, Call, CloseRun, Decide, Write, Reads, Writes, Refused, Patches
    <3> QED BY <1>1, <3>1 DEF TimerInv, DownIsIdle
  <2> QED BY <2>1, <2>2
<1>4. up' = up /\ kind' = kind
  BY DEF Fire, Trigger, RunStep, Load, StoreRun, Call, CloseRun, Decide, Write, Reads, Writes, Refused
<1>5. \/ timer' = timer /\ (due' <=> due) /\ row'.status = row.status
      \/ timer' = "spent" /\ due'
      \/ timer' = "none" /\ row'.status # "active"
  <2>1. CASE Fire(a)
    <3>1. CASE kind = "one_shot"
      <4>1. timer' = "spent" /\ due' BY <2>1, <3>1 DEF Fire
      <4> QED BY <4>1
    <3>2. CASE kind # "one_shot"
      <4>1. timer' = timer /\ row' = row BY <2>1, <3>2 DEF Fire
      <4>2. (due' <=> due) BY <2>1, <3>2 DEF Fire
      <4> QED BY <4>1, <4>2
    <3> QED BY <3>1, <3>2
  <2>2. CASE Trigger(a) \/ RunStep(a) \/ Refused(a)
    <3>1. timer' = timer /\ due' = due /\ row' = row
      BY <2>2 DEF Trigger, RunStep, Load, StoreRun, Call, CloseRun, Decide, Refused
    <3> QED BY <3>1
  <2>3. CASE Reads(a)
    <3>1. row' = row /\ due' = due BY <2>3 DEF Reads
    <3>2. timer' = timer \/ (timer' = "none" /\ row = NoRow) BY <2>3 DEF Reads
    <3> QED BY <3>1, <3>2 DEF NoRow
  <2>4. CASE Writes(a)
    <3>1. At(a) \notin {"pause", "resume", "update"} BY <1>1 DEF RunPlaces
    <3>2. CASE At(a) \in {"finish", "expire"}
      <4>1. timer' = "none" BY <2>4, <3>2 DEF Writes
      <4>2. row'.status = "completed" BY <1>1, <2>4, <3>2, WhatIsWritten
      <4> QED BY <4>1, <4>2
    <3>3. CASE At(a) \notin {"finish", "expire"}
      <4>1. timer' = timer BY <2>4, <3>1, <3>3 DEF Writes
      <4>2. row'.status = row.status BY <1>1, <2>4, <3>1, <3>3, WhatIsWritten
      <4>3. due' = due BY <2>4, <3>1 DEF Writes
      <4> QED BY <4>1, <4>2, <4>3
    <3> QED BY <3>2, <3>3
  <2> QED BY <2>1, <2>2, <2>3, <2>4 DEF Write
<1>6. OneOperation' BY <1>2 DEF TimerInv, OneOperation, Without
<1>7. Stopping' <=> Stopping BY <1>2 DEF Stopping
<1>8. ArmedIsActive'
  BY <1>3, <1>4, <1>5, <1>7 DEF TimerInv, ArmedIsActive, Without
<1>9. ActiveIsArmed'
  BY <1>3, <1>4, <1>5, <1>7 DEF TimerInv, ActiveIsArmed, Without
<1>10. DownIsIdle' BY <1>3, <1>4 DEF DownIsIdle
<1> QED BY <1>6, <1>8, <1>9, <1>10 DEF TimerInv

\* An operation moves: the others stay where they are.
LEMMA OperationMoves ==
  ASSUME RecordInv, NEW a \in Ops, NEW p, pc' = [pc EXCEPT ![a] = p]
  PROVE  /\ At(a)' = p.at /\ \A b \in Agents : b # a => At(b)' = At(b)
BY DEF At, RecordInv, Types, Agents

\* A person begins: the timer is stopped, or left.
LEMMA BeginTimer ==
  ASSUME RecordInv, TimerInv, upset \subseteq upset', NEW a \in Ops,
         Pause(a) \/ Resume(a) \/ Update(a) \/ Delete(a)
  PROVE  TimerInv'
<1>1. PICK p :
        /\ pc' = [pc EXCEPT ![a] = p] /\ p.at \in {"pause", "resume", "update", "delete"}
        /\ p.at \in StopsFirst => timer' = "none"
        /\ p.at \notin StopsFirst => timer' = timer
  <2>1. CASE Pause(a) \/ Delete(a)
    <3>1. PICK place \in {"pause", "delete"} : pc' = [pc EXCEPT ![a] = Place(place, pc[a].seen)]
      BY <2>1 DEF Pause, Delete, Goto
    <3>2. timer' = "none" BY <2>1 DEF Pause, Delete
    <3>3. Place(place, pc[a].seen).at = place BY DEF Place
    <3> QED BY <3>1, <3>2, <3>3 DEF StopsFirst
  <2>2. CASE Resume(a)
    <3>1. pc' = [pc EXCEPT ![a] = Place("resume", pc[a].seen)] /\ timer' = timer
      BY <2>2 DEF Resume, Goto
    <3>2. Place("resume", pc[a].seen).at = "resume" BY DEF Place
    <3> QED BY <3>1, <3>2 DEF StopsFirst
  <2>3. CASE Update(a)
    <3> DEFINE p == [at |-> "update", read |-> row, seen |-> 0]
    <3>1. pc' = [pc EXCEPT ![a] = p] /\ timer' = timer BY <2>3 DEF Update
    <3>2. p.at = "update" OBVIOUS
    <3> QED BY <3>1, <3>2 DEF StopsFirst
  <2> QED BY <2>1, <2>2, <2>3
<1>2. /\ up /\ row' = row /\ UNCHANGED <<up, due, kind>> /\ At(a) = "idle"
      /\ "ops" \in upset' \/ \A b \in Ops : At(b) = "idle"
  BY DEF Pause, Resume, Update, Delete, Begin, HappensIf, Happens, Busy
<1>3. /\ At(a)' = p.at /\ \A b \in Agents : b # a => At(b)' = At(b)
  BY <1>1, OperationMoves
<1>4. OneOperation' BY <1>2, <1>3 DEF OneOperation, Without, Agents
<1>5. CASE p.at \in StopsFirst
  <2>1. Stopping' BY <1>3, <1>5 DEF Stopping
  <2>2. ArmedIsActive' /\ ActiveIsArmed' BY <1>1, <1>5, <2>1 DEF ArmedIsActive, ActiveIsArmed
  <2> QED BY <1>2, <1>4, <2>2 DEF TimerInv, DownIsIdle
<1>6. CASE p.at \notin StopsFirst
  <2>1. Stopping' <=> Stopping BY <1>2, <1>3, <1>6 DEF Stopping, StopsFirst, Agents
  <2>2. ArmedIsActive' /\ ActiveIsArmed'
    BY <1>1, <1>2, <1>6, <2>1 DEF TimerInv, ArmedIsActive, ActiveIsArmed, Without
  <2> QED BY <1>2, <1>4, <2>2 DEF TimerInv, DownIsIdle
<1> QED BY <1>5, <1>6

\* A person goes on: the row comes to say what was done to the timer, or the other way round.
LEMMA EndTimer ==
  ASSUME RecordInv, TimerInv, upset \subseteq upset', NEW a \in Ops, Deletes(a) \/ Write(a)
  PROVE  TimerInv'
<1>1. /\ At(a) \in OpPlaces /\ At(a) # "idle" /\ a \in Agents
      /\ UNCHANGED <<up, kind>>
  BY DEF RecordInv, Types, Agents, Deletes, Write, Reads, Writes, Refused, Patches
<1>2. up BY <1>1 DEF TimerInv, DownIsIdle
<1>3. Without({"ops"}) => \A b \in Ops : b # a => At(b) = "idle"
  BY <1>1 DEF TimerInv, OneOperation
<1>4. Without({"ops"})' => Without({"ops"}) BY DEF Without
<1>5. CASE Reads(a) /\ row # NoRow
  <2>1. \A b \in Agents : At(b)' = At(b)
    BY <1>1, <1>5 DEF Reads, At, RecordInv, Types
  <2>2. row' = row /\ timer' = timer /\ due' = due /\ upset' = upset
    BY <1>5 DEF Reads
  <2>3. Stopping' <=> Stopping BY <2>1 DEF Stopping, Agents
  <2> QED BY <1>1, <1>2, <2>1, <2>2, <2>3
          DEF TimerInv, OneOperation, ArmedIsActive, ActiveIsArmed, DownIsIdle, Without, Agents
<1>6. CASE ~(Reads(a) /\ row # NoRow)
  <2>1. PICK p : pc' = [pc EXCEPT ![a] = p] /\ p.at = "idle"
    <3>1. Then(At(a)) = "idle" BY <1>1 DEF Then, OpPlaces
    <3>2. \A seen : Place("idle", seen).at = "idle" BY DEF Place
    <3>3. \E seen : pc' = [pc EXCEPT ![a] = Place("idle", seen)]
      BY <1>6, <3>1 DEF Deletes, Write, Reads, Writes, Refused, Goto, Rest
    <3> QED BY <3>2, <3>3
  <2>2. At(a)' = "idle" /\ \A b \in Agents : b # a => At(b)' = At(b)
    BY <2>1, OperationMoves
  <2>3. OneOperation' BY <1>3, <1>4, <2>2 DEF OneOperation, Agents
  <2>4. Without({"ops"}) => ~Stopping'
    BY <1>3, <2>2 DEF Stopping, StopsFirst, Agents
  <2>5. Stopping /\ ~Stopping' => At(a) \in StopsFirst BY <2>2 DEF Stopping, Agents
  <2>6. At(a) \in StopsFirst => Stopping BY DEF Stopping
  <2>7. CASE Reads(a) \/ Deletes(a)
    <3>1. timer' = timer BY <1>1, <1>6, <2>7 DEF Reads, Deletes, OpPlaces
    <3>2. row'.status = "none" BY <1>6, <2>7 DEF Reads, Deletes, NoRow
    <3>3. Without({"ops"}) => timer # "armed"
      <4>1. CASE Reads(a)
        <5>1. row.status = "none" BY <1>6, <4>1 DEF NoRow
        <5> QED BY <1>2, <5>1 DEF TimerInv, ArmedIsActive
      <4>2. CASE Deletes(a)
        <5>1. Stopping BY <2>6, <4>2 DEF Deletes, StopsFirst
        <5> QED BY <1>2, <5>1 DEF TimerInv, ArmedIsActive
      <4> QED BY <2>7, <4>1, <4>2
    <3> QED BY <1>1, <1>2, <1>4, <2>3, <3>1, <3>2, <3>3
            DEF TimerInv, ArmedIsActive, ActiveIsArmed, DownIsIdle
  <2>8. CASE Refused(a)
    <3>1. row' = row /\ timer' = timer /\ due' = due /\ "refused" \in upset'
      BY <2>8 DEF Refused
    <3> QED BY <1>1, <1>2, <1>4, <2>3, <2>4, <3>1
            DEF TimerInv, ArmedIsActive, ActiveIsArmed, DownIsIdle, Without
  <2>9. CASE Writes(a)
    <3>1. At(a) \in {"pause", "resume", "update"} /\ upset \subseteq upset'
      BY <1>1, <2>9, WriteIsAtomic DEF OpPlaces, Patches
    <3>2. CASE At(a) = "pause"
      <4>1. row'.status = "paused" BY <1>1, <2>9, <3>2, WhatIsWritten
      <4>2. timer' = timer BY <2>9, <3>2 DEF Writes
      <4>3. Stopping BY <2>6, <3>2 DEF StopsFirst
      <4> QED BY <1>1, <1>2, <1>4, <2>3, <4>1, <4>2, <4>3
              DEF TimerInv, ArmedIsActive, ActiveIsArmed, DownIsIdle
    <3>3. CASE At(a) \in {"resume", "update"} /\ row'.status = "active"
      <4>1. timer' = Registered(due') BY <2>9, <3>3 DEF Writes
      <4>2. timer' = "armed" => ~(kind' = "one_shot" /\ due') BY <1>1, <4>1 DEF Registered
      <4>3. ~due' => timer' = "armed" BY <4>1 DEF Registered
      <4> QED BY <1>1, <1>2, <1>4, <2>3, <2>4, <3>3, <4>2, <4>3
              DEF TimerInv, ArmedIsActive, ActiveIsArmed, DownIsIdle
    <3>4. CASE At(a) \in {"resume", "update"} /\ row'.status # "active"
      <4>1. timer' = timer BY <2>9, <3>4 DEF Writes
      <4>2. row'.status = row.status BY <1>1, <2>9, <3>4, WhatIsWritten
      <4> QED BY <1>1, <1>2, <1>4, <2>3, <3>4, <4>1, <4>2
              DEF TimerInv, ArmedIsActive, ActiveIsArmed, DownIsIdle
    <3> QED BY <3>1, <3>2, <3>3, <3>4
  <2> QED BY <1>6, <2>7, <2>8, <2>9 DEF Write
<1> QED BY <1>5, <1>6

LEMMA ProcessTimer ==
  ASSUME RecordInv, CountingInv, TimerInv, Create \/ Crash \/ Startup
  PROVE  TimerInv'
<1>1. CASE Create
  <2>1. /\ up' = up /\ up /\ row'.status = "active" /\ pc' = pc /\ UNCHANGED <<kind, due, upset>>
        /\ timer' = Registered(due)
    BY <1>1 DEF Create
  <2>2. \A a \in Agents : At(a)' = "idle"
    BY <1>1, <2>1 DEF Create, CountingInv, Untouched, At
  <2>3. ~Stopping' BY <2>2 DEF Stopping, StopsFirst, Agents
  <2>4. /\ timer' = "armed" => ~(kind' = "one_shot" /\ due')
        /\ ~due' => timer' = "armed"
    BY <2>1 DEF Registered
  <2> QED BY <2>1, <2>2, <2>3, <2>4
          DEF TimerInv, OneOperation, ArmedIsActive, ActiveIsArmed, DownIsIdle, Agents
<1>2. CASE Crash
  <2>1. up' = FALSE /\ \A a \in Agents : At(a)' = "idle"
    BY <1>2 DEF Crash, At, Rest, Place, Agents
  <2> QED BY <2>1
          DEF TimerInv, OneOperation, ArmedIsActive, ActiveIsArmed, DownIsIdle, Agents
<1>3. CASE Startup
  <2>1. /\ ~up /\ up' /\ row' = row /\ pc' = pc /\ kind' = kind
        /\ timer' = IF row.status = "active" THEN Registered(due') ELSE "none"
    BY <1>3 DEF Startup
  <2>2. \A a \in Agents : At(a)' = "idle" BY <2>1 DEF TimerInv, DownIsIdle, At
  <2>3. ~Stopping' BY <2>2 DEF Stopping, StopsFirst, Agents
  <2>4. /\ timer' = "armed" => row'.status = "active" /\ ~(kind' = "one_shot" /\ due')
        /\ row'.status = "active" /\ ~due' => timer' = "armed"
    BY <2>1 DEF Registered
  <2> QED BY <2>1, <2>2, <2>3, <2>4
          DEF TimerInv, OneOperation, ArmedIsActive, ActiveIsArmed, DownIsIdle, Agents
<1> QED BY <1>1, <1>2, <1>3

\* The timer of the process agrees with the stored job whenever no person is at work on it,
\* for any number of runs and of persons, one at a time (register, stopJob, startup).
THEOREM TimerAlwaysAgrees == Spec => []TimerAgrees
<1>1. RecordInv /\ CountingInv /\ TimerInv /\ [Next]_vars => TimerInv'
  <2> SUFFICES ASSUME RecordInv, CountingInv, TimerInv, [Next]_vars PROVE TimerInv' OBVIOUS
  <2>1. upset \subseteq upset' BY NextRanges
  <2>2. CASE UNCHANGED vars
    BY <2>2
       DEF vars, TimerInv, OneOperation, ArmedIsActive, ActiveIsArmed, DownIsIdle, Stopping, At,
           Without
  <2>3. CASE Create \/ Crash \/ Startup BY <2>3, ProcessTimer
  <2>4. ASSUME NEW a \in Runs, Fire(a) \/ Trigger(a) \/ RunStep(a) \/ Write(a) PROVE TimerInv'
    BY <2>1, <2>4, RunTimer
  <2>5. ASSUME NEW a \in Ops, Pause(a) \/ Resume(a) \/ Update(a) \/ Delete(a) PROVE TimerInv'
    BY <2>1, <2>5, BeginTimer
  <2>6. ASSUME NEW a \in Ops, Deletes(a) \/ Write(a) PROVE TimerInv'
    BY <2>1, <2>6, EndTimer
  <2> QED BY <2>2, <2>3, <2>4, <2>5, <2>6 DEF Next
<1>2. TimerInv => TimerAgrees
  <2>1. ~Busy(Ops) => ~Stopping BY DEF Busy, Stopping, StopsFirst
  <2> QED BY <2>1 DEF TimerInv, ArmedIsActive, ActiveIsArmed, TimerAgrees
<1> QED BY <1>1, <1>2, InitTimerInv, RunsInvariant, PTL DEF Spec
=============================================================================
