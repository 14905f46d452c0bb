------------------------ MODULE ExecutionSlotsProofs ------------------------
(***************************************************************************)
(* Safety of ExecutionSlots for any sets of calls, sessions, paths and     *)
(* signals and any limit.  The lemmas of the first part are about one      *)
(* drain: what the set of calls it dispatches satisfies.  The second part  *)
(* is the inductive invariant.                                             *)
(***************************************************************************)
EXTENDS ExecutionSlots, FiniteSetTheorems, TLAPS

-----------------------------------------------------------------------------
(* One drain *)

\* The calls of S were enqueued with their queue objects, and no two
\* enqueued calls arrived at once.
WellFormed(c, S) ==
  /\ S \subseteq Jobs
  /\ \A j \in S : c[j] \in Call /\ c[c[j].queue] \in Call
  /\ \A i, j \in Jobs : c[i] \in Call /\ c[j] \in Call /\ c[i].ticket = c[j].ticket => i = j

\* The loops visit the waiters one at a time: of two, one comes first.
LEMMA BeforeTotal ==
  ASSUME NEW c, NEW S, WellFormed(c, S), NEW i \in S, NEW j \in S, i # j
  PROVE  Before(c, i, j) \/ Before(c, j, i)
BY DEF WellFormed, Before, Call

LEMMA BeforeTransitive ==
  ASSUME NEW c, NEW S, WellFormed(c, S), NEW i \in S, NEW j \in S, NEW k \in S,
         Before(c, i, j), Before(c, j, k)
  PROVE  Before(c, i, k) /\ ~ Before(c, k, i) /\ ~ Before(c, i, i)
BY DEF WellFormed, Before, Call

\* No call is dispatched against a lock, neither one that was held before
\* the drain nor one the drain itself hands out.
LEMMA DrainExclusive ==
  ASSUME NEW c, NEW W, WellFormed(c, W), NEW D \in SUBSET W, NEW Q, NEW act, NEW locks,
         IsDrain(c, D, W, Q, act, locks)
  PROVE  /\ \A j \in D : c[j].queue \in Q /\ ~ Blocked(c[j].writer, locks)
         /\ \A i, j \in D : i # j /\ c[i].writer # NoWriter =>
              ~ Blocked(c[j].writer, {c[i].writer})
<1>1. ASSUME NEW j \in D
      PROVE  c[j].queue \in Q /\ ~ Blocked(c[j].writer, locks)
  BY DEF IsDrain, Dispatchable, Blocked
<1>2. ASSUME NEW i \in D, NEW j \in D, Before(c, i, j), c[i].writer # NoWriter
      PROVE  ~ Blocked(c[j].writer, {c[i].writer})
  BY <1>2 DEF IsDrain, Dispatchable, Blocked, WritersOf
<1>3. ASSUME NEW p, NEW q PROVE Collides(p, q) => Collides(q, p)
  BY DEF Collides
<1>4. ASSUME NEW i \in D, NEW j \in D, i # j, c[i].writer # NoWriter
      PROVE  ~ Blocked(c[j].writer, {c[i].writer})
  <2>1. CASE Before(c, i, j) BY <2>1, <1>2, <1>4
  <2>2. CASE Before(c, j, i)
    <3>1. CASE c[j].writer = NoWriter BY <3>1 DEF Blocked
    <3>2. CASE c[j].writer # NoWriter
      BY <3>2, <2>2, <1>2, <1>3, <1>4 DEF Blocked
    <3> QED BY <3>1, <3>2
  <2> QED BY <2>1, <2>2, <1>4, BeforeTotal
<1> QED BY <1>1, <1>4

\* A drain does not fill a queue object beyond the limit: the number of
\* calls dispatched before it in its queue tells each dispatched call apart,
\* and it is less than the room there was.
LEMMA DrainRoom ==
  ASSUME NEW c, NEW W, WellFormed(c, W), NEW D \in SUBSET W, NEW Q, NEW locks,
         NEW act \in [Jobs -> Nat], IsDrain(c, D, W, Q, act, locks),
         NEW q \in Jobs, act[q] <= Limit
  PROVE  act[q] + Cardinality(InQueue(c, D, q)) <= Limit
<1> DEFINE Dq == InQueue(c, D, q)
           earlier(j) == InQueue(c, {k \in D : Before(c, k, j)}, q)
           rank == [j \in Dq |-> Cardinality(earlier(j))]
           room == Limit - act[q]
<1>1. Dq \subseteq Jobs /\ IsFiniteSet(Dq)
  BY JobsAssumption, FS_Subset DEF InQueue, WellFormed
<1>2. ASSUME NEW j \in Dq
      PROVE  /\ IsFiniteSet(earlier(j)) /\ earlier(j) \subseteq Dq
             /\ Cardinality(earlier(j)) \in Nat
             /\ act[q] + Cardinality(earlier(j)) < Limit
  <2>1. earlier(j) \subseteq Dq BY DEF InQueue
  <2>2. IsFiniteSet(earlier(j)) BY <1>1, <2>1, FS_Subset
  <2>3. Cardinality(earlier(j)) \in Nat BY <2>2, FS_CardinalityType
  <2>4. act[q] + Cardinality(earlier(j)) < Limit
    BY DEF InQueue, IsDrain, Dispatchable
  <2> QED BY <2>1, <2>2, <2>3, <2>4
<1>3. ASSUME NEW i \in Dq, NEW j \in Dq, Before(c, i, j)
      PROVE  rank[i] < rank[j]
  <2>1. i \in D /\ j \in D /\ c[i].queue = q BY DEF InQueue
  <2>2. earlier(i) \cup {i} \subseteq earlier(j)
    BY <1>3, <2>1, BeforeTransitive DEF InQueue
  <2>3. i \notin earlier(i) BY <1>3, <2>1, BeforeTransitive DEF InQueue
  <2>4. /\ IsFiniteSet(earlier(i) \cup {i})
        /\ Cardinality(earlier(i) \cup {i}) = Cardinality(earlier(i)) + 1
    BY <1>2, <2>3, FS_AddElement
  <2>5. Cardinality(earlier(i) \cup {i}) <= Cardinality(earlier(j))
    BY <1>2, <2>2, FS_Subset
  <2> QED BY <1>2, <2>4, <2>5
<1>4. room \in Nat BY LimitAssumption
<1>5. rank \in [Dq -> 0 .. (room - 1)]
  BY <1>2, <1>4, LimitAssumption
<1>6. IsFiniteSet(0 .. (room - 1)) /\ Cardinality(0 .. (room - 1)) = room
  <2> DEFINE last == room - 1
  <2>1. last \in Int /\ (IF 0 > last THEN 0 ELSE last - 0 + 1) = room BY <1>4
  <2> HIDE DEF last
  <2>2. /\ IsFiniteSet(0 .. last)
        /\ Cardinality(0 .. last) = IF 0 > last THEN 0 ELSE last - 0 + 1
    <3>1. 0 \in Int OBVIOUS
    <3> QED BY <2>1, <3>1, FS_Interval, Zenon
  <2> QED BY <2>1, <2>2 DEF last
<1>7. \A i, j \in Dq : i # j => rank[i] # rank[j]
  <2>1. SUFFICES ASSUME NEW i \in Dq, NEW j \in Dq, i # j PROVE rank[i] # rank[j]
    OBVIOUS
  <2>2. i \in W /\ j \in W BY DEF InQueue
  <2>3. Before(c, i, j) \/ Before(c, j, i) BY <2>1, <2>2, BeforeTotal
  <2>4. rank[i] \in Nat /\ rank[j] \in Nat BY <1>2
  <2> QED BY <1>3, <2>3, <2>4
<1>8. Cardinality(Dq) \in Nat BY <1>1, FS_CardinalityType
<1>9. ~ (room < Cardinality(Dq))
  <2> HIDE DEF rank, room, Dq
  <2> QED BY <1>1, <1>5, <1>6, <1>7, FS_PigeonHole
<1> QED BY <1>4, <1>8, <1>9, LimitAssumption

\* A waiter of a drained queue object that is left behind is left for a
\* reason that still holds when the drain is over.
LEMMA DrainLeaves ==
  ASSUME NEW c, NEW W, WellFormed(c, W), NEW D \in SUBSET W, NEW Q, NEW locks,
         NEW act \in [Jobs -> Nat], IsDrain(c, D, W, Q, act, locks),
         NEW j \in W, j \notin D, c[j].queue \in Q
  PROVE  \/ Counted(c, act, D)[c[j].queue] >= Limit
         \/ Blocked(c[j].writer, locks \cup WritersOf(c, D))
<1> DEFINE q == c[j].queue
           earlier == {k \in D : Before(c, k, j)}
<1>1. q \in Jobs BY DEF WellFormed, Call
<1>2. /\ InQueue(c, earlier, q) \in SUBSET InQueue(c, D, q)
      /\ IsFiniteSet(InQueue(c, D, q))
  BY JobsAssumption, FS_Subset DEF InQueue, WellFormed
<1>3. /\ Cardinality(InQueue(c, earlier, q)) \in Nat
      /\ Cardinality(InQueue(c, D, q)) \in Nat
      /\ Cardinality(InQueue(c, earlier, q)) <= Cardinality(InQueue(c, D, q))
  BY <1>2, FS_Subset, FS_CardinalityType
<1>4. ~ Dispatchable(c, D, j, act, locks) BY DEF IsDrain
<1>5. CASE Blocked(c[j].writer, locks \cup WritersOf(c, earlier))
  BY <1>5 DEF Blocked, WritersOf
<1>6. CASE ~ (act[q] + Cardinality(InQueue(c, earlier, q)) < Limit)
  BY <1>6, <1>1, <1>3, LimitAssumption DEF Counted
<1> QED BY <1>4, <1>5, <1>6 DEF Dispatchable

LEMMA DisjointCount ==
  ASSUME NEW A, NEW B, IsFiniteSet(A), IsFiniteSet(B), A \cap B = {}
  PROVE  /\ Cardinality(A \cup B) = Cardinality(A) + Cardinality(B)
         /\ Cardinality(A) \in Nat /\ Cardinality(B) \in Nat
<1>1. Cardinality(A \cup B) = Cardinality(A) + Cardinality(B) - Cardinality(A \cap B)
  BY FS_Union
<1>2. Cardinality(A \cap B) = 0 BY FS_EmptySet
<1>3. Cardinality(A) \in Nat /\ Cardinality(B) \in Nat BY FS_CardinalityType
<1> QED BY <1>1, <1>2, <1>3

\* The calls R are admitted: their locks are held and exclude each other,
\* their places are counted and within the limit.
Admitted(c, R, act, locks) ==
  /\ locks = WritersOf(c, R)
  /\ \A q \in Jobs : act[q] = Cardinality(InQueue(c, R, q)) /\ act[q] <= Limit
  /\ \A i, j \in R : i # j /\ c[i].writer # NoWriter =>
       ~ Blocked(c[j].writer, {c[i].writer})

\* What a drain dispatches can be admitted beside what already is.
LEMMA DrainAdmits ==
  ASSUME NEW c, NEW W, NEW R, WellFormed(c, W), R \subseteq Jobs, W \cap R = {},
         NEW D \in SUBSET W, NEW Q, NEW locks, NEW act \in [Jobs -> Nat],
         Admitted(c, R, act, locks), IsDrain(c, D, W, Q, act, locks)
  PROVE  Admitted(c, R \cup D, Counted(c, act, D), locks \cup WritersOf(c, D))
<1>1. locks \cup WritersOf(c, D) = WritersOf(c, R \cup D)
  BY DEF Admitted, WritersOf
<1>2. ASSUME NEW q \in Jobs
      PROVE  /\ Counted(c, act, D)[q] = Cardinality(InQueue(c, R \cup D, q))
             /\ Counted(c, act, D)[q] <= Limit
  <2>1. act[q] = Cardinality(InQueue(c, R, q)) /\ act[q] <= Limit BY DEF Admitted
  <2>2. /\ InQueue(c, R \cup D, q) = InQueue(c, R, q) \cup InQueue(c, D, q)
        /\ InQueue(c, R, q) \cap InQueue(c, D, q) = {}
    BY DEF InQueue
  <2>3. IsFiniteSet(InQueue(c, R, q)) /\ IsFiniteSet(InQueue(c, D, q))
    BY JobsAssumption, FS_Subset DEF InQueue, WellFormed
  <2>4. /\ Cardinality(InQueue(c, R \cup D, q)) =
             Cardinality(InQueue(c, R, q)) + Cardinality(InQueue(c, D, q))
        /\ Cardinality(InQueue(c, R, q)) \in Nat /\ Cardinality(InQueue(c, D, q)) \in Nat
    BY <2>2, <2>3, DisjointCount
  <2>6. Counted(c, act, D)[q] = act[q] + Cardinality(InQueue(c, D, q)) BY DEF Counted
  <2>7. act[q] + Cardinality(InQueue(c, D, q)) <= Limit BY <2>1, DrainRoom
  <2> QED BY <2>1, <2>4, <2>6, <2>7
<1>3. ASSUME NEW i \in R \cup D, NEW j \in R \cup D, i # j, c[i].writer # NoWriter
      PROVE  ~ Blocked(c[j].writer, {c[i].writer})
  <2>1. CASE i \in R /\ j \in R BY <2>1, <1>3 DEF Admitted
  <2>2. CASE i \in D /\ j \in D BY <2>2, <1>3, DrainExclusive
  <2>3. CASE i \in R /\ j \in D
    <3>1. c[i].writer \in locks BY <2>3, <1>3 DEF Admitted, WritersOf
    <3>2. ~ Blocked(c[j].writer, locks) BY <2>3, DrainExclusive
    <3> QED BY <3>1, <3>2 DEF Blocked
  <2>4. CASE i \in D /\ j \in R
    <3>1. ~ Blocked(c[i].writer, locks) BY <2>4, DrainExclusive
    <3>2. CASE c[j].writer = NoWriter BY <3>2 DEF Blocked
    <3>3. CASE c[j].writer # NoWriter
      <4>1. c[j].writer \in locks BY <2>4, <3>3 DEF Admitted, WritersOf
      <4>2. ~ Collides(c[j].writer, c[i].writer) BY <3>1, <4>1, <1>3 DEF Blocked
      <4> QED BY <4>2 DEF Blocked, Collides
    <3> QED BY <3>2, <3>3
  <2> QED BY <2>1, <2>2, <2>3, <2>4
<1> QED BY <1>1, <1>2, <1>3 DEF Admitted

\* After a drain every waiter has a reason to wait, if those whose queue
\* objects were not drained had one before.
LEMMA DrainJustifies ==
  ASSUME NEW c, NEW W, WellFormed(c, W), NEW D \in SUBSET W, NEW Q, NEW locks,
         NEW act \in [Jobs -> Nat], IsDrain(c, D, W, Q, act, locks),
         NEW j \in W \ D,
         c[j].queue \notin Q => act[c[j].queue] >= Limit \/ Blocked(c[j].writer, locks)
  PROVE  \/ Counted(c, act, D)[c[j].queue] >= Limit
         \/ Blocked(c[j].writer, locks \cup WritersOf(c, D))
<1>1. CASE c[j].queue \in Q BY <1>1, DrainLeaves
<1>2. CASE c[j].queue \notin Q
  <2>1. c[j].queue \in Jobs BY DEF WellFormed, Call
  <2>2. IsFiniteSet(InQueue(c, D, c[j].queue))
    BY JobsAssumption, FS_Subset DEF InQueue, WellFormed
  <2>3. Cardinality(InQueue(c, D, c[j].queue)) \in Nat BY <2>2, FS_CardinalityType
  <2>4. CASE act[c[j].queue] >= Limit
    BY <2>1, <2>3, <2>4, LimitAssumption DEF Counted
  <2>5. CASE Blocked(c[j].writer, locks) BY <2>5 DEF Blocked
  <2> QED BY <1>2, <2>4, <2>5
<1> QED BY <1>1, <1>2

-----------------------------------------------------------------------------
(* The invariant *)

LEMMA CallOfWaiter ==
  ASSUME TypeOK, NEW j \in Pending \cup Running
  PROVE  j \in Jobs /\ call[j] \in Call /\ pc[j] \in {"pending", "granted", "working"}
BY DEF TypeOK, Pending, Running, PC

LEMMA IInvAdmitted ==
  ASSUME IInv
  PROVE  /\ Admitted(call, Running, active, held)
         /\ WellFormed(call, Pending \cup Running)
         /\ Pending \cap Running = {}
<1>1. Admitted(call, Running, active, held)
  BY DEF IInv, Admitted, Locks, Counts, WriterExclusion
<1>2. Pending \cap Running = {} BY DEF Pending, Running
<1>3. WellFormed(call, Pending \cup Running)
  BY CallOfWaiter DEF IInv, WellFormed, Tickets, QueueObjects
<1> QED BY <1>1, <1>2, <1>3

LEMMA InitIInv == Init => IInv
<1> SUFFICES ASSUME Init PROVE IInv
  OBVIOUS
<1>1. Pending = {} /\ Running = {} BY DEF Init, Pending, Running
<1>2. TypeOK BY DEF Init, TypeOK, PC
<1>3. Tickets BY NoCallAssumption DEF Init, Tickets
<1>4. QueueObjects BY <1>1 DEF Init, QueueObjects
<1>5. Locks BY <1>1 DEF Init, Locks, WritersOf
<1>6. Counts
  <2>1. \A q \in Jobs : InQueue(call, Running, q) = {} BY <1>1 DEF InQueue
  <2> QED BY <2>1, FS_EmptySet, LimitAssumption DEF Init, Counts
<1>7. Waiters /\ WriterExclusion /\ NoDeafWaiter
  BY <1>1 DEF Waiters, WriterExclusion, NoDeafWaiter
<1> QED BY <1>2, <1>3, <1>4, <1>5, <1>6, <1>7 DEF IInv

LEMMA AdmittedNext ==
  ASSUME Admitted(call', Running', active', held')
  PROVE  Locks' /\ Counts' /\ WriterExclusion'
BY DEF Admitted, Locks, Counts, WriterExclusion

LEMMA SubmitIInv ==
  ASSUME IInv, NEW j \in Jobs, NEW s \in Sessions, NEW w \in Paths \cup {NoWriter},
         NEW g \in Signals \cup {NoSignal}, Submit(j, s, w, g)
  PROVE  IInv'
<1> DEFINE q == IF queues[s] = NoQueue THEN j ELSE queues[s]
           c == [call EXCEPT ![j] = [session |-> s, writer |-> w, signal |-> g,
                                     ticket |-> clock, queue |-> q]]
           W == Pending \cup {j}
<1>1. PICK D \in SUBSET W :
        /\ IsDrain(c, D, W, {q}, active, held)
        /\ pc' = Dispatch(D, [pc EXCEPT ![j] = "pending"])
        /\ call' = c
        /\ queues' = [queues EXCEPT ![s] = q]
        /\ active' = Counted(c, active, D)
        /\ held' = held \cup WritersOf(c, D)
        /\ clock' = clock + 1
        /\ aborted' = aborted
  BY DEF Submit
<1>2. TypeOK /\ pc[j] = "new" /\ g \notin aborted BY DEF IInv, Submit, NotAborted
<1>3. j \notin Pending /\ j \notin Running BY <1>2 DEF Pending, Running
<1>4. q \in Jobs BY <1>2, NoQueueAssumption DEF TypeOK
<1>5. /\ c \in [Jobs -> Call \cup {NoCall}]
      /\ c[j] = [session |-> s, writer |-> w, signal |-> g, ticket |-> clock, queue |-> q]
      /\ c[j] \in Call
      /\ \A i \in Jobs \ {j} : c[i] = call[i]
  BY <1>2, <1>4 DEF TypeOK, Call
<1>6. queues[s] # NoQueue => \E i \in Pending \cup Running :
        call[i].session = s /\ call[i].queue = q /\ call[q] \in Call /\ call[q].session = s
  BY DEF IInv, QueueObjects
<1>7. c[q] \in Call /\ c[q].session = s
  BY <1>4, <1>5, <1>6
<1> HIDE DEF c, q
<1>8. ASSUME NEW i \in Pending \cup Running
      PROVE  /\ i \in Jobs \ {j} /\ c[i] = call[i] /\ c[i] \in Call
             /\ c[i].queue \in Jobs /\ c[c[i].queue] \in Call
             /\ c[c[i].queue].session = c[i].session
             /\ queues[c[i].session] = c[i].queue
  <2>1. i \in Jobs /\ call[i] \in Call BY <1>2, CallOfWaiter
  <2>2. i # j BY <1>3
  <2>3. c[i] = call[i] BY <1>5, <2>1, <2>2
  <2>4. call[i].queue \in Jobs BY <2>1 DEF Call
  <2>5. /\ call[call[i].queue] \in Call /\ call[call[i].queue].session = call[i].session
        /\ queues[call[i].session] = call[i].queue
    BY DEF IInv, QueueObjects
  <2>6. call[i].queue # j BY <1>2, <2>5, NoCallAssumption DEF IInv, Tickets
  <2>7. c[call[i].queue] = call[call[i].queue] BY <1>5, <2>4, <2>6
  <2> QED BY <2>1, <2>2, <2>3, <2>4, <2>5, <2>7
<1>9. /\ \A i \in Jobs : c[i] \in Call => c[i].ticket < clock + 1
      /\ \A i, k \in Jobs : c[i] \in Call /\ c[k] \in Call /\ c[i].ticket = c[k].ticket => i = k
  <2>1. clock \in Nat BY <1>2 DEF TypeOK
  <2>2. c[j].ticket = clock BY <1>5
  <2>3. ASSUME NEW i \in Jobs \ {j}, c[i] \in Call PROVE c[i].ticket < clock /\ c[i].ticket \in Nat
    BY <1>5, <2>3 DEF IInv, Tickets, Call
  <2>4. \A i, k \in Jobs \ {j} : c[i] \in Call /\ c[k] \in Call /\ c[i].ticket = c[k].ticket => i = k
    BY <1>5 DEF IInv, Tickets
  <2> QED BY <2>1, <2>2, <2>3, <2>4
<1>10. WellFormed(c, W)
  <2>1. W \subseteq Jobs BY DEF Pending
  <2>2. c[j].queue = q BY <1>5
  <2> QED BY <2>1, <2>2, <1>5, <1>7, <1>8, <1>9 DEF WellFormed
<1>11. Admitted(c, Running, active, held)
  <2>1. WritersOf(c, Running) = WritersOf(call, Running) BY <1>8 DEF WritersOf
  <2>2. \A p \in Jobs : InQueue(c, Running, p) = InQueue(call, Running, p) BY <1>8 DEF InQueue
  <2>3. Admitted(call, Running, active, held) BY IInvAdmitted
  <2> QED BY <1>8, <2>1, <2>2, <2>3 DEF Admitted
<1>12. Running \subseteq Jobs /\ W \cap Running = {} BY <1>3 DEF Running, Pending
<1>13. active \in [Jobs -> Nat] BY <1>2 DEF TypeOK
<1>14. Admitted(c, Running \cup D, active', held')
  BY <1>1, <1>10, <1>11, <1>12, <1>13, DrainAdmits
<1>15. Running' = Running \cup D /\ Pending' = W \ D
  <2>1. \A i \in Jobs : pc'[i] = IF i \in D THEN "granted"
                                ELSE IF i = j THEN "pending" ELSE pc[i]
    BY <1>1, <1>2 DEF Dispatch, TypeOK
  <2>2. D \subseteq W /\ W \subseteq Jobs BY <1>12 DEF Pending
  <2>3. Running' = Running \cup D
    BY <2>1, <2>2, <1>3, <1>12 DEF Running
  <2>4. Pending' = W \ D
    BY <2>1, <2>2, <1>3 DEF Pending
  <2> QED BY <2>3, <2>4
<1>16. Locks' /\ Counts' /\ WriterExclusion'
  BY <1>1, <1>14, <1>15, AdmittedNext
<1>17. Waiters'
  <2>1. SUFFICES ASSUME NEW i \in W \ D
                 PROVE  active'[c[i].queue] >= Limit \/ Blocked(c[i].writer, held')
    BY <1>1, <1>15 DEF Waiters
  <2>2. c[i].queue \notin {q} => active[c[i].queue] >= Limit \/ Blocked(c[i].writer, held)
    BY <1>5, <1>8 DEF IInv, Waiters
  <2> QED BY <1>1, <1>10, <1>13, <2>2, DrainJustifies
<1>18. NoDeafWaiter'
  BY <1>1, <1>2, <1>5, <1>8, <1>15 DEF IInv, NoDeafWaiter
<1>19. Tickets'
  <2>1. \A i \in Jobs : pc'[i] = "new" => c[i] = NoCall
    BY <1>1, <1>2, <1>5 DEF Dispatch, TypeOK, IInv, Tickets
  <2> QED BY <1>1, <1>9, <2>1 DEF Tickets
<1>20. QueueObjects'
  <2>1. Pending' \cup Running' = Pending \cup Running \cup {j} BY <1>15
  <2>2. queues'[s] = q /\ \A t \in Sessions \ {s} : queues'[t] = queues[t]
    BY <1>1, <1>2 DEF TypeOK
  <2>3. ASSUME NEW i \in Pending \cup Running
        PROVE queues'[c[i].session] = c[i].queue
    <3>1. CASE c[i].session = s
      <4>1. queues[s] = c[i].queue /\ c[i].queue \in Jobs BY <3>1, <1>8
      <4> QED BY <3>1, <4>1, <2>2, NoQueueAssumption DEF q
    <3>2. CASE c[i].session # s
      BY <3>2, <1>8, <2>2 DEF Call
    <3> QED BY <3>1, <3>2
  <2>4. ASSUME NEW t \in Sessions, queues'[t] # NoQueue
        PROVE  \E i \in Pending \cup Running \cup {j} : c[i].session = t
    <3>1. CASE t = s BY <3>1, <1>5
    <3>2. CASE t # s
      <4>1. queues[t] # NoQueue BY <3>2, <2>2, <2>4
      <4>2. PICK i \in Pending \cup Running : call[i].session = t
        BY <4>1 DEF IInv, QueueObjects
      <4> QED BY <4>2, <1>8
    <3> QED BY <3>1, <3>2
  <2>5. c[c[j].queue] \in Call /\ c[c[j].queue].session = c[j].session
        /\ queues'[c[j].session] = c[j].queue
    BY <1>5, <1>7, <2>2
  <2> QED BY <1>1, <1>8, <2>1, <2>3, <2>4, <2>5 DEF QueueObjects
<1>21. TypeOK'
  <2>1. pc' \in [Jobs -> PC] BY <1>1, <1>2 DEF TypeOK, Dispatch, PC
  <2>2. queues' \in [Sessions -> Jobs \cup {NoQueue}] BY <1>1, <1>2, <1>4 DEF TypeOK
  <2>3. active' \in [Jobs -> Nat]
    <3>1. ASSUME NEW p \in Jobs PROVE Cardinality(InQueue(c, D, p)) \in Nat
      <4>1. IsFiniteSet(InQueue(c, D, p))
        BY JobsAssumption, FS_Subset, <1>10 DEF InQueue, WellFormed
      <4> QED BY <4>1, FS_CardinalityType
    <3> QED BY <1>1, <1>13, <3>1 DEF Counted
  <2>4. held' \subseteq Paths
    <3>1. \A i \in W : c[i] \in Call BY <1>10 DEF WellFormed
    <3> QED BY <1>1, <1>2, <3>1 DEF TypeOK, WritersOf, Call
  <2>5. \A i \in Jobs : pc'[i] \notin {"new", "rejected"} => c[i] \in Call
    BY <1>1, <1>2, <1>5, <1>10 DEF TypeOK, Dispatch, WellFormed
  <2>6. call' \in [Jobs -> Call \cup {NoCall}] BY <1>1, <1>5
  <2>7. aborted' \subseteq Signals /\ clock' \in Nat BY <1>1, <1>2 DEF TypeOK
  <2>8. \A i \in Jobs : pc'[i] \notin {"new", "rejected"} => call'[i] \in Call
    BY <1>1, <2>5
  <2> QED BY <2>1, <2>2, <2>3, <2>4, <2>6, <2>7, <2>8 DEF TypeOK, Call
<1> QED BY <1>16, <1>17, <1>18, <1>19, <1>20, <1>21 DEF IInv

LEMMA RefuseIInv ==
  ASSUME IInv, NEW j \in Jobs, NEW g \in Signals, Refuse(j, g)
  PROVE  IInv'
<1>1. /\ TypeOK /\ pc[j] = "new" /\ pc' = [pc EXCEPT ![j] = "rejected"]
      /\ UNCHANGED <<call, queues, active, held, aborted, clock>>
  BY DEF IInv, Refuse
<1>2. Pending' = Pending /\ Running' = Running
  BY <1>1 DEF TypeOK, Pending, Running
<1>3. TypeOK' BY <1>1 DEF TypeOK, PC, Call
<1>4. Tickets' BY <1>1 DEF IInv, TypeOK, Tickets, Call
<1>5. QueueObjects' BY <1>1, <1>2 DEF IInv, QueueObjects, Call
<1>6. Locks' /\ Counts' /\ Waiters' /\ WriterExclusion' /\ NoDeafWaiter'
  BY <1>1, <1>2
     DEF IInv, Locks, Counts, Waiters, WriterExclusion, NoDeafWaiter, WritersOf, InQueue, Blocked
<1> QED BY <1>3, <1>4, <1>5, <1>6 DEF IInv

LEMMA AbortIInv ==
  ASSUME IInv, NEW g \in Signals, Abort(g)
  PROVE  IInv'
<1> DEFINE gone == {j \in Pending : call[j].signal = g}
<1>1. /\ TypeOK
      /\ aborted' = aborted \cup {g}
      /\ pc' = [j \in Jobs |-> IF j \in gone THEN "rejected" ELSE pc[j]]
      /\ queues' = [s \in Sessions |->
           IF \E j \in gone : /\ call[j].session = s
                              /\ Idle(call, active, Pending \ gone, call[j].queue)
           THEN NoQueue ELSE queues[s]]
      /\ UNCHANGED <<call, active, held, clock>>
  BY DEF IInv, Abort
<1>2. Pending' = Pending \ gone /\ Running' = Running
  BY <1>1 DEF Pending, Running
<1>3. TypeOK' BY <1>1 DEF TypeOK, PC, Call
<1>4. Tickets' BY <1>1 DEF IInv, TypeOK, Tickets, Call
<1>5. Locks' /\ Counts' /\ WriterExclusion'
  BY <1>1, <1>2
     DEF IInv, Locks, Counts, WriterExclusion, WritersOf, InQueue, Blocked
<1>6. Waiters' /\ NoDeafWaiter'
  BY <1>1, <1>2 DEF IInv, Waiters, NoDeafWaiter, Blocked
<1>7. QueueObjects'
  <2>1. ASSUME NEW i \in Pending' \cup Running'
        PROVE  queues'[call[i].session] = call[i].queue
    <3>1. i \in Pending \cup Running /\ i \notin gone BY <1>2 DEF Pending, Running
    <3>2. call[i] \in Call /\ i \in Jobs BY <1>1, <3>1, CallOfWaiter
    <3>3. queues[call[i].session] = call[i].queue BY <3>1 DEF IInv, QueueObjects
    <3>4. ASSUME NEW j \in gone, call[j].session = call[i].session,
                 Idle(call, active, Pending \ gone, call[j].queue)
          PROVE  FALSE
      <4>1. call[j].queue = call[i].queue BY <3>3, <3>4 DEF IInv, QueueObjects
      <4>2. i \notin Pending BY <3>1, <3>4, <4>1 DEF Idle, InQueue
      <4>3. i \in InQueue(call, Running, call[i].queue) BY <3>1, <4>2 DEF InQueue
      <4>4. call[i].queue \in Jobs BY <3>2 DEF Call
      <4>5. Cardinality(InQueue(call, Running, call[i].queue)) = 0
        BY <3>4, <4>1, <4>4 DEF IInv, Counts, Idle
      <4>6. IsFiniteSet(InQueue(call, Running, call[i].queue))
        BY JobsAssumption, FS_Subset DEF InQueue, Running
      <4> QED BY <4>3, <4>5, <4>6, FS_EmptySet
    <3> QED BY <1>1, <3>2, <3>3, <3>4 DEF Call
  <2>2. ASSUME NEW s \in Sessions, queues'[s] # NoQueue
        PROVE  \E i \in Pending' \cup Running' : call[i].session = s
    <3>1. queues'[s] = queues[s] BY <1>1, <2>2
    <3>2. PICK i \in Pending \cup Running : call[i].session = s
      BY <2>2, <3>1 DEF IInv, QueueObjects
    <3>3. CASE i \notin gone BY <3>2, <3>3, <1>2
    <3>4. CASE i \in gone
      <4>1. ~ Idle(call, active, Pending \ gone, call[i].queue)
        BY <1>1, <2>2, <3>2, <3>4
      <4>2. call[i] \in Call /\ i \in Jobs BY <1>1, CallOfWaiter
      <4>3. call[i].queue \in Jobs /\ call[i].session = s BY <3>2, <4>2 DEF Call
      <4>4. PICK k \in (Pending \ gone) \cup Running : call[k].queue = call[i].queue
        <5>1. CASE InQueue(call, Pending \ gone, call[i].queue) # {}
          BY <5>1 DEF InQueue
        <5>2. CASE active[call[i].queue] # 0
          <6>1. Cardinality(InQueue(call, Running, call[i].queue)) # 0
            BY <5>2, <4>3 DEF IInv, Counts
          <6> QED BY <6>1, FS_EmptySet DEF InQueue
        <5> QED BY <4>1, <5>1, <5>2 DEF Idle
      <4>5. call[k].session = call[i].session
        BY <4>4, <3>4 DEF IInv, QueueObjects
      <4> QED BY <4>3, <4>4, <4>5, <1>2
    <3> QED BY <3>3, <3>4
  <2>3. Pending' \cup Running' \subseteq Pending \cup Running BY <1>2
  <2>4. ASSUME NEW i \in Pending' \cup Running'
        PROVE  /\ call[call[i].queue] \in Call
               /\ call[call[i].queue].session = call[i].session
    BY <2>3 DEF IInv, QueueObjects
  <2>5. call' = call BY <1>1
  <2> HIDE DEF gone
  <2> QED BY <2>1, <2>2, <2>4, <2>5 DEF QueueObjects
<1> QED BY <1>3, <1>4, <1>5, <1>6, <1>7 DEF IInv

LEMMA ReleaseIInv ==
  ASSUME IInv, NEW j \in Running, NEW outcome \in {"done", "rejected"}, Release(j, outcome)
  PROVE  IInv'
<1> DEFINE q == call[j].queue
           act == [active EXCEPT ![q] = @ - 1]
           locks == held \ {call[j].writer}
           rest == Running \ {j}
<1>1. PICK D \in SUBSET Pending :
        /\ IsDrain(call, D, Pending, DrainedBy(q), act, locks)
        /\ pc' = Dispatch(D, [pc EXCEPT ![j] = outcome])
        /\ active' = Counted(call, act, D)
        /\ held' = locks \cup WritersOf(call, D)
        /\ queues' = IF Idle(call, active', Pending \ D, q)
                     THEN [queues EXCEPT ![call[j].session] = NoQueue]
                     ELSE queues
        /\ UNCHANGED <<call, aborted, clock>>
  BY DEF Release
<1>2. /\ TypeOK /\ j \in Jobs /\ call[j] \in Call /\ q \in Jobs /\ call[j].session \in Sessions
      /\ call[j].writer \in Paths \cup {NoWriter}
  BY CallOfWaiter DEF IInv, Call
<1>3. /\ Admitted(call, Running, active, held)
      /\ WellFormed(call, Pending \cup Running)
      /\ Pending \cap Running = {}
  BY IInvAdmitted
<1>4. WellFormed(call, Pending) BY <1>3 DEF WellFormed
<1>5. rest \subseteq Jobs /\ Pending \cap rest = {} BY <1>3 DEF Running
<1>6. InQueue(call, rest, q) = InQueue(call, Running, q) \ {j}
      /\ j \in InQueue(call, Running, q)
      /\ \A p \in Jobs \ {q} : InQueue(call, rest, p) = InQueue(call, Running, p)
  BY DEF InQueue
<1>7. \A p \in Jobs : IsFiniteSet(InQueue(call, Running, p))
                     /\ Cardinality(InQueue(call, Running, p)) \in Nat
  BY JobsAssumption, FS_Subset, FS_CardinalityType DEF InQueue, Running
<1>8. /\ Cardinality(InQueue(call, rest, q)) = Cardinality(InQueue(call, Running, q)) - 1
      /\ Cardinality(InQueue(call, Running, q)) # 0
      /\ Cardinality(InQueue(call, rest, q)) \in Nat
  <2> DEFINE Rq == InQueue(call, Running, q)
  <2>1. IsFiniteSet(Rq) /\ Cardinality(Rq) \in Nat /\ j \in Rq BY <1>2, <1>6, <1>7
  <2> HIDE DEF Rq
  <2>2. IsFiniteSet(Rq \ {j}) /\ Cardinality(Rq \ {j}) = Cardinality(Rq) - 1
    BY <2>1, FS_RemoveElement
  <2>3. Cardinality(Rq) # 0 BY <2>1, FS_EmptySet
  <2>4. Cardinality(Rq \ {j}) \in Nat BY <2>2, FS_CardinalityType
  <2> QED BY <2>2, <2>3, <2>4, <1>6 DEF Rq
<1>9. act \in [Jobs -> Nat] /\ \A p \in Jobs : act[p] = Cardinality(InQueue(call, rest, p)) /\ act[p] <= Limit
  <2>1. \A p \in Jobs : active[p] = Cardinality(InQueue(call, Running, p)) /\ active[p] <= Limit
    BY <1>3 DEF Admitted
  <2>2. active \in [Jobs -> Nat] BY <1>2 DEF TypeOK
  <2>3. act[q] = active[q] - 1 /\ \A p \in Jobs \ {q} : act[p] = active[p] BY <1>2, <2>2
  <2>4. ASSUME NEW p \in Jobs
        PROVE  act[p] = Cardinality(InQueue(call, rest, p)) /\ act[p] <= Limit /\ act[p] \in Nat
    <3>1. CASE p = q BY <3>1, <1>8, <2>1, <2>2, <2>3, LimitAssumption
    <3>2. CASE p # q BY <3>2, <1>6, <2>1, <2>2, <2>3
    <3> QED BY <3>1, <3>2
  <2> QED BY <2>2, <2>4
<1>10. locks = WritersOf(call, rest)
  <2>1. ASSUME NEW i \in rest, call[i].writer # NoWriter PROVE call[i].writer # call[j].writer
    BY <1>3, <2>1 DEF Admitted, Blocked, Collides
  <2>2. held = WritersOf(call, Running) BY <1>3 DEF Admitted
  <2> QED BY <2>1, <2>2 DEF WritersOf
<1> HIDE DEF act, locks, rest
<1>11. Admitted(call, rest, act, locks)
  BY <1>3, <1>9, <1>10 DEF Admitted, rest
<1>12. Admitted(call, rest \cup D, active', held')
  BY <1>1, <1>4, <1>5, <1>9, <1>11, DrainAdmits
<1>13. Running' = rest \cup D /\ Pending' = Pending \ D
  <2>1. \A i \in Jobs : pc'[i] = IF i \in D THEN "granted"
                                ELSE IF i = j THEN outcome ELSE pc[i]
    BY <1>1, <1>2 DEF Dispatch, TypeOK
  <2>2. D \subseteq Pending /\ Pending \subseteq Jobs /\ j \notin Pending BY <1>3 DEF Pending
  <2>3. Running' = rest \cup D BY <2>1, <2>2, <1>3 DEF Running, rest
  <2>4. Pending' = Pending \ D BY <2>1, <2>2 DEF Pending
  <2> QED BY <2>3, <2>4
<1>14. Locks' /\ Counts' /\ WriterExclusion'
  BY <1>1, <1>12, <1>13, AdmittedNext
<1>15. ASSUME NEW i \in Pending PROVE call[i].queue \in DrainedBy(q)
  <2>1. i \in Jobs /\ call[i] \in Call BY <1>2, CallOfWaiter
  <2>2. call[i].session \in Sessions /\ call[i].queue \in Jobs BY <2>1 DEF Call
  <2>3. queues[call[i].session] = call[i].queue BY DEF IInv, QueueObjects
  <2> QED BY <2>2, <2>3, NoQueueAssumption DEF DrainedBy
<1>16. Waiters'
  <2>1. SUFFICES ASSUME NEW i \in Pending \ D
                 PROVE  active'[call[i].queue] >= Limit \/ Blocked(call[i].writer, held')
    BY <1>1, <1>13 DEF Waiters
  <2> QED BY <1>1, <1>4, <1>9, <1>15, DrainJustifies
<1>17. NoDeafWaiter' BY <1>1, <1>13 DEF IInv, NoDeafWaiter
<1>18. Tickets' BY <1>1, <1>2 DEF IInv, TypeOK, Tickets, Dispatch, Call
<1>19. QueueObjects'
  <2>1. Pending' \cup Running' \subseteq Pending \cup Running
    BY <1>13 DEF rest
  <2>2. ASSUME NEW i \in Pending' \cup Running'
        PROVE  queues'[call[i].session] = call[i].queue
    <3>1. call[i] \in Call /\ i \in Jobs BY <1>2, <2>1, CallOfWaiter
    <3>2. queues[call[i].session] = call[i].queue BY <2>1 DEF IInv, QueueObjects
    <3>3. call[i].queue \in Jobs BY <3>1 DEF Call
    <3>4. CASE ~ Idle(call, active', Pending \ D, q)
      BY <3>2, <3>4, <1>1
    <3>5. CASE Idle(call, active', Pending \ D, q)
      <4>1. call[i].session # call[j].session
        <5>1. SUFFICES ASSUME call[i].session = call[j].session PROVE FALSE
          OBVIOUS
        <5>2. call[i].queue = q BY <3>2, <5>1 DEF IInv, QueueObjects
        <5>3. i \notin Pending' BY <3>5, <5>2, <1>13 DEF Idle, InQueue
        <5>4. i \in InQueue(call, rest \cup D, q) BY <5>2, <5>3, <1>13 DEF InQueue
        <5>5. Cardinality(InQueue(call, rest \cup D, q)) = 0
          BY <3>5, <1>2, <1>12 DEF Idle, Admitted
        <5>6. IsFiniteSet(InQueue(call, rest \cup D, q))
          BY JobsAssumption, FS_Subset, <1>5 DEF InQueue, Pending
        <5> QED BY <5>4, <5>5, <5>6, FS_EmptySet
      <4>2. queues'[call[i].session] = queues[call[i].session]
        BY <4>1, <3>1, <1>1, <1>2, <3>5 DEF TypeOK, Call
      <4> QED BY <4>2, <3>2
    <3> QED BY <3>4, <3>5
  <2>3. ASSUME NEW s \in Sessions, queues'[s] # NoQueue
        PROVE  \E i \in Pending' \cup Running' : call[i].session = s
    <3>1. queues'[s] = queues[s] /\ (s = call[j].session => ~ Idle(call, active', Pending \ D, q))
      BY <1>1, <1>2, <2>3 DEF TypeOK
    <3>2. PICK i \in Pending \cup Running : call[i].session = s
      BY <2>3, <3>1 DEF IInv, QueueObjects
    <3>3. CASE i # j BY <3>2, <3>3, <1>13 DEF rest
    <3>4. CASE i = j
      <4>1. ~ Idle(call, active', Pending \ D, q) BY <3>1, <3>2, <3>4
      <4>2. PICK k \in Pending' \cup Running' : call[k].queue = q
        <5>1. CASE InQueue(call, Pending \ D, q) # {}
          BY <5>1, <1>13 DEF InQueue
        <5>2. CASE active'[q] # 0
          <6>1. Cardinality(InQueue(call, rest \cup D, q)) # 0
            BY <5>2, <1>2, <1>12 DEF Admitted
          <6>2. InQueue(call, rest \cup D, q) # {} BY <6>1, FS_EmptySet
          <6> QED BY <6>2, <1>13 DEF InQueue
        <5> QED BY <4>1, <5>1, <5>2 DEF Idle
      <4>3. call[k].session = call[j].session BY <4>2, <2>1 DEF IInv, QueueObjects
      <4> QED BY <4>2, <4>3, <3>2, <3>4
    <3> QED BY <3>3, <3>4
  <2> QED BY <1>1, <2>1, <2>2, <2>3 DEF IInv, QueueObjects
<1>20. TypeOK'
  <2>1. pc' \in [Jobs -> PC] BY <1>1, <1>2 DEF TypeOK, Dispatch, PC
  <2>2. queues' \in [Sessions -> Jobs \cup {NoQueue}] BY <1>1, <1>2 DEF TypeOK
  <2>3. active' \in [Jobs -> Nat]
    <3>1. ASSUME NEW p \in Jobs PROVE Cardinality(InQueue(call, D, p)) \in Nat
      <4>1. IsFiniteSet(InQueue(call, D, p))
        BY JobsAssumption, FS_Subset, <1>4 DEF InQueue, WellFormed
      <4> QED BY <4>1, FS_CardinalityType
    <3> QED BY <1>1, <1>9, <3>1 DEF Counted
  <2>4. held' \subseteq Paths
    <3>1. \A i \in Pending : call[i] \in Call BY <1>4 DEF WellFormed
    <3> QED BY <1>1, <1>2, <3>1 DEF TypeOK, WritersOf, Call, locks
  <2>5. call' \in [Jobs -> Call \cup {NoCall}] BY <1>1, <1>2 DEF TypeOK
  <2>6. aborted' \subseteq Signals /\ clock' \in Nat BY <1>1, <1>2 DEF TypeOK
  <2>7. \A i \in Jobs : pc'[i] \notin {"new", "rejected"} => call'[i] \in Call
    BY <1>1, <1>2, <1>4 DEF TypeOK, Dispatch, WellFormed
  <2> QED BY <2>1, <2>2, <2>3, <2>4, <2>5, <2>6, <2>7 DEF TypeOK, Call
<1> QED BY <1>14, <1>16, <1>17, <1>18, <1>19, <1>20 DEF IInv

LEMMA ResumeIInv ==
  ASSUME IInv, NEW j \in Jobs, Resume(j)
  PROVE  IInv'
<1>1. TypeOK /\ pc[j] = "granted" BY DEF IInv, Resume
<1>2. CASE Release(j, "rejected")
  BY <1>1, <1>2, ReleaseIInv DEF Running
<1>3. CASE /\ pc' = [pc EXCEPT ![j] = "working"]
           /\ UNCHANGED <<call, queues, active, held, aborted, clock>>
  <2>1. Pending' = Pending /\ Running' = Running
    BY <1>1, <1>3 DEF TypeOK, Pending, Running
  <2>2. TypeOK' BY <1>1, <1>3 DEF TypeOK, PC, Call
  <2>3. Tickets' BY <1>1, <1>3 DEF IInv, TypeOK, Tickets, Call
  <2>4. QueueObjects' BY <1>3, <2>1 DEF IInv, QueueObjects, Call
  <2>5. Locks' /\ Counts' /\ Waiters' /\ WriterExclusion' /\ NoDeafWaiter'
    BY <1>3, <2>1
       DEF IInv, Locks, Counts, Waiters, WriterExclusion, NoDeafWaiter, WritersOf, InQueue, Blocked
  <2> QED BY <2>2, <2>3, <2>4, <2>5 DEF IInv
<1> QED BY <1>2, <1>3 DEF Resume

LEMMA NextIInv == IInv /\ [Next]_vars => IInv'
<1> SUFFICES ASSUME IInv, [Next]_vars PROVE IInv'
  OBVIOUS
<1>1. CASE UNCHANGED vars
  BY <1>1
     DEF vars, IInv, TypeOK, Tickets, QueueObjects, Locks, Counts, Waiters, WriterExclusion,
         NoDeafWaiter, Pending, Running, WritersOf, InQueue, Blocked, Call
<1>2. ASSUME NEW j \in Jobs, NEW s \in Sessions, NEW w \in Paths \cup {NoWriter},
             NEW g \in Signals \cup {NoSignal}, Submit(j, s, w, g)
      PROVE  IInv'
  BY <1>2, SubmitIInv
<1>3. ASSUME NEW j \in Jobs, NEW g \in Signals, Refuse(j, g) PROVE IInv'
  BY <1>3, RefuseIInv
<1>4. ASSUME NEW g \in Signals, Abort(g) PROVE IInv'
  BY <1>4, AbortIInv
<1>5. ASSUME NEW j \in Jobs, Resume(j) PROVE IInv'
  BY <1>5, ResumeIInv
<1>6. ASSUME NEW j \in Jobs, Finish(j) PROVE IInv'
  BY <1>6, ReleaseIInv DEF Finish, Running
<1> QED BY <1>1, <1>2, <1>3, <1>4, <1>5, <1>6 DEF Next

\* The inductive invariant holds at every step of withExecutionSlot, the
\* release closures and the abort listeners.
THEOREM Invariant == Spec => []IInv
<1>1. Init => IInv BY InitIInv
<1>2. IInv /\ [Next]_vars => IInv' BY NextIInv
<1> QED BY <1>1, <1>2, PTL DEF Spec

-----------------------------------------------------------------------------
(* What follows from it *)

\* Every variable of execution-limits.ts keeps its type: in particular a
\* count of active calls never goes below zero.
THEOREM TypeCorrect == Spec => []TypeOK
<1>1. IInv => TypeOK BY DEF IInv
<1> QED BY <1>1, Invariant, PTL

\* Two calls whose locks collide are never admitted together.
THEOREM Exclusion == Spec => []WriterExclusion
<1>1. IInv => WriterExclusion BY DEF IInv
<1> QED BY <1>1, Invariant, PTL

\* In particular, where no workspace is the root directory, a lock on a
\* directory excludes every lock inside it, as the comment on collides says.
THEOREM Containment ==
  ASSUME <<>> \notin Paths
  PROVE  Spec => []ContainmentExclusion
<1>1. IInv => ContainmentExclusion
  <2> SUFFICES ASSUME IInv, NEW i \in Running, NEW j \in Running, i # j,
                      call[i].writer # NoWriter, call[j].writer # NoWriter,
                      Contains(call[i].writer, call[j].writer)
               PROVE  FALSE
    BY DEF ContainmentExclusion
  <2>1. call[i].writer \in Paths /\ call[j].writer \in Paths
    BY CallOfWaiter DEF IInv, Call
  <2>2. call[i].writer \in Seq(STRING) /\ call[j].writer \in Seq(STRING) /\ call[i].writer # <<>>
    BY <2>1, PathsAssumption
  <2>3. ~ Collides(call[i].writer, call[j].writer)
    BY DEF IInv, WriterExclusion, Blocked
  <2>4. Len(call[i].writer) = Len(call[j].writer)
    BY <2>2, <2>3 DEF Contains, Collides, StrictlyInside
  <2>5. SubSeq(call[j].writer, 1, Len(call[j].writer)) = call[j].writer BY <2>2
  <2> QED BY <2>3, <2>4, <2>5 DEF Contains, Collides
<1> QED BY <1>1, Invariant, PTL

\* No call waits behind a signal that already fired.
THEOREM NoDeafWaiting == Spec => []NoDeafWaiter
<1>1. IInv => NoDeafWaiter BY DEF IInv
<1> QED BY <1>1, Invariant, PTL

\* The admitted calls of a session are those counted in the queue object
\* that one of them, or of its waiters, is in.
LEMMA SessionIsQueue ==
  ASSUME IInv, NEW j \in Pending \cup Running
  PROVE  {i \in Running : call[i].session = call[j].session}
           = InQueue(call, Running, call[j].queue)
<1>1. \A i \in Running :
        /\ queues[call[i].session] = call[i].queue
        /\ call[call[i].queue].session = call[i].session
  BY DEF IInv, QueueObjects
<1>2. /\ queues[call[j].session] = call[j].queue
      /\ call[call[j].queue].session = call[j].session
  BY DEF IInv, QueueObjects
<1> QED BY <1>1, <1>2 DEF InQueue

\* A session never has more admitted calls than the limit.
THEOREM LimitKept == Spec => []SessionLimit
<1>1. IInv => SessionLimit
  <2> SUFFICES ASSUME IInv, NEW s \in Sessions
               PROVE  Cardinality({j \in Running : call[j].session = s}) <= Limit
    BY DEF SessionLimit
  <2>1. CASE {j \in Running : call[j].session = s} = {}
    BY <2>1, FS_EmptySet, LimitAssumption
  <2>2. ASSUME NEW j \in Running, call[j].session = s
        PROVE  Cardinality({i \in Running : call[i].session = s}) <= Limit
    <3>1. call[j].queue \in Jobs BY CallOfWaiter DEF IInv, Call
    <3>2. {i \in Running : call[i].session = s} = InQueue(call, Running, call[j].queue)
      BY <2>2, SessionIsQueue
    <3> QED BY <3>1, <3>2 DEF IInv, Counts
  <2> QED BY <2>1, <2>2
<1> QED BY <1>1, Invariant, PTL

\* No lost wake-up: whoever waits is kept out by a full session or a lock.
THEOREM NoLostWakeUp == Spec => []NoIdleWaiter
<1>1. IInv => NoIdleWaiter
  <2> SUFFICES ASSUME IInv, NEW j \in Pending
               PROVE  \/ Cardinality({i \in Running : call[i].session = call[j].session}) = Limit
                      \/ Blocked(call[j].writer, WritersOf(call, Running))
    BY DEF NoIdleWaiter
  <2>1. call[j].queue \in Jobs BY CallOfWaiter DEF IInv, Call
  <2>2. {i \in Running : call[i].session = call[j].session} = InQueue(call, Running, call[j].queue)
    BY SessionIsQueue
  <2>3. active[call[j].queue] \in Nat /\ active[call[j].queue] <= Limit
        /\ active[call[j].queue] = Cardinality(InQueue(call, Running, call[j].queue))
    BY <2>1 DEF IInv, TypeOK, Counts
  <2>4. CASE Blocked(call[j].writer, held) BY <2>4 DEF IInv, Locks
  <2>5. CASE active[call[j].queue] >= Limit
    <3>1. active[call[j].queue] = Limit BY <2>3, <2>5, LimitAssumption
    <3> QED BY <2>2, <2>3, <3>1
  <2> QED BY <2>4, <2>5 DEF IInv, Waiters
<1> QED BY <1>1, Invariant, PTL

\* The map has the queue objects in use and no others.
THEOREM MapInUse == Spec => []QueuesInUse
<1>1. IInv => QueuesInUse
  BY DEF IInv, QueueObjects, QueuesInUse
<1> QED BY <1>1, Invariant, PTL

\* In a drain of its queue, a waiter that arrived before a call which is
\* dispatched is dispatched too, unless a lock keeps it out.
LEMMA DrainInOrder ==
  ASSUME NEW c, NEW W, WellFormed(c, W), NEW D \in SUBSET W, NEW Q, NEW locks,
         NEW act \in [Jobs -> Nat], IsDrain(c, D, W, Q, act, locks),
         NEW i \in W \ D, NEW j \in D, c[i].queue = c[j].queue, c[i].ticket < c[j].ticket
  PROVE  Blocked(c[i].writer, locks \cup WritersOf(c, D))
<1> DEFINE q == c[j].queue
           before(k) == {l \in D : Before(c, l, k)}
<1>1. /\ q \in Jobs /\ q \in Q
      /\ ~ Dispatchable(c, D, i, act, locks) /\ Dispatchable(c, D, j, act, locks)
  BY DEF IsDrain, WellFormed, Call
<1>2. InQueue(c, before(i), q) \subseteq InQueue(c, before(j), q)
  BY DEF InQueue, Before, WellFormed, Call
<1>3. IsFiniteSet(InQueue(c, before(j), q)) /\ IsFiniteSet(InQueue(c, before(i), q))
  BY JobsAssumption, FS_Subset DEF InQueue, WellFormed
<1>4. /\ Cardinality(InQueue(c, before(i), q)) <= Cardinality(InQueue(c, before(j), q))
      /\ Cardinality(InQueue(c, before(i), q)) \in Nat
      /\ Cardinality(InQueue(c, before(j), q)) \in Nat
  BY <1>2, <1>3, FS_Subset, FS_CardinalityType
<1>5. act[q] + Cardinality(InQueue(c, before(j), q)) < Limit BY <1>1 DEF Dispatchable
<1>6. act[q] + Cardinality(InQueue(c, before(i), q)) < Limit
  BY <1>1, <1>4, <1>5, LimitAssumption
<1>7. Blocked(c[i].writer, locks \cup WritersOf(c, before(i)))
  BY <1>1, <1>6 DEF Dispatchable
<1> QED BY <1>7 DEF Blocked, WritersOf

LEMMA OvertakenInDrain ==
  ASSUME IInv, IInv', NEW i \in Jobs, NEW j \in Jobs, Overtaken(i, j),
         NEW W, WellFormed(call', W), NEW D \in SUBSET W, NEW Q, NEW locks,
         NEW act \in [Jobs -> Nat], IsDrain(call', D, W, Q, act, locks),
         i \in W, i \notin D, j \in D, held' = locks \cup WritersOf(call', D),
         call'[i].writer = call[i].writer
  PROVE  Blocked(call[i].writer, held')
<1>1. i \in Pending' /\ j \in Running' BY DEF Overtaken, Pending, Running
<1>2. queues'[call'[i].session] = call'[i].queue /\ queues'[call'[j].session] = call'[j].queue
  BY <1>1 DEF IInv, QueueObjects
<1> QED BY <1>2, DrainInOrder DEF Overtaken

\* Within a session calls are admitted in arrival order, save for one that
\* passes another kept out by a lock.
THEOREM ArrivalOrder == Spec => NoOvertaking
<1>1. IInv /\ [Next]_vars => [\A i, j \in Jobs : Overtaken(i, j) => Blocked(call[i].writer, held')]_vars
  <2> SUFFICES ASSUME IInv, Next, NEW i \in Jobs, NEW j \in Jobs, Overtaken(i, j)
               PROVE  Blocked(call[i].writer, held')
    OBVIOUS
  <2>1. IInv' BY NextIInv
  <2>2. /\ i \in Pending /\ i \in Pending' /\ i # j /\ j \in Running'
        /\ TypeOK /\ pc'[j] = "granted" /\ pc[j] # "granted" /\ pc'[i] = "pending"
    BY DEF Overtaken, Pending, Running, IInv
  <2>3. WellFormed(call', (Pending \cup Running)')
    BY <2>1, CallOfWaiter DEF IInv, WellFormed, Tickets, QueueObjects, TypeOK, Pending, Running, PC, Call
  <2>4. ASSUME NEW k \in Jobs, NEW s \in Sessions, NEW w \in Paths \cup {NoWriter},
               NEW g \in Signals \cup {NoSignal}, Submit(k, s, w, g)
        PROVE  Blocked(call[i].writer, held')
    <3> DEFINE q == IF queues[s] = NoQueue THEN k ELSE queues[s]
               c == [call EXCEPT ![k] = [session |-> s, writer |-> w, signal |-> g,
                                         ticket |-> clock, queue |-> q]]
               W == Pending \cup {k}
    <3>1. PICK D \in SUBSET W :
            /\ IsDrain(c, D, W, {q}, active, held)
            /\ pc' = Dispatch(D, [pc EXCEPT ![k] = "pending"])
            /\ call' = c
            /\ held' = held \cup WritersOf(c, D)
      BY <2>4 DEF Submit
    <3>2. pc[k] = "new" BY <2>4 DEF Submit
    <3> HIDE DEF c, q
    <3>3. \A l \in Jobs : pc'[l] = IF l \in D THEN "granted" ELSE IF l = k THEN "pending" ELSE pc[l]
      BY <3>1, <2>2 DEF Dispatch, TypeOK
    <3>4. i \in W /\ i \notin D /\ j \in D BY <2>2, <3>2, <3>3 DEF Pending
    <3>5. W \subseteq (Pending \cup Running)' BY <3>2, <3>3 DEF Pending, Running
    <3>6. WellFormed(call', W) BY <2>3, <3>5 DEF WellFormed
    <3>7. call'[i].writer = call[i].writer
      BY <3>1, <3>2, <2>2 DEF c, Pending, TypeOK
    <3>8. active \in [Jobs -> Nat] BY <2>2 DEF TypeOK
    <3>9. /\ IsDrain(call', D, W, {q}, active, held)
          /\ held' = held \cup WritersOf(call', D)
      BY <3>1
    <3> HIDE DEF W
    <3> QED BY <2>1, <3>4, <3>6, <3>7, <3>8, <3>9, OvertakenInDrain
  <2>5. ASSUME NEW k \in Jobs, NEW outcome \in {"done", "rejected"}, Release(k, outcome),
               k \in Running
        PROVE  Blocked(call[i].writer, held')
    <3> DEFINE q == call[k].queue
               act == [active EXCEPT ![q] = @ - 1]
               locks == held \ {call[k].writer}
    <3>1. PICK D \in SUBSET Pending :
            /\ IsDrain(call, D, Pending, DrainedBy(q), act, locks)
            /\ pc' = Dispatch(D, [pc EXCEPT ![k] = outcome])
            /\ held' = locks \cup WritersOf(call, D)
            /\ call' = call
      BY <2>5 DEF Release
    <3>2. \A l \in Jobs : pc'[l] = IF l \in D THEN "granted" ELSE IF l = k THEN outcome ELSE pc[l]
      BY <3>1, <2>2 DEF Dispatch, TypeOK
    <3>3. i \in Pending /\ i \notin D /\ j \in D BY <2>2, <3>2
    <3>4. WellFormed(call', Pending)
      BY IInvAdmitted, <3>1 DEF WellFormed
    <3>5. act \in [Jobs -> Nat]
      <4>1. call[k].queue \in Jobs BY <2>5, CallOfWaiter DEF IInv, Call
      <4>2. active[q] = Cardinality(InQueue(call, Running, q)) BY <4>1 DEF IInv, Counts
      <4>3. IsFiniteSet(InQueue(call, Running, q)) /\ k \in InQueue(call, Running, q)
        BY <2>5, JobsAssumption, FS_Subset DEF InQueue, Running
      <4>4. active[q] # 0 BY <4>2, <4>3, FS_EmptySet
      <4> QED BY <4>1, <4>4, <2>2 DEF TypeOK
    <3>6. call'[i].writer = call[i].writer BY <3>1
    <3> HIDE DEF act, locks
    <3>7. /\ IsDrain(call', D, Pending, DrainedBy(q), act, locks)
          /\ held' = locks \cup WritersOf(call', D)
      BY <3>1
    <3> QED BY <2>1, <3>7, <3>3, <3>4, <3>5, <3>6, OvertakenInDrain
  <2>7. ASSUME NEW k \in Jobs, NEW g \in Signals, Refuse(k, g) PROVE FALSE
    BY <2>2, <2>7 DEF Refuse, TypeOK
  <2>8. ASSUME NEW g \in Signals, Abort(g) PROVE FALSE
    BY <2>2, <2>8 DEF Abort
  <2>9. ASSUME NEW k \in Jobs, Resume(k) PROVE Blocked(call[i].writer, held')
    <3>1. CASE Release(k, "rejected") BY <3>1, <2>5, <2>9 DEF Resume, Running
    <3>2. CASE pc' = [pc EXCEPT ![k] = "working"] BY <3>2, <2>2 DEF TypeOK
    <3> QED BY <3>1, <3>2, <2>9 DEF Resume
  <2>10. ASSUME NEW k \in Jobs, Finish(k) PROVE Blocked(call[i].writer, held')
    BY <2>10, <2>5 DEF Finish, Running
  <2> QED BY <2>4, <2>7, <2>8, <2>9, <2>10 DEF Next
<1> QED BY <1>1, Invariant, PTL DEF Spec, NoOvertaking

\* Who is admitted collides with nobody and is within the limit of its session.
THEOREM AdmissionsAreFit == Spec => []AdmissionsFit
<1>1. TypeOK /\ WriterExclusion /\ SessionLimit => AdmissionsFit BY DEF AdmissionsFit
<1> QED BY <1>1, TypeCorrect, Exclusion, LimitKept, PTL

\* Who waits has a full session or a colliding lock in its way, is where the releases look
\* for it, and has not missed its signal.
THEOREM WaitersAreServed == Spec => []WaitersServed
<1>1. NoIdleWaiter /\ QueuesInUse /\ NoDeafWaiter => WaitersServed BY DEF WaitersServed
<1> QED BY <1>1, NoLostWakeUp, MapInUse, NoDeafWaiting, PTL
=============================================================================
