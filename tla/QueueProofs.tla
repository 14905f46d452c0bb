------------------------------ MODULE QueueProofs ------------------------------
(* The safety properties of SwarmWorkspaces and of LaneQueue, for every set of instances,
   files, tasks, sessions and priorities. Both are about a chain of promises in which one
   takes its turn at a time: the merges of a task, and the tasks of a session. *)
EXTENDS SwarmWorkspaces, LaneQueue, TLAPS

USE SwarmAssumption

-----------------------------------------------------------------------------
(* The invariant of the private copies *)

\* Every variable stays in its range.
Typed ==
  /\ base \in [Files -> Text] /\ indexed \subseteq Tracked
  /\ at \in [Instances -> {"idle", "clearing", "adding", "seeding", "working",
                           "merging", "applying", "merged"}]
  /\ run \in [Instances -> 0..MaxRuns]
  /\ live \subseteq Instances /\ disk \subseteq Instances /\ dropping \subseteq Instances
  /\ copy \in [Instances -> [Files -> Text]] /\ seed \in [Instances -> [Files -> Text]]
  /\ queue \in Seq(Instances) /\ seen \in [Instances -> [Files -> Text]]
  /\ outcome \in [Instances -> {"none", "completed", "blocked", "failed"}]
  /\ closed \in BOOLEAN /\ spent \in [runs : 0..MaxRuns, direct : Nat, faults : Nat]
  /\ known \in [Instances -> SUBSET (Changes \X Files)]
  /\ others \in [Instances -> SUBSET Files] /\ accepted \subseteq Changes \X Files

\* The chain has each instance that merges once, and whoever merges is the first of it.
Line ==
  /\ Range(queue) = {i \in Instances : at[i] \in {"merging", "applying", "merged"}}
  /\ \A m, n \in DOMAIN queue : queue[m] = queue[n] => m = n
  /\ \A i \in Instances : at[i] \in {"applying", "merged"} => Turn(i)

\* A delegation that goes has the number of a run that began.
Counted ==
  \A i \in Instances : run[i] <= spent.runs /\ (at[i] # "idle" => run[i] > 0)

\* As long as the next task has not begun, an instance at work has its copy and its entry.
Entries ==
  /\ dropping # {} => closed
  /\ ~closed => \A i \in Instances :
       /\ at[i] \in {"working", "merging", "applying"} => i \in live
       /\ at[i] \in {"seeding", "working", "merging", "applying"} => i \in disk

\* The texts that carry a change: none, or the copy of one instance only.
Nowhere(c) ==
  \A f \in Files :
    /\ c \notin base[f].has
    /\ \A j \in Instances :
         c \notin copy[j][f].has /\ c \notin seed[j][f].has /\ c \notin seen[j][f].has
OnlyAt(c, i) ==
  \A f \in Files :
    /\ c \notin base[f].has
    /\ \A j \in Instances :
         /\ c \notin seed[j][f].has /\ c \notin seen[j][f].has
         /\ j # i => c \notin copy[j][f].has

\* No text carries the change of a run that did not begin yet.
Old ==
  \A i \in Instances, n \in Nat : n > spent.runs => Nowhere(<<i, n>>)

\* Until it is merged, the change of a run is in the copy of its instance only.
Fresh ==
  \A i \in Instances, n \in Nat :
    n = run[i] =>
      /\ at[i] \in {"clearing", "adding", "seeding", "working"} => Nowhere(<<i, n>>)
      /\ at[i] \in {"merging", "applying"} => OnlyAt(<<i, n>>, i)

\* What was accepted is in the shared worktree, and in what the merge that goes has read of it.
Kept ==
  /\ IntegratedStays
  /\ \A i \in Instances : at[i] = "applying" => \A p \in accepted : p[1] \in seen[i][p[2]].has

\* A copy has what had been accepted when it was asked for, its tracked files first.
Seeds ==
  \A i \in Instances :
    /\ known[i] \subseteq accepted
    /\ at[i] = "seeding" /\ i \in disk =>
         \A p \in known[i] : p[2] \in Tracked => p[1] \in copy[i][p[2]].has
    /\ at[i] = "working" /\ i \in disk => \A p \in known[i] : p[1] \in copy[i][p[2]].has

\* A file that nobody else changed is still what the copy was seeded with.
Baseline ==
  ~closed => \A i \in Instances, f \in Files :
    \/ f \in others[i]
    \/ /\ at[i] = "seeding" /\ f \in Tracked => copy[i][f] = base[f]
       /\ at[i] \in {"working", "merging"} => seed[i][f] = base[f]
       /\ at[i] = "applying" => seed[i][f] = seen[i][f]

\* A delegation that goes is not recorded yet.
Undecided == \A i \in Instances : at[i] # "idle" => outcome[i] = "none"

\* A merge that went in has all that its instance did in the shared worktree.
MergedIsIn ==
  ~closed => \A i \in Instances, f \in Files :
    at[i] = "merged" /\ Change(i) \in copy[i][f].has => <<Change(i), f>> \in accepted

SwarmInv ==
  /\ Typed /\ Line /\ Counted /\ Entries /\ Old /\ Fresh
  /\ Kept /\ Seeds /\ Baseline /\ Undecided /\ MergedIsIn

-----------------------------------------------------------------------------
(* Chains and texts *)

LEMMA JoinChain ==
  ASSUME NEW S, NEW q \in Seq(S), NEW e \in S, e \notin Range(q),
         \A m, n \in DOMAIN q : q[m] = q[n] => m = n
  PROVE  /\ Append(q, e) \in Seq(S) /\ Range(Append(q, e)) = Range(q) \cup {e}
         /\ \A m, n \in DOMAIN Append(q, e) : Append(q, e)[m] = Append(q, e)[n] => m = n
         /\ q # <<>> => Head(Append(q, e)) = Head(q)
<1> DEFINE r == Append(q, e)
<1>1. /\ r \in Seq(S) /\ DOMAIN q = 1 .. Len(q) /\ DOMAIN r = 1 .. (Len(q) + 1) /\ Len(q) \in Nat
      /\ \A n \in 1 .. Len(q) : r[n] = q[n]
      /\ r[Len(q) + 1] = e
  OBVIOUS
<1>2. \A n \in 1 .. Len(q) : r[n] # e
  BY <1>1 DEF Range
<1>3. Range(r) = Range(q) \cup {e}
  BY <1>1 DEF Range
<1>4. \A m, n \in DOMAIN r : r[m] = r[n] => m = n
  BY <1>1, <1>2
<1>5. q # <<>> => Head(r) = Head(q)
  OBVIOUS
<1>6. QED
  BY <1>1, <1>3, <1>4, <1>5

LEMMA LeaveChain ==
  ASSUME NEW S, NEW q \in Seq(S), q # <<>>,
         \A m, n \in DOMAIN q : q[m] = q[n] => m = n
  PROVE  /\ Tail(q) \in Seq(S) /\ Range(Tail(q)) = Range(q) \ {Head(q)}
         /\ \A m, n \in DOMAIN Tail(q) : Tail(q)[m] = Tail(q)[n] => m = n
<1> DEFINE r == Tail(q)
<1>1. /\ r \in Seq(S) /\ DOMAIN q = 1 .. Len(q) /\ DOMAIN r = 1 .. (Len(q) - 1)
      /\ Len(q) \in Nat /\ Len(q) > 0 /\ Head(q) = q[1]
      /\ \A n \in 1 .. (Len(q) - 1) : r[n] = q[n + 1]
  OBVIOUS
<1>2. \A m, n \in DOMAIN r : r[m] = r[n] => m = n
  BY <1>1
<1>3. Range(r) \subseteq Range(q) \ {Head(q)}
  <2> SUFFICES ASSUME NEW n \in DOMAIN r
               PROVE  r[n] \in Range(q) \ {Head(q)}
    BY DEF Range
  <2>1. n + 1 \in DOMAIN q /\ n + 1 # 1 /\ r[n] = q[n + 1]
    BY <1>1
  <2>2. QED
    BY <2>1, <1>1 DEF Range
<1>4. Range(q) \ {Head(q)} \subseteq Range(r)
  <2> SUFFICES ASSUME NEW n \in DOMAIN q, q[n] # Head(q)
               PROVE  q[n] \in Range(r)
    BY DEF Range
  <2>1. n - 1 \in DOMAIN r /\ r[n - 1] = q[n]
    BY <1>1
  <2>2. QED
    BY <2>1 DEF Range
<1>5. QED
  BY <1>1, <1>2, <1>3, <1>4

LEMMA QueueNotEmpty ==
  ASSUME Typed, NEW i \in Range(queue)
  PROVE  queue # <<>>
  BY DEF Range

LEMMA EmptyText == Empty \in [Files -> Text] /\ \A f \in Files : Empty[f].has = {}
  BY DEF Empty, Text

\* The part of a copy that is filled from the shared worktree.
LEMMA WithBaseIs ==
  ASSUME Typed, NEW i \in Instances, NEW F \in SUBSET Files
  PROVE  /\ WithBase(i, F) \in [Instances -> [Files -> Text]]
         /\ \A j \in Instances \ {i} : WithBase(i, F)[j] = copy[j]
         /\ \A f \in Files : WithBase(i, F)[i][f] = IF f \in F THEN base[f] ELSE copy[i][f]
  BY DEF Typed, WithBase

LEMMA SeenLess ==
  ASSUME Typed, NEW i \in Instances, seen' = seen \/ seen' = [seen EXCEPT ![i] = Empty]
  PROVE  /\ seen' \in [Instances -> [Files -> Text]]
         /\ \A j \in Instances, f \in Files :
              seen'[j][f].has \subseteq seen[j][f].has
         /\ \A j \in Instances \ {i} : seen'[j] = seen[j]
<1>1. CASE seen' = seen
  BY <1>1 DEF Typed
<1>2. CASE seen' = [seen EXCEPT ![i] = Empty]
  BY <1>2, EmptyText DEF Typed
<1>3. QED
  BY <1>1, <1>2

\* One more of what is counted.
LEMMA SpentMore ==
  ASSUME Typed
  PROVE  /\ \A f \in Nat :
              [spent EXCEPT !.faults = f] \in [runs : 0..MaxRuns, direct : Nat, faults : Nat]
         /\ \A d \in Nat :
              [spent EXCEPT !.direct = d] \in [runs : 0..MaxRuns, direct : Nat, faults : Nat]
         /\ \A r \in 0..MaxRuns :
              [spent EXCEPT !.runs = r] \in [runs : 0..MaxRuns, direct : Nat, faults : Nat]
         /\ spent.runs \in 0..MaxRuns /\ spent.direct \in Nat /\ spent.faults \in Nat
         /\ \A n \in Nat : /\ [spent EXCEPT !.faults = n].runs = spent.runs
                          /\ [spent EXCEPT !.direct = n].runs = spent.runs
                          /\ [spent EXCEPT !.runs = n].runs = n
<1> DEFINE R == 0 .. MaxRuns
<1>1. spent \in [runs : R, direct : Nat, faults : Nat]
  BY DEF Typed
<1>2. spent.runs \in R /\ spent.direct \in Nat /\ spent.faults \in Nat
  BY <1>1
<1> HIDE DEF R
<1>3. QED
  BY <1>1, <1>2 DEF R

\* The removal of a copy, or the failure of it.
LEMMA RemovalIs ==
  ASSUME Typed, NEW i \in Instances, Removed(i) \/ NotRemoved(i)
  PROVE  /\ disk' \subseteq disk /\ disk \ {i} \subseteq disk'
         /\ copy' \in [Instances -> [Files -> Text]] /\ seed' \in [Instances -> [Files -> Text]]
         /\ \A j \in Instances \ {i} : copy'[j] = copy[j] /\ seed'[j] = seed[j]
         /\ \A f \in Files :
              copy'[i][f].has \subseteq copy[i][f].has /\ seed'[i][f].has \subseteq seed[i][f].has
         /\ i \in disk' => copy' = copy /\ seed' = seed
         /\ spent' \in [runs : 0..MaxRuns, direct : Nat, faults : Nat] /\ spent'.runs = spent.runs
<1>1. CASE Removed(i)
  <2>1. /\ disk' = disk \ {i} /\ spent' = spent
        /\ copy' = [copy EXCEPT ![i] = Empty] /\ seed' = [seed EXCEPT ![i] = Empty]
    BY <1>1 DEF Removed
  <2>2. QED
    BY <2>1, EmptyText DEF Typed
<1>2. CASE NotRemoved(i)
  <2>1. spent' = [spent EXCEPT !.faults = spent.faults + 1] /\ UNCHANGED <<disk, copy, seed>>
    BY <1>2 DEF NotRemoved, Spend
  <2>2. spent' \in [runs : 0..MaxRuns, direct : Nat, faults : Nat] /\ spent'.runs = spent.runs
    BY <2>1, SpentMore
  <2>3. QED
    BY <2>1, <2>2 DEF Typed
<1>3. QED
  BY <1>1, <1>2

LEMMA NumbersTyped ==
  ASSUME Typed
  PROVE  spent.runs \in Nat /\ \A i \in Instances : run[i] \in Nat
  BY DEF Typed

LEMMA ChangeTyped ==
  ASSUME Typed, Counted, NEW i \in Instances, at[i] # "idle"
  PROVE  Change(i) \in Changes
  BY DEF Typed, Counted, Change, Changes

LEMMA InitSwarm == Init => SwarmInv
<1> SUFFICES ASSUME Init
             PROVE  SwarmInv
  OBVIOUS
<1>1. Typed
  <2>1. 0 \in 0 .. MaxRuns /\ spent \in [runs : 0..MaxRuns, direct : Nat, faults : Nat]
    BY DEF Init
  <2>2. queue \in Seq(Instances)
    BY DEF Init
  <2>3. QED
    BY EmptyText, <2>1, <2>2 DEF Init, Typed
<1>2. Line
  BY DEF Init, Line, Range
<1>3. Counted /\ Entries /\ Undecided /\ MergedIsIn
  BY DEF Init, Counted, Entries, Undecided, MergedIsIn
<1>4. Old
  BY EmptyText DEF Init, Old, Nowhere
<1>5. Fresh /\ Baseline
  BY EmptyText DEF Init, Fresh, Baseline
<1>6. Kept /\ Seeds
  BY DEF Init, Kept, Seeds, IntegratedStays
<1>7. QED
  BY <1>1, <1>2, <1>3, <1>4, <1>5, <1>6 DEF SwarmInv


\* A delegation is over, and nothing but its place in the chain is touched.
LEMMA IdleKeeps ==
  ASSUME SwarmInv, NEW i \in Instances, at[i] # "idle", Typed', Line',
         at' = [at EXCEPT ![i] = "idle"], UNCHANGED <<shared, run, copies, task, history>>,
         seen' = seen \/ seen' = [seen EXCEPT ![i] = Empty], spent'.runs = spent.runs,
         \A j \in Instances \ {i} : outcome'[j] = outcome[j]
  PROVE  SwarmInv'
<1> USE DEF SwarmInv
<1>1. /\ at'[i] = "idle" /\ \A j \in Instances \ {i} : at'[j] = at[j] /\ outcome'[j] = outcome[j]
      /\ base' = base /\ run' = run /\ live' = live /\ disk' = disk /\ copy' = copy
      /\ seed' = seed
      /\ dropping' = dropping /\ closed' = closed /\ known' = known /\ others' = others
      /\ accepted' = accepted /\ spent'.runs = spent.runs
      /\ \A j \in Instances, f \in Files : seen'[j][f].has \subseteq seen[j][f].has
      /\ \A j \in Instances \ {i} : seen'[j] = seen[j]
  BY SeenLess DEF Typed, shared, copies, task, history
<1>2. ASSUME NEW c, Nowhere(c)
      PROVE  Nowhere(c)'
  BY <1>1, <1>2 DEF Nowhere
<1>3. ASSUME NEW c, NEW k \in Instances, OnlyAt(c, k)
      PROVE  OnlyAt(c, k)'
  BY <1>1, <1>3 DEF OnlyAt
<1>4. Typed'
  OBVIOUS
<1>5. Line'
  OBVIOUS
<1>6. Counted'
  BY <1>1, NumbersTyped DEF Counted
<1>7. Entries'
  BY <1>1, NumbersTyped DEF Entries
<1>8. Old'
  BY <1>1, <1>2, NumbersTyped DEF Old
<1>9. Fresh'
  BY <1>1, <1>2, <1>3, NumbersTyped DEF Fresh
<1>10. Kept'
  BY <1>1, NumbersTyped DEF Kept, IntegratedStays
<1>11. Seeds'
  BY <1>1, NumbersTyped DEF Seeds
<1>12. Baseline'
  BY <1>1, NumbersTyped DEF Baseline
<1>13. Undecided'
  BY <1>1, NumbersTyped DEF Undecided
<1>14. MergedIsIn'
  BY <1>1, NumbersTyped DEF MergedIsIn, Change
<1>15. QED
  BY <1>4, <1>5, <1>6, <1>7, <1>8, <1>9, <1>10, <1>11, <1>12, <1>13, <1>14

\* A run begins, with a number that no text carries.
LEMMA PrepareKeeps ==
  ASSUME SwarmInv, NEW i \in Instances, Prepare(i)
  PROVE  SwarmInv'
<1> USE DEF SwarmInv
<1>1. /\ ~closed /\ at[i] = "idle" /\ at'[i] = "clearing"
      /\ \A j \in Instances \ {i} : at'[j] = at[j]
      /\ spent.runs < MaxRuns /\ spent'.runs = spent.runs + 1
      /\ run'[i] = spent.runs + 1 /\ \A j \in Instances \ {i} : run'[j] = run[j]
      /\ outcome'[i] = "none" /\ \A j \in Instances \ {i} : outcome'[j] = outcome[j]
      /\ live' = live \ {i} /\ known'[i] = accepted
      /\ \A j \in Instances \ {i} : known'[j] = known[j] /\ others'[j] = others[j]
      /\ base' = base /\ disk' = disk /\ copy' = copy /\ seed' = seed /\ queue' = queue
      /\ seen' = seen
      /\ dropping' = dropping /\ closed' = closed /\ accepted' = accepted
  BY DEF Prepare, Typed, shared, task
<1>2. ASSUME NEW c, Nowhere(c)
      PROVE  Nowhere(c)'
  BY <1>1, <1>2 DEF Nowhere
<1>3. ASSUME NEW c, NEW k \in Instances, OnlyAt(c, k)
      PROVE  OnlyAt(c, k)'
  BY <1>1, <1>3 DEF OnlyAt
<1>4. Typed'
  <2>1. run' \in [Instances -> 0..MaxRuns]
    BY DEF Prepare, Typed
  <2>2. spent' \in [runs : 0..MaxRuns, direct : Nat, faults : Nat]
    <3>1. spent' = [spent EXCEPT !.runs = spent.runs + 1] /\ spent.runs + 1 \in 0..MaxRuns
      BY SpentMore DEF Prepare
    <3>2. QED
      BY <3>1, SpentMore
  <2>3. known' \in [Instances -> SUBSET (Changes \X Files)]
    BY DEF Prepare, Typed
  <2>4. QED
    BY <2>1, <2>2, <2>3 DEF Prepare, Typed, shared, task
<1>5. Line'
  BY <1>1, NumbersTyped DEF Line, Turn, Typed
<1>6. Counted'
  BY <1>1, NumbersTyped DEF Counted
<1>7. Entries'
  BY <1>1, NumbersTyped DEF Entries
<1>8. Old'
  BY <1>1, <1>2, NumbersTyped DEF Old
<1>9. Fresh'
  <2>1. \A n \in Nat : n > spent.runs => Nowhere(<<i, n>>)'
    BY <1>2 DEF Old
  <2>2. QED
    BY <2>1, <1>1, <1>2, <1>3, NumbersTyped DEF Fresh
<1>10. Kept'
  BY <1>1, NumbersTyped DEF Kept, IntegratedStays
<1>11. Seeds'
  BY <1>1, NumbersTyped DEF Seeds
<1>12. Baseline'
  BY <1>1, NumbersTyped DEF Baseline
<1>13. Undecided'
  BY <1>1, NumbersTyped DEF Undecided
<1>14. MergedIsIn'
  BY <1>1, NumbersTyped DEF MergedIsIn, Change
<1>15. QED
  BY <1>4, <1>5, <1>6, <1>7, <1>8, <1>9, <1>10, <1>11, <1>12, <1>13, <1>14

LEMMA ClearKeeps ==
  ASSUME SwarmInv, NEW i \in Instances, ClearCopy(i)
  PROVE  SwarmInv'
<1> USE DEF SwarmInv
<1>1. /\ at[i] = "clearing" /\ at'[i] = "adding" /\ \A j \in Instances \ {i} : at'[j] = at[j]
      /\ disk' \subseteq disk /\ disk \ {i} \subseteq disk'
      /\ \A j \in Instances \ {i} : copy'[j] = copy[j] /\ seed'[j] = seed[j]
      /\ \A f \in Files : /\ copy'[i][f].has \subseteq copy[i][f].has
                          /\ seed'[i][f].has \subseteq seed[i][f].has
      /\ i \in disk' => copy' = copy /\ seed' = seed
      /\ spent'.runs = spent.runs
      /\ base' = base /\ run' = run /\ live' = live /\ queue' = queue /\ seen' = seen
      /\ outcome' = outcome
      /\ dropping' = dropping /\ closed' = closed /\ known' = known /\ others' = others
      /\ accepted' = accepted
  BY RemovalIs DEF ClearCopy, Typed, shared, task, history
<1>2. ASSUME NEW c, Nowhere(c)
      PROVE  Nowhere(c)'
  BY <1>1, <1>2 DEF Nowhere
<1>3. ASSUME NEW c, NEW k \in Instances, OnlyAt(c, k)
      PROVE  OnlyAt(c, k)'
  BY <1>1, <1>3 DEF OnlyAt
<1>4. Typed'
  BY RemovalIs DEF ClearCopy, Typed, shared, task, history
<1>5. Line'
  BY <1>1, NumbersTyped DEF Line, Turn, Typed
<1>6. Counted'
  BY <1>1, NumbersTyped DEF Counted
<1>7. Entries'
  BY <1>1, NumbersTyped DEF Entries
<1>8. Old'
  BY <1>1, <1>2, NumbersTyped DEF Old
<1>9. Fresh'
  BY <1>1, <1>2, <1>3, NumbersTyped DEF Fresh
<1>10. Kept'
  BY <1>1, NumbersTyped DEF Kept, IntegratedStays
<1>11. Seeds'
  BY <1>1, NumbersTyped DEF Seeds
<1>12. Baseline'
  BY <1>1, NumbersTyped DEF Baseline
<1>13. Undecided'
  BY <1>1, NumbersTyped DEF Undecided
<1>14. MergedIsIn'
  BY <1>1, NumbersTyped DEF MergedIsIn, Change
<1>15. QED
  BY <1>4, <1>5, <1>6, <1>7, <1>8, <1>9, <1>10, <1>11, <1>12, <1>13, <1>14

\* The tracked files of a new copy are those of the shared worktree.
LEMMA AddKeeps ==
  ASSUME SwarmInv, NEW i \in Instances, AddCopy(i)
  PROVE  SwarmInv'
<1> USE DEF SwarmInv
<1>1. /\ at[i] = "adding" /\ i \notin disk /\ at'[i] = "seeding"
      /\ \A j \in Instances \ {i} : at'[j] = at[j]
      /\ disk' = disk \cup {i} /\ copy' \in [Instances -> [Files -> Text]]
      /\ \A j \in Instances \ {i} : copy'[j] = copy[j]
      /\ \A f \in Files : copy'[i][f] = IF f \in Tracked THEN base[f] ELSE copy[i][f]
      /\ base' = base /\ indexed' = indexed /\ run' = run /\ live' = live /\ seed' = seed
      /\ queue' = queue /\ seen' = seen /\ outcome' = outcome
      /\ spent' = spent /\ dropping' = dropping /\ closed' = closed /\ known' = known
      /\ others' = others /\ accepted' = accepted
  <2>1. Tracked \in SUBSET Files /\ copy' = WithBase(i, Tracked)
    BY DEF AddCopy, Files
  <2>2. QED
    BY <2>1, WithBaseIs DEF AddCopy, Typed, shared, task, history
<1>2. ASSUME NEW c, Nowhere(c)
      PROVE  Nowhere(c)'
  BY <1>1, <1>2 DEF Nowhere
<1>3. ASSUME NEW c, NEW k \in Instances, OnlyAt(c, k)
      PROVE  OnlyAt(c, k)'
  BY <1>1, <1>3 DEF OnlyAt
<1>4. Typed'
  BY <1>1 DEF AddCopy, Typed
<1>5. Line'
  BY <1>1, NumbersTyped DEF Line, Turn, Typed
<1>6. Counted'
  BY <1>1, NumbersTyped DEF Counted
<1>7. Entries'
  BY <1>1, NumbersTyped DEF Entries
<1>8. Old'
  BY <1>1, <1>2, NumbersTyped DEF Old
<1>9. Fresh'
  BY <1>1, <1>2, <1>3, NumbersTyped DEF Fresh
<1>10. Kept'
  BY <1>1, NumbersTyped DEF Kept, IntegratedStays
<1>11. Seeds'
  <2>1. \A p \in known[i] : p[2] \in Files /\ p[1] \in base[p[2]].has
    BY DEF Seeds, Kept, IntegratedStays, Typed
  <2>2. QED
    BY <2>1, <1>1 DEF Seeds
<1>12. Baseline'
  BY <1>1, NumbersTyped DEF Baseline
<1>13. Undecided'
  BY <1>1, NumbersTyped DEF Undecided
<1>14. MergedIsIn'
  BY <1>1, NumbersTyped DEF MergedIsIn, Change
<1>15. QED
  BY <1>4, <1>5, <1>6, <1>7, <1>8, <1>9, <1>10, <1>11, <1>12, <1>13, <1>14

\* Then come the untracked ones, and the baseline.
LEMMA SeedKeeps ==
  ASSUME SwarmInv, NEW i \in Instances, SeedUntracked(i)
  PROVE  SwarmInv'
<1> USE DEF SwarmInv
<1>1. /\ at[i] = "seeding" /\ at'[i] = "working" /\ \A j \in Instances \ {i} : at'[j] = at[j]
      /\ live' = live \cup {i} /\ copy' \in [Instances -> [Files -> Text]]
      /\ \A j \in Instances \ {i} : copy'[j] = copy[j] /\ seed'[j] = seed[j]
      /\ \A f \in Files : copy'[i][f] = IF f \in Untracked THEN base[f] ELSE copy[i][f]
      /\ seed' \in [Instances -> [Files -> Text]] /\ seed'[i] = copy'[i]
      /\ base' = base /\ indexed' = indexed /\ run' = run /\ disk' = disk /\ queue' = queue
      /\ seen' = seen /\ outcome' = outcome
      /\ spent' = spent /\ dropping' = dropping /\ closed' = closed /\ known' = known
      /\ others' = others /\ accepted' = accepted
  <2>1. Untracked \in SUBSET Files /\ copy' = WithBase(i, Untracked)
    BY DEF SeedUntracked, Files
  <2>2. /\ copy' \in [Instances -> [Files -> Text]]
        /\ \A j \in Instances \ {i} : copy'[j] = copy[j]
        /\ \A f \in Files : copy'[i][f] = IF f \in Untracked THEN base[f] ELSE copy[i][f]
    BY <2>1, WithBaseIs
  <2>3. seed' = [seed EXCEPT ![i] = copy'[i]]
    BY DEF SeedUntracked
  <2>4. QED
    BY <2>2, <2>3 DEF SeedUntracked, Typed, shared, task, history
<1>2. ASSUME NEW c, Nowhere(c)
      PROVE  Nowhere(c)'
  BY <1>1, <1>2 DEF Nowhere
<1>3. ASSUME NEW c, NEW k \in Instances, OnlyAt(c, k), k # i
      PROVE  OnlyAt(c, k)'
  <2>1. \A f \in Files : c \notin copy'[i][f].has
    BY <1>1, <1>3 DEF OnlyAt
  <2>2. \A f \in Files : c \notin seed'[i][f].has
    BY <2>1, <1>1
  <2>3. QED
    BY <1>1, <1>3, <2>1, <2>2 DEF OnlyAt
<1>4. Typed'
  BY <1>1 DEF SeedUntracked, Typed
<1>5. Line'
  BY <1>1, NumbersTyped DEF Line, Turn, Typed
<1>6. Counted'
  BY <1>1, NumbersTyped DEF Counted
<1>7. Entries'
  BY <1>1, NumbersTyped DEF Entries
<1>8. Old'
  BY <1>1, <1>2, NumbersTyped DEF Old
<1>9. Fresh'
  BY <1>1, <1>2, <1>3, NumbersTyped DEF Fresh
<1>10. Kept'
  BY <1>1, NumbersTyped DEF Kept, IntegratedStays
<1>11. Seeds'
  <2>1. \A p \in known[i] : p[2] \in Files /\ p[1] \in base[p[2]].has
    BY DEF Seeds, Kept, IntegratedStays, Typed
  <2>2. QED
    BY <2>1, <1>1 DEF Seeds, Files
<1>12. Baseline'
  <2>1. \A f \in Files : f \in Tracked \/ f \in Untracked
    BY DEF Files
  <2>2. QED
    BY <2>1, <1>1 DEF Baseline
<1>13. Undecided'
  BY <1>1, NumbersTyped DEF Undecided
<1>14. MergedIsIn'
  BY <1>1, NumbersTyped DEF MergedIsIn, Change
<1>15. QED
  BY <1>4, <1>5, <1>6, <1>7, <1>8, <1>9, <1>10, <1>11, <1>12, <1>13, <1>14

\* The worker writes, and joins the chain.
LEMMA WriteKeeps ==
  ASSUME SwarmInv, NEW i \in Instances, NEW F \in SUBSET Files, Write(i, F)
  PROVE  SwarmInv'
<1> USE DEF SwarmInv
<1>1. /\ at[i] = "working" /\ at'[i] = "merging" /\ \A j \in Instances \ {i} : at'[j] = at[j]
      /\ copy' \in [Instances -> [Files -> Text]] /\ queue' = Append(queue, i)
      /\ \A j \in Instances \ {i} : copy'[j] = copy[j]
      /\ \A f \in Files : copy'[i][f].has \subseteq copy[i][f].has \cup {Change(i)}
      /\ known'[i] = {} /\ \A j \in Instances \ {i} : known'[j] = known[j]
      /\ base' = base /\ indexed' = indexed /\ run' = run /\ live' = live /\ disk' = disk
      /\ seed' = seed /\ seen' = seen /\ outcome' = outcome
      /\ spent' = spent /\ dropping' = dropping /\ closed' = closed /\ others' = others
      /\ accepted' = accepted
  BY ChangeTyped DEF Write, Typed, shared, task, Text
<1>2. i \notin Range(queue)
  BY <1>1 DEF Line
<1>3. ASSUME NEW c, Nowhere(c), c # Change(i)
      PROVE  Nowhere(c)'
  BY <1>1, <1>3 DEF Nowhere
<1>4. ASSUME NEW c, NEW k \in Instances, OnlyAt(c, k), c # Change(i) \/ k = i
      PROVE  OnlyAt(c, k)'
  BY <1>1, <1>4 DEF OnlyAt
<1>5. Typed'
  <2>1. queue' \in Seq(Instances) /\ known' \in [Instances -> SUBSET (Changes \X Files)]
    BY <1>1 DEF Write, Typed
  <2>2. QED
    BY <1>1, <2>1 DEF Write, Typed
<1>6. Line'
  <2>1. /\ Range(queue') = Range(queue) \cup {i}
        /\ \A m, n \in DOMAIN queue' : queue'[m] = queue'[n] => m = n
        /\ queue # <<>> => Head(queue') = Head(queue)
    <3>1. queue \in Seq(Instances)
      BY DEF Typed
    <3>2. \A m, n \in DOMAIN queue : queue[m] = queue[n] => m = n
      BY DEF Line
    <3>3. queue' = Append(queue, i)
      BY <1>1
    <3>4. QED
      BY <3>1, <3>2, <3>3, <1>2, JoinChain
  <2>2. \A j \in Instances : at[j] \in {"applying", "merged"} => queue # <<>>
    BY QueueNotEmpty DEF Line
  <2>3. QED
    BY <1>1, <2>1, <2>2 DEF Line, Turn
<1>7. Counted'
  BY <1>1, NumbersTyped DEF Counted
<1>8. Entries'
  BY <1>1, NumbersTyped DEF Entries
<1>9. Old'
  <2>1. \A k \in Instances, n \in Nat : n > spent.runs => <<k, n>> # Change(i)
    BY NumbersTyped DEF Counted, Change
  <2>2. QED
    BY <1>1, <1>3, <2>1, NumbersTyped DEF Old
<1>10. Fresh'
  <2>1. \A k \in Instances \ {i}, n \in Nat : <<k, n>> # Change(i)
    BY DEF Change
  <2>2. \A n \in Nat : Nowhere(<<i, n>>) => OnlyAt(<<i, n>>, i)
    BY DEF Nowhere, OnlyAt
  <2>3. QED
    BY <1>1, <1>3, <1>4, <2>1, <2>2, NumbersTyped DEF Fresh
<1>11. Kept'
  BY <1>1, NumbersTyped DEF Kept, IntegratedStays
<1>12. Seeds'
  BY <1>1, NumbersTyped DEF Seeds
<1>13. Baseline'
  BY <1>1, NumbersTyped DEF Baseline
<1>14. Undecided'
  BY <1>1, NumbersTyped DEF Undecided
<1>15. MergedIsIn'
  BY <1>1, NumbersTyped DEF MergedIsIn, Change
<1>16. QED
  BY <1>5, <1>6, <1>7, <1>8, <1>9, <1>10, <1>11, <1>12, <1>13, <1>14, <1>15

\* Somebody else edits a file of the shared worktree.
LEMMA EditKeeps ==
  ASSUME SwarmInv, NEW g \in Files, EditShared(g)
  PROVE  SwarmInv'
<1> USE DEF SwarmInv
<1>1. /\ ~closed /\ base'[g].has = base[g].has \cup {<<Direct, spent.direct + 1>>}
      /\ \A f \in Files \ {g} : base'[f] = base[f]
      /\ \A j \in Instances : others'[j] = others[j] \cup {g}
      /\ spent'.runs = spent.runs
      /\ at' = at /\ run' = run /\ live' = live /\ disk' = disk /\ copy' = copy /\ seed' = seed
      /\ queue' = queue
      /\ seen' = seen /\ outcome' = outcome /\ dropping' = dropping /\ closed' = closed
      /\ known' = known /\ accepted' = accepted
  BY DEF EditShared, Typed, copies, task, Disturb, Text
<1>2. ASSUME NEW c, Nowhere(c), c # <<Direct, spent.direct + 1>>
      PROVE  Nowhere(c)'
  BY <1>1, <1>2 DEF Nowhere
<1>3. ASSUME NEW c, NEW k \in Instances, OnlyAt(c, k), c # <<Direct, spent.direct + 1>>
      PROVE  OnlyAt(c, k)'
  BY <1>1, <1>3 DEF OnlyAt
<1>4. Typed'
  <2>1. base' \in [Files -> Text]
    <3>1. <<Direct, spent.direct + 1>> \in Changes
      BY DEF EditShared, Upset, Typed, Changes
    <3>2. /\ base[g] \in Text
          /\ base' = [base EXCEPT ![g].has = @ \cup {<<Direct, spent.direct + 1>>}]
      BY DEF EditShared, Typed
    <3>3. [base[g] EXCEPT !.has = @ \cup {<<Direct, spent.direct + 1>>}] \in Text
      BY <3>1, <3>2 DEF Text
    <3>4. QED
      BY <3>2, <3>3 DEF Typed
  <2>2. spent' \in [runs : 0..MaxRuns, direct : Nat, faults : Nat]
    BY SpentMore DEF EditShared
  <2>3. others' \in [Instances -> SUBSET Files]
    BY DEF EditShared, Disturb, Typed
  <2>4. QED
    BY <2>1, <2>2, <2>3 DEF EditShared, Typed, copies, task
<1>5. Line'
  BY <1>1, NumbersTyped DEF Line, Turn, Typed
<1>6. Counted'
  BY <1>1, NumbersTyped DEF Counted
<1>7. Entries'
  BY <1>1, NumbersTyped DEF Entries
<1>8. Old'
  BY <1>1, <1>2, NumbersTyped DEF Old
<1>9. Fresh'
  BY <1>1, <1>2, <1>3, NumbersTyped DEF Fresh
<1>10. Kept'
  BY <1>1 DEF Kept, IntegratedStays, Typed
<1>11. Seeds'
  BY <1>1, NumbersTyped DEF Seeds
<1>12. Baseline'
  BY <1>1, NumbersTyped DEF Baseline
<1>13. Undecided'
  BY <1>1, NumbersTyped DEF Undecided
<1>14. MergedIsIn'
  BY <1>1, NumbersTyped DEF MergedIsIn, Change
<1>15. QED
  BY <1>4, <1>5, <1>6, <1>7, <1>8, <1>9, <1>10, <1>11, <1>12, <1>13, <1>14

LEMMA NothingKeeps ==
  ASSUME SwarmInv, NEW i \in Instances, MergeOfNothing(i)
  PROVE  SwarmInv'
<1> USE DEF SwarmInv
<1>1. /\ at[i] = "merging" /\ Turn(i) /\ at'[i] = "merged"
      /\ \A j \in Instances \ {i} : at'[j] = at[j]
      /\ live' = live \ {i} /\ \A f \in Files : copy[i][f] = seed[i][f]
      /\ base' = base /\ indexed' = indexed /\ run' = run /\ disk' = disk /\ copy' = copy
      /\ seed' = seed /\ queue' = queue /\ seen' = seen /\ outcome' = outcome
      /\ spent' = spent /\ dropping' = dropping /\ closed' = closed /\ known' = known
      /\ others' = others /\ accepted' = accepted
  BY DEF MergeOfNothing, Patch, Typed, shared, task, history
<1>2. ASSUME NEW c, Nowhere(c)
      PROVE  Nowhere(c)'
  BY <1>1, <1>2 DEF Nowhere
<1>3. ASSUME NEW c, NEW k \in Instances, OnlyAt(c, k)
      PROVE  OnlyAt(c, k)'
  BY <1>1, <1>3 DEF OnlyAt
<1>4. Typed'
  BY <1>1 DEF MergeOfNothing, Typed
<1>5. Line'
  <2>1. Range(queue') = {j \in Instances : at'[j] \in {"merging", "applying", "merged"}}
    BY <1>1 DEF Line
  <2>2. QED
    BY <1>1, <2>1 DEF Line, Turn
<1>6. Counted'
  BY <1>1, NumbersTyped DEF Counted
<1>7. Entries'
  BY <1>1, NumbersTyped DEF Entries
<1>8. Old'
  BY <1>1, <1>2, NumbersTyped DEF Old
<1>9. Fresh'
  BY <1>1, <1>2, <1>3, NumbersTyped DEF Fresh
<1>10. Kept'
  BY <1>1, NumbersTyped DEF Kept, IntegratedStays
<1>11. Seeds'
  BY <1>1, NumbersTyped DEF Seeds
<1>12. Baseline'
  BY <1>1, NumbersTyped DEF Baseline
<1>13. Undecided'
  BY <1>1, NumbersTyped DEF Undecided
<1>14. MergedIsIn'
  <2>1. \A f \in Files : Change(i) \notin copy[i][f].has
    BY <1>1, NumbersTyped DEF Fresh, OnlyAt, Change
  <2>2. QED
    BY <1>1, <2>1 DEF MergedIsIn, Change
<1>15. QED
  BY <1>4, <1>5, <1>6, <1>7, <1>8, <1>9, <1>10, <1>11, <1>12, <1>13, <1>14

LEMMA ReadsKeeps ==
  ASSUME SwarmInv, NEW i \in Instances, MergeReads(i)
  PROVE  SwarmInv'
<1> USE DEF SwarmInv
<1>1. /\ at[i] = "merging" /\ Turn(i) /\ at'[i] = "applying"
      /\ \A j \in Instances \ {i} : at'[j] = at[j]
      /\ seen'[i] = base /\ \A j \in Instances \ {i} : seen'[j] = seen[j]
      /\ base' = base /\ indexed' = indexed /\ run' = run /\ live' = live /\ disk' = disk
      /\ copy' = copy /\ seed' = seed /\ queue' = queue /\ outcome' = outcome
      /\ spent' = spent /\ dropping' = dropping /\ closed' = closed /\ known' = known
      /\ others' = others /\ accepted' = accepted
  BY DEF MergeReads, Typed, shared, copies, task, history
<1>2. ASSUME NEW c, Nowhere(c)
      PROVE  Nowhere(c)'
  BY <1>1, <1>2 DEF Nowhere
<1>3. ASSUME NEW c, NEW k \in Instances, OnlyAt(c, k)
      PROVE  OnlyAt(c, k)'
  BY <1>1, <1>3 DEF OnlyAt
<1>4. Typed'
  BY <1>1 DEF MergeReads, Typed
<1>5. Line'
  BY <1>1, NumbersTyped DEF Line, Turn, Typed
<1>6. Counted'
  BY <1>1, NumbersTyped DEF Counted
<1>7. Entries'
  BY <1>1, NumbersTyped DEF Entries
<1>8. Old'
  BY <1>1, <1>2, NumbersTyped DEF Old
<1>9. Fresh'
  BY <1>1, <1>2, <1>3, NumbersTyped DEF Fresh
<1>10. Kept'
  BY <1>1, NumbersTyped DEF Kept, IntegratedStays
<1>11. Seeds'
  BY <1>1, NumbersTyped DEF Seeds
<1>12. Baseline'
  BY <1>1, NumbersTyped DEF Baseline
<1>13. Undecided'
  BY <1>1, NumbersTyped DEF Undecided
<1>14. MergedIsIn'
  BY <1>1, NumbersTyped DEF MergedIsIn, Change
<1>15. QED
  BY <1>4, <1>5, <1>6, <1>7, <1>8, <1>9, <1>10, <1>11, <1>12, <1>13, <1>14

\* All of a patch went in: it has what the merge had read, and what the instance did.
LEMMA LandsKeeps ==
  ASSUME SwarmInv, NEW i \in Instances, Lands(i)
  PROVE  SwarmInv'
<1> USE DEF SwarmInv
<1>1. /\ at[i] = "applying" /\ at'[i] = "merged" /\ \A j \in Instances \ {i} : at'[j] = at[j]
      /\ \A f \in Files : base'[f].has = IF f \in Patch(i) THEN seen[i][f].has \cup copy[i][f].has
                                        ELSE base[f].has
      /\ \A f \in Files \ Patch(i) : base'[f] = base[f]
      /\ accepted' =
           accepted \cup ({Change(i)} \X {f \in Patch(i) : Change(i) \in copy[i][f].has})
      /\ \A j \in Instances \ {i} : others'[j] = others[j] \cup Patch(i)
      /\ live' = live \ {i} /\ \A f \in Files : seen'[i][f].has = {}
      /\ \A j \in Instances \ {i} : seen'[j] = seen[j]
      /\ run' = run /\ disk' = disk /\ copy' = copy /\ seed' = seed /\ queue' = queue
      /\ outcome' = outcome /\ spent' = spent
      /\ dropping' = dropping /\ closed' = closed /\ known' = known
  BY EmptyText DEF Lands, Applied, Disturb, Typed, task, Patch
<1>2. ASSUME NEW c, Nowhere(c)
      PROVE  Nowhere(c)'
  BY <1>1, <1>2 DEF Nowhere
<1>3. ASSUME NEW c, NEW k \in Instances, OnlyAt(c, k), k # i
      PROVE  OnlyAt(c, k)'
  BY <1>1, <1>3 DEF OnlyAt
<1>4. Typed'
  <2>1. base' \in [Files -> Text]
    <3>1. \A f \in Files : [has |-> seen[i][f].has \cup copy[i][f].has,
                            marked |-> seen[i][f].marked /\ copy[i][f].marked] \in Text
      BY DEF Typed, Text
    <3>2. QED
      BY <3>1 DEF Lands, Applied, Typed
  <2>2. seen' \in [Instances -> [Files -> Text]]
    BY SeenLess DEF Lands
  <2>3. others' \in [Instances -> SUBSET Files] /\ indexed' \subseteq Tracked
    BY DEF Lands, Disturb, Patch, Typed
  <2>4. accepted' \subseteq Changes \X Files
    BY <1>1, ChangeTyped DEF Patch, Typed
  <2>5. QED
    BY <2>1, <2>2, <2>3, <2>4 DEF Lands, Typed, task
<1>5. Line'
  BY <1>1, NumbersTyped DEF Line, Turn, Typed
<1>6. Counted'
  BY <1>1, NumbersTyped DEF Counted
<1>7. Entries'
  BY <1>1, NumbersTyped DEF Entries
<1>8. Old'
  BY <1>1, <1>2, NumbersTyped DEF Old
<1>9. Fresh'
  BY <1>1, <1>2, <1>3, NumbersTyped DEF Fresh
<1>10. Kept'
  <2>1. \A p \in accepted' : p[2] \in Files /\ p[1] \in base'[p[2]].has
    <3>1. \A p \in accepted :
            p[2] \in Files /\ p[1] \in base[p[2]].has /\ p[1] \in seen[i][p[2]].has
      BY <1>1 DEF Kept, IntegratedStays, Typed
    <3>2. \A p \in {Change(i)} \X {f \in Patch(i) : Change(i) \in copy[i][f].has} :
            p[2] \in Files /\ p[2] \in Patch(i) /\ p[1] \in copy[i][p[2]].has
      BY DEF Patch
    <3>3. \A f \in Files : base'[f].has = IF f \in Patch(i) THEN seen[i][f].has \cup copy[i][f].has
                                        ELSE base[f].has
      BY <1>1
    <3>4. \A p \in accepted : p[1] \in base'[p[2]].has
      BY <3>1, <3>3
    <3>5. \A p \in {Change(i)} \X {f \in Patch(i) : Change(i) \in copy[i][f].has} :
            p[1] \in base'[p[2]].has
      BY <3>2, <3>3
    <3>6. accepted' =
            accepted \cup ({Change(i)} \X {f \in Patch(i) : Change(i) \in copy[i][f].has})
      BY <1>1
    <3>7. QED
      BY <3>1, <3>2, <3>4, <3>5, <3>6
  <2>2. \A j \in Instances : at'[j] # "applying"
    BY <1>1 DEF Line, Turn
  <2>3. QED
    BY <2>1, <2>2 DEF Kept, IntegratedStays
<1>11. Seeds'
  BY <1>1, NumbersTyped DEF Seeds
<1>12. Baseline'
  BY <1>1, NumbersTyped DEF Baseline
<1>13. Undecided'
  BY <1>1, NumbersTyped DEF Undecided
<1>14. MergedIsIn'
  <2>1. \A f \in Files : Change(i) \in copy[i][f].has => f \in Patch(i)
    BY <1>1, NumbersTyped DEF Fresh, OnlyAt, Change, Patch
  <2>2. \A f \in Files : Change(i) \in copy[i][f].has => <<Change(i), f>> \in accepted'
    BY <1>1, <2>1
  <2>3. QED
    BY <1>1, <2>2 DEF MergedIsIn, Change
<1>15. QED
  BY <1>4, <1>5, <1>6, <1>7, <1>8, <1>9, <1>10, <1>11, <1>12, <1>13, <1>14

\* A merge stops with some of its files in conflict, or with none written.
LEMMA ConflictKeeps ==
  ASSUME SwarmInv, NEW i \in Instances, Conflicts(i)
  PROVE  SwarmInv'
<1> USE DEF SwarmInv
<1>1. /\ at[i] = "applying" /\ at'[i] = "idle" /\ \A j \in Instances \ {i} : at'[j] = at[j]
      /\ \A f \in Files : \/ base'[f].has = base[f].has
                          \/ f \in Patch(i) /\ base'[f].has = seen[i][f].has \cup copy[i][f].has
      /\ \A j \in Instances \ {i}, f \in Files : base'[f] = base[f] \/ f \in others'[j]
      /\ \A j \in Instances \ {i} : others[j] \subseteq others'[j]
      /\ \A j \in Instances \ {i} : seen'[j] = seen[j] /\ outcome'[j] = outcome[j]
      /\ \A f \in Files : seen'[i][f].has = {}
      /\ queue' = Tail(queue)
      /\ run' = run /\ disk' = disk /\ copy' = copy /\ seed' = seed /\ live' = live
      /\ spent' = spent
      /\ dropping' = dropping /\ closed' = closed /\ known' = known /\ accepted' = accepted
  BY EmptyText DEF Conflicts, Settle, Applied, Disturb, Typed, task, copies, shared, Patch
<1>2. queue # <<>> /\ Head(queue) = i
  BY <1>1, QueueNotEmpty DEF Line, Turn
<1>3. /\ queue' \in Seq(Instances) /\ Range(queue') = Range(queue) \ {i}
      /\ \A m, n \in DOMAIN queue' : queue'[m] = queue'[n] => m = n
  <2>1. queue \in Seq(Instances)
    BY DEF Typed
  <2>2. \A m, n \in DOMAIN queue : queue[m] = queue[n] => m = n
    BY DEF Line
  <2>3. queue' = Tail(queue)
    BY <1>1
  <2>4. QED
    BY <2>1, <2>2, <2>3, <1>2, LeaveChain
<1>4. ASSUME NEW c, Nowhere(c)
      PROVE  Nowhere(c)'
  BY <1>1, <1>4 DEF Nowhere
<1>5. ASSUME NEW c, NEW k \in Instances, OnlyAt(c, k), k # i
      PROVE  OnlyAt(c, k)'
  BY <1>1, <1>5 DEF OnlyAt
<1>6. Typed'
  <2>1. base' \in [Files -> Text] /\ indexed' \subseteq Tracked
    <3>1. \A f \in Files, b \in BOOLEAN :
            [has |-> seen[i][f].has \cup copy[i][f].has, marked |-> b] \in Text
      BY DEF Typed, Text
    <3>2. CASE UNCHANGED shared
      BY <3>2 DEF shared, Typed
    <3>3. ASSUME NEW C \in SUBSET Moved(i), base' = Applied(i, Patch(i), C)
          PROVE  base' \in [Files -> Text]
      <4>1. \A f \in Files : (f \in C \/ (seen[i][f].marked /\ copy[i][f].marked)) \in BOOLEAN
        OBVIOUS
      <4>2. QED
        BY <3>1, <3>3, <4>1 DEF Applied, Typed
    <3>4. QED
      BY <3>2, <3>3 DEF Conflicts, Typed
  <2>2. seen' \in [Instances -> [Files -> Text]]
    BY SeenLess DEF Conflicts, Settle
  <2>3. others' \in [Instances -> SUBSET Files]
    <3>1. others' = others \/ others' = Disturb(i, Patch(i))
      BY DEF Conflicts
    <3>2. Disturb(i, Patch(i)) \in [Instances -> SUBSET Files]
      BY DEF Disturb, Patch, Typed
    <3>3. QED
      BY <3>1, <3>2 DEF Typed
  <2>4. QED
    BY <1>3, <2>1, <2>2, <2>3 DEF Conflicts, Settle, Typed, task, copies
<1>7. Line'
  BY <1>1, <1>2, <1>3 DEF Line, Turn
<1>8. Counted'
  BY <1>1, NumbersTyped DEF Counted
<1>9. Entries'
  BY <1>1, NumbersTyped DEF Entries
<1>10. Old'
  BY <1>1, <1>4, NumbersTyped DEF Old
<1>11. Fresh'
  BY <1>1, <1>4, <1>5, NumbersTyped DEF Fresh
<1>12. Kept'
  <2>1. \A p \in accepted :
          p[2] \in Files /\ p[1] \in base[p[2]].has /\ p[1] \in seen[i][p[2]].has
    BY <1>1 DEF Kept, IntegratedStays, Typed
  <2>2. \A j \in Instances : at'[j] # "applying"
    BY <1>1 DEF Line, Turn
  <2>3. QED
    BY <1>1, <2>1, <2>2 DEF Kept, IntegratedStays
<1>13. Seeds'
  BY <1>1, NumbersTyped DEF Seeds
<1>14. Baseline'
  BY <1>1, NumbersTyped DEF Baseline
<1>15. Undecided'
  BY <1>1, NumbersTyped DEF Undecided
<1>16. MergedIsIn'
  BY <1>1, NumbersTyped DEF MergedIsIn, Change
<1>17. QED
  BY <1>6, <1>7, <1>8, <1>9, <1>10, <1>11, <1>12, <1>13, <1>14, <1>15, <1>16

\* The copy of a merge that went in is removed, or its removal failed.
LEMMA EndKeeps ==
  ASSUME SwarmInv, NEW i \in Instances, MergeEnds(i)
  PROVE  SwarmInv'
<1> USE DEF SwarmInv
<1>1. /\ at[i] = "merged" /\ at'[i] = "idle" /\ \A j \in Instances \ {i} : at'[j] = at[j]
      /\ disk' \subseteq disk /\ disk \ {i} \subseteq disk'
      /\ \A j \in Instances \ {i} : copy'[j] = copy[j] /\ seed'[j] = seed[j]
      /\ \A f \in Files : /\ copy'[i][f].has \subseteq copy[i][f].has
                          /\ seed'[i][f].has \subseteq seed[i][f].has
      /\ i \in disk' => copy' = copy /\ seed' = seed
      /\ spent'.runs = spent.runs
      /\ \A j \in Instances \ {i} : seen'[j] = seen[j] /\ outcome'[j] = outcome[j]
      /\ \A f \in Files : seen'[i][f].has = {}
      /\ queue' = Tail(queue)
      /\ base' = base /\ run' = run /\ live' = live
      /\ dropping' = dropping /\ closed' = closed /\ known' = known /\ others' = others
      /\ accepted' = accepted
  BY EmptyText, RemovalIs DEF MergeEnds, Settle, Typed, shared, task, history
<1>2. queue # <<>> /\ Head(queue) = i
  BY <1>1, QueueNotEmpty DEF Line, Turn
<1>3. /\ queue' \in Seq(Instances) /\ Range(queue') = Range(queue) \ {i}
      /\ \A m, n \in DOMAIN queue' : queue'[m] = queue'[n] => m = n
  <2>1. queue \in Seq(Instances)
    BY DEF Typed
  <2>2. \A m, n \in DOMAIN queue : queue[m] = queue[n] => m = n
    BY DEF Line
  <2>3. queue' = Tail(queue)
    BY <1>1
  <2>4. QED
    BY <2>1, <2>2, <2>3, <1>2, LeaveChain
<1>4. ASSUME NEW c, Nowhere(c)
      PROVE  Nowhere(c)'
  BY <1>1, <1>4 DEF Nowhere
<1>5. ASSUME NEW c, NEW k \in Instances, OnlyAt(c, k)
      PROVE  OnlyAt(c, k)'
  BY <1>1, <1>5 DEF OnlyAt
<1>6. Typed'
  <2>1. seen' \in [Instances -> [Files -> Text]]
    BY SeenLess DEF MergeEnds, Settle
  <2>2. QED
    BY <1>3, <2>1, RemovalIs DEF MergeEnds, Settle, Typed, shared, task, history
<1>7. Line'
  BY <1>1, <1>2, <1>3 DEF Line, Turn
<1>8. Counted'
  BY <1>1, NumbersTyped DEF Counted
<1>9. Entries'
  BY <1>1, NumbersTyped DEF Entries
<1>10. Old'
  BY <1>1, <1>4, NumbersTyped DEF Old
<1>11. Fresh'
  BY <1>1, <1>4, <1>5, NumbersTyped DEF Fresh
<1>12. Kept'
  BY <1>1, NumbersTyped DEF Kept, IntegratedStays
<1>13. Seeds'
  BY <1>1, NumbersTyped DEF Seeds
<1>14. Baseline'
  BY <1>1, NumbersTyped DEF Baseline
<1>15. Undecided'
  BY <1>1, NumbersTyped DEF Undecided
<1>16. MergedIsIn'
  BY <1>1, NumbersTyped DEF MergedIsIn, Change
<1>17. QED
  BY <1>6, <1>7, <1>8, <1>9, <1>10, <1>11, <1>12, <1>13, <1>14, <1>15, <1>16

LEMMA TaskKeeps ==
  ASSUME SwarmInv, NextTask
  PROVE  SwarmInv'
<1> USE DEF SwarmInv
<1>1. /\ closed' /\ dropping' = live
      /\ base' = base /\ indexed' = indexed /\ at' = at /\ run' = run /\ live' = live
      /\ disk' = disk /\ copy' = copy /\ seed' = seed /\ queue' = queue /\ seen' = seen
      /\ outcome' = outcome
      /\ spent' = spent /\ known' = known /\ others' = others /\ accepted' = accepted
  BY DEF NextTask, Typed, shared, copies, history
<1>2. ASSUME NEW c, Nowhere(c)
      PROVE  Nowhere(c)'
  BY <1>1, <1>2 DEF Nowhere
<1>3. ASSUME NEW c, NEW k \in Instances, OnlyAt(c, k)
      PROVE  OnlyAt(c, k)'
  BY <1>1, <1>3 DEF OnlyAt
<1>4. Typed'
  BY <1>1 DEF Typed, NextTask
<1>5. Line'
  BY <1>1, NumbersTyped DEF Line, Turn, Typed
<1>6. Counted'
  BY <1>1, NumbersTyped DEF Counted
<1>7. Entries'
  BY <1>1, NumbersTyped DEF Entries
<1>8. Old'
  BY <1>1, <1>2, NumbersTyped DEF Old
<1>9. Fresh'
  BY <1>1, <1>2, <1>3, NumbersTyped DEF Fresh
<1>10. Kept'
  BY <1>1, NumbersTyped DEF Kept, IntegratedStays
<1>11. Seeds'
  BY <1>1, NumbersTyped DEF Seeds
<1>12. Baseline'
  BY <1>1, NumbersTyped DEF Baseline
<1>13. Undecided'
  BY <1>1, NumbersTyped DEF Undecided
<1>14. MergedIsIn'
  BY <1>1, NumbersTyped DEF MergedIsIn, Change
<1>15. QED
  BY <1>4, <1>5, <1>6, <1>7, <1>8, <1>9, <1>10, <1>11, <1>12, <1>13, <1>14

\* The next task drops the copies of the one before it.
LEMMA DropKeeps ==
  ASSUME SwarmInv, NEW i \in Instances, DropNext(i)
  PROVE  SwarmInv'
<1> USE DEF SwarmInv
<1>1. /\ dropping # {} /\ dropping' = dropping \ {i} /\ live' \subseteq live
      /\ disk' \subseteq disk /\ disk \ {i} \subseteq disk'
      /\ \A j \in Instances \ {i} : copy'[j] = copy[j] /\ seed'[j] = seed[j]
      /\ \A f \in Files : /\ copy'[i][f].has \subseteq copy[i][f].has
                          /\ seed'[i][f].has \subseteq seed[i][f].has
      /\ i \in disk' => copy' = copy /\ seed' = seed
      /\ spent'.runs = spent.runs
      /\ base' = base /\ at' = at /\ run' = run /\ queue' = queue /\ seen' = seen
      /\ outcome' = outcome
      /\ closed' = closed /\ known' = known /\ others' = others /\ accepted' = accepted
  <2>1. Removed(i) \/ NotRemoved(i) \/ UNCHANGED <<disk, copy, seed, spent>>
    BY DEF DropNext, copies
  <2>2. QED
    BY <2>1, RemovalIs DEF DropNext, Typed, shared, copies, task, history
<1>2. ASSUME NEW c, Nowhere(c)
      PROVE  Nowhere(c)'
  BY <1>1, <1>2 DEF Nowhere
<1>3. ASSUME NEW c, NEW k \in Instances, OnlyAt(c, k)
      PROVE  OnlyAt(c, k)'
  BY <1>1, <1>3 DEF OnlyAt
<1>4. Typed'
  <2>1. Removed(i) \/ NotRemoved(i) \/ UNCHANGED <<disk, copy, seed, spent>>
    BY DEF DropNext, copies
  <2>2. live' \subseteq live /\ dropping' \subseteq dropping
    BY <1>1
  <2>3. QED
    BY <2>1, <2>2, RemovalIs DEF DropNext, Typed, shared, task, history
<1>5. Line'
  BY <1>1, NumbersTyped DEF Line, Turn, Typed
<1>6. Counted'
  BY <1>1, NumbersTyped DEF Counted
<1>7. Entries'
  BY <1>1, NumbersTyped DEF Entries
<1>8. Old'
  BY <1>1, <1>2, NumbersTyped DEF Old
<1>9. Fresh'
  BY <1>1, <1>2, <1>3, NumbersTyped DEF Fresh
<1>10. Kept'
  BY <1>1, NumbersTyped DEF Kept, IntegratedStays
<1>11. Seeds'
  BY <1>1, NumbersTyped DEF Seeds
<1>12. Baseline'
  BY <1>1 DEF Baseline, Entries
<1>13. Undecided'
  BY <1>1, NumbersTyped DEF Undecided
<1>14. MergedIsIn'
  BY <1>1, NumbersTyped DEF MergedIsIn, Change
<1>15. QED
  BY <1>4, <1>5, <1>6, <1>7, <1>8, <1>9, <1>10, <1>11, <1>12, <1>13, <1>14

\* A delegation that was not in the chain fails before it merges.
LEMMA FailsEarly ==
  ASSUME SwarmInv, NEW i \in Instances, at[i] \in {"adding", "seeding", "working"},
         PrepareFails(i) \/ RunFails(i)
  PROVE  SwarmInv'
<1> USE DEF SwarmInv
<1>1. /\ at' = [at EXCEPT ![i] = "idle"] /\ outcome' = [outcome EXCEPT ![i] = "failed"]
      /\ UNCHANGED <<shared, run, copies, queue, seen, task, history>>
      /\ spent' = spent \/ spent' = [spent EXCEPT !.faults = spent.faults + 1]
  BY DEF PrepareFails, RunFails, Spend
<1>2. spent' \in [runs : 0..MaxRuns, direct : Nat, faults : Nat] /\ spent'.runs = spent.runs
  <2>1. CASE spent' = spent
    BY <2>1 DEF Typed
  <2>2. CASE spent' = [spent EXCEPT !.faults = spent.faults + 1]
    BY <2>2, SpentMore
  <2>3. QED
    BY <1>1, <2>1, <2>2
<1>3. Typed'
  BY <1>1, <1>2 DEF Typed, shared, copies, task, history
<1>4. Line'
  <2>1. at'[i] = "idle" /\ (\A j \in Instances \ {i} : at'[j] = at[j]) /\ queue' = queue
    BY <1>1 DEF Typed
  <2>2. QED
    BY <2>1 DEF Line, Turn
<1>5. QED
  <2>1. \A j \in Instances \ {i} : outcome'[j] = outcome[j]
    BY <1>1 DEF Typed
  <2>2. QED
    BY <1>1, <1>2, <1>3, <1>4, <2>1, IdleKeeps

\* A merge is over that did not begin to write: there is no copy, or it could not be read.
LEMMA StopsEarly ==
  ASSUME SwarmInv, NEW i \in Instances, MergeOfNone(i) \/ MergeBreaks(i)
  PROVE  SwarmInv'
<1> USE DEF SwarmInv
<1>1. /\ at[i] = "merging" /\ Turn(i) /\ queue' = Tail(queue)
      /\ seen' = [seen EXCEPT ![i] = Empty] /\ at' = [at EXCEPT ![i] = "idle"]
      /\ \E result \in {"completed", "blocked", "failed"} :
           outcome' = [outcome EXCEPT ![i] = result]
      /\ UNCHANGED <<shared, run, copies, task, history>>
      /\ spent' = spent \/ spent' = [spent EXCEPT !.faults = spent.faults + 1]
  BY DEF MergeOfNone, MergeBreaks, Settle, Spend
<1>2. spent' \in [runs : 0..MaxRuns, direct : Nat, faults : Nat] /\ spent'.runs = spent.runs
  <2>1. CASE spent' = spent
    BY <2>1 DEF Typed
  <2>2. CASE spent' = [spent EXCEPT !.faults = spent.faults + 1]
    BY <2>2, SpentMore
  <2>3. QED
    BY <1>1, <2>1, <2>2
<1>3. queue # <<>> /\ Head(queue) = i
  BY <1>1, QueueNotEmpty DEF Line, Turn
<1>4. /\ queue' \in Seq(Instances) /\ Range(queue') = Range(queue) \ {i}
      /\ \A m, n \in DOMAIN queue' : queue'[m] = queue'[n] => m = n
  <2>1. queue \in Seq(Instances)
    BY DEF Typed
  <2>2. \A m, n \in DOMAIN queue : queue[m] = queue[n] => m = n
    BY DEF Line
  <2>3. queue' = Tail(queue)
    BY <1>1
  <2>4. QED
    BY <2>1, <2>2, <2>3, <1>3, LeaveChain
<1>5. Typed'
  <2>1. seen' \in [Instances -> [Files -> Text]]
    BY <1>1, SeenLess
  <2>2. QED
    BY <1>1, <1>2, <1>4, <2>1 DEF Typed, shared, copies, task, history
<1>6. Line'
  <2>1. at'[i] = "idle" /\ \A j \in Instances \ {i} : at'[j] = at[j]
    BY <1>1 DEF Typed
  <2>2. QED
    BY <1>3, <1>4, <2>1 DEF Line, Turn
<1>7. QED
  <2>1. \A j \in Instances \ {i} : outcome'[j] = outcome[j]
    BY <1>1 DEF Typed
  <2>2. QED
    BY <1>1, <1>2, <1>5, <1>6, <2>1, IdleKeeps

LEMMA StutterSwarm ==
  ASSUME SwarmInv, UNCHANGED vars
  PROVE  SwarmInv'
<1>1. Typed' /\ Line' /\ Counted' /\ Entries'
  BY DEF SwarmInv, vars, Typed, Line, Turn, Counted, Entries
<1>2. Old' /\ Fresh'
  BY DEF SwarmInv, vars, Old, Fresh, Nowhere, OnlyAt
<1>3. Kept' /\ Seeds' /\ Baseline' /\ Undecided' /\ MergedIsIn'
  BY DEF SwarmInv, vars, Kept, IntegratedStays, Seeds, Baseline, Undecided, MergedIsIn, Change
<1>4. QED
  BY <1>1, <1>2, <1>3 DEF SwarmInv

LEMMA StepSwarm == SwarmInv /\ [Next]_vars => SwarmInv'
<1> SUFFICES ASSUME SwarmInv, [Next]_vars
             PROVE  SwarmInv'
  OBVIOUS
<1>1. ASSUME NEW i \in Instances,
             Prepare(i) \/ ClearCopy(i) \/ AddCopy(i) \/ SeedUntracked(i)
      PROVE  SwarmInv'
  BY <1>1, PrepareKeeps, ClearKeeps, AddKeeps, SeedKeeps
<1>2. ASSUME NEW i \in Instances, PrepareFails(i) \/ RunFails(i)
      PROVE  SwarmInv'
  <2>1. at[i] \in {"adding", "seeding", "working"}
    BY <1>2 DEF PrepareFails, RunFails
  <2>2. QED
    BY <1>2, <2>1, FailsEarly
<1>3. ASSUME NEW i \in Instances, NEW F \in SUBSET Files, Write(i, F)
      PROVE  SwarmInv'
  BY <1>3, WriteKeeps
<1>4. ASSUME NEW i \in Instances, Merging(i)
      PROVE  SwarmInv'
  BY <1>4, StopsEarly, NothingKeeps, ReadsKeeps, LandsKeeps, ConflictKeeps, EndKeeps DEF Merging
<1>5. ASSUME NEW i \in Instances, DropNext(i)
      PROVE  SwarmInv'
  BY <1>5, DropKeeps
<1>6. ASSUME NEW f \in Files, EditShared(f)
      PROVE  SwarmInv'
  BY <1>6, EditKeeps
<1>7. CASE NextTask
  BY <1>7, TaskKeeps
<1>8. CASE UNCHANGED vars
  BY <1>8, StutterSwarm
<1>9. QED
  BY <1>1, <1>2, <1>3, <1>4, <1>5, <1>6, <1>7, <1>8 DEF Next

\* The inductive invariant holds in every state.
THEOREM SwarmCorrect == Spec => []SwarmInv
<1>1. SwarmInv /\ [Next]_vars => SwarmInv'
  BY StepSwarm
<1>2. QED
  BY InitSwarm, <1>1, PTL DEF Spec

\* The shared worktree keeps every change that a merge reported as integrated, and a copy that
\* an instance works in has all that was integrated before it was asked for (integrate, prepare).
THEOREM SharedStays == FairSpec => []SharedIsKept
<1>1. SwarmInv => TypeOK
  BY DEF SwarmInv, Typed, Line, TypeOK
<1>2. SwarmInv => IntegratedStays /\ StartsFromShared
  BY DEF SwarmInv, Kept, Seeds, StartsFromShared
<1>3. SwarmInv => SharedIsKept
  BY <1>1, <1>2 DEF SharedIsKept
<1>4. QED
  BY <1>3, SwarmCorrect, PTL DEF FairSpec

-----------------------------------------------------------------------------
(* What a merge reports *)

\* A delegation is recorded by nobody but itself, and only two of its ends are good.
LEMMA WhoRecords ==
  ASSUME SwarmInv, [Next]_vars, NEW i \in Instances, at[i] # "idle", outcome'[i] # "none"
  PROVE  \/ outcome'[i] = "failed"
         \/ MergeOfNone(i) \/ MergeEnds(i)
         \/ MergeBreaks(i) \/ Conflicts(i)
<1>1. outcome[i] = "none" /\ outcome \in [Instances -> {"none", "completed", "blocked", "failed"}]
  BY DEF SwarmInv, Undecided, Typed
<1>2. outcome' # outcome
  BY <1>1
<1>3. PICK j \in Instances :
        \/ Prepare(j) \/ PrepareFails(j) \/ RunFails(j)
        \/ MergeOfNone(j) \/ MergeEnds(j) \/ MergeBreaks(j) \/ Conflicts(j)
  BY <1>2 DEF Next, vars, copies, ClearCopy, AddCopy, SeedUntracked, Write, DropNext,
              EditShared, NextTask, Merging, MergeOfNothing, MergeReads, Lands
<1>4. \E r \in {"none", "completed", "blocked", "failed"} : outcome' = [outcome EXCEPT ![j] = r]
  BY <1>3 DEF Prepare, PrepareFails, RunFails, MergeOfNone, MergeEnds, MergeBreaks, Conflicts,
              Settle
<1>5. j = i
  BY <1>1, <1>4
<1>6. CASE Prepare(j)
  BY <1>5, <1>6 DEF Prepare
<1>7. CASE PrepareFails(j) \/ RunFails(j)
  BY <1>1, <1>5, <1>7 DEF PrepareFails, RunFails
<1>8. QED
  BY <1>3, <1>5, <1>6, <1>7

\* Completed is said of a merge that went in.
LEMMA CompletedStep ==
  ASSUME SwarmInv, [Next]_vars, NEW i \in Instances, at[i] # "idle",
         outcome'[i] = "completed", ~closed
  PROVE  {Change(i)} \X {f \in Files : Change(i) \in copy[i][f].has} \subseteq accepted'
<1>1. outcome \in [Instances -> {"none", "completed", "blocked", "failed"}]
  BY DEF SwarmInv, Typed
<1>2. MergeOfNone(i) \/ MergeEnds(i)
  BY <1>1, WhoRecords DEF MergeBreaks, Conflicts, Settle
<1>3. MergeEnds(i)
  BY <1>2 DEF MergeOfNone, SwarmInv, Entries
<1>4. at[i] = "merged" /\ accepted' = accepted
  BY <1>3 DEF MergeEnds, history
<1>5. \A f \in Files : Change(i) \in copy[i][f].has => <<Change(i), f>> \in accepted
  BY <1>4 DEF SwarmInv, MergedIsIn
<1>6. QED
  BY <1>4, <1>5

\* Blocked is said of a merge that met a file others changed.
LEMMA BlockedStep ==
  ASSUME SwarmInv, [Next]_vars, NEW i \in Instances, at[i] # "idle",
         outcome'[i] = "blocked", spent'.faults = 0, ~closed
  PROVE  Patch(i) \cap others[i] # {}
<1>1. outcome \in [Instances -> {"none", "completed", "blocked", "failed"}]
  BY DEF SwarmInv, Typed
<1>2. MergeBreaks(i) \/ Conflicts(i)
  BY <1>1, WhoRecords DEF MergeOfNone, MergeEnds, Settle
<1>3. ~MergeBreaks(i)
  <2>1. at[i] = "merging" => i \in disk
    BY DEF SwarmInv, Entries
  <2>2. Spend => spent'.faults = spent.faults + 1 /\ spent.faults \in Nat
    BY DEF Spend, SwarmInv, Typed
  <2>3. QED
    BY <2>1, <2>2 DEF MergeBreaks
<1>4. PICK f \in Moved(i) : TRUE
  BY <1>2, <1>3 DEF Conflicts
<1>5. at[i] = "applying" /\ f \in Patch(i) /\ f \in Files /\ seen[i][f] # seed[i][f]
  BY <1>2, <1>3, <1>4 DEF Conflicts, Moved, Patch
<1>6. f \in others[i]
  BY <1>5 DEF SwarmInv, Baseline
<1>7. QED
  BY <1>5, <1>6

\* A copy goes when its merge is over, when its instance is asked again, or with the task.
LEMMA RemovalStep ==
  ASSUME SwarmInv, [Next]_vars, NEW i \in disk \ disk'
  PROVE  closed \/ at[i] \in {"clearing", "merged"}
<1>1. PICK j \in Instances : ClearCopy(j) \/ MergeEnds(j) \/ DropNext(j)
  BY DEF Next, vars, copies, Prepare, AddCopy, SeedUntracked, PrepareFails, RunFails, Write,
         EditShared, NextTask, Merging, MergeOfNone, MergeOfNothing, MergeBreaks, MergeReads,
         Lands, Conflicts
<1>2. CASE DropNext(j)
  BY <1>2 DEF DropNext, SwarmInv, Entries
<1>3. CASE ClearCopy(j) \/ MergeEnds(j)
  <2>1. j = i
    BY <1>3 DEF ClearCopy, MergeEnds, Removed, NotRemoved
  <2>2. QED
    BY <1>3, <2>1 DEF ClearCopy, MergeEnds
<1>4. QED
  BY <1>1, <1>2, <1>3

\* Whatever a merge reports is so: completed has its work in the shared worktree, a conflict has
\* a file that somebody else changed, and no copy goes that was still needed (integrate, dispose).
THEOREM ReportsAreTrue == FairSpec => ReportIsTrue
<1>1. ASSUME SwarmInv, [Next]_vars
      PROVE  /\ \A i \in Instances : at[i] # "idle" /\ outcome'[i] = "completed" /\ ~closed =>
                  {Change(i)} \X {f \in Files : Change(i) \in copy[i][f].has} \subseteq accepted'
             /\ \A i \in Instances :
                  at[i] # "idle" /\ outcome'[i] = "blocked" /\ spent'.faults = 0 /\ ~closed =>
                    Patch(i) \cap others[i] # {}
             /\ \A i \in disk \ disk' : closed \/ at[i] \in {"clearing", "merged"}
  <2>1. disk \subseteq Instances
    BY <1>1 DEF SwarmInv, Typed
  <2>2. QED
    BY <1>1, <2>1, CompletedStep, BlockedStep, RemovalStep
<1>2. QED
  BY <1>1, SwarmCorrect, PTL
     DEF FairSpec, Spec, ReportIsTrue, CompletedIsMerged, ConflictHasCause, UnmergedIsKept

-----------------------------------------------------------------------------
(* The lanes of the gateway. They share nothing with the copies, and their chain is a set
   ordered by priority and arrival. *)

USE LaneQueueAssumption

\* A lane holds tasks of its own session only.
OwnLane ==
  \A s \in Sessions :
    /\ \A t \in queues[s] : Session[t] = s
    /\ running[s] # NoTask => Session[running[s]] = s

\* A task that came has a place before those that come.
Came == \A t \in Tasks : status[t] # "new" => arrival[t] < arrived

LaneInv ==
  /\ LaneTypeOK /\ OwnLane /\ OneAtATime /\ NeverIdles
  /\ HandlersKept /\ NeverStartsAborted /\ Came /\ FirstComeFirstServed

LEMMA InitLane == LaneInit => LaneInv
  BY DEF LaneInit, LaneInv, LaneTypeOK, OwnLane, OneAtATime, NeverIdles,
         HandlersKept, NeverStartsAborted, Came, FirstComeFirstServed,
         Ended

\* The lane of a new task that waits behind the one that runs.
LEMMA EnqueueWaits ==
  ASSUME LaneInv, NEW t \in Tasks, Enqueue(t), Busy(Session[t]),
         queues' = [queues EXCEPT ![Session[t]] = queues[Session[t]] \cup {t}],
         status' = [status EXCEPT ![t] = "pending"], UNCHANGED running
  PROVE  LaneInv'
<1> USE DEF LaneInv
<1>1. /\ status[t] = "new" /\ arrival' = [arrival EXCEPT ![t] = arrived] /\ arrived' = arrived + 1
      /\ handlers' = handlers \cup {t} /\ UNCHANGED aborted
      /\ request' = IF t \in Chat THEN [request EXCEPT ![t] = "polling"] ELSE request
  BY DEF Enqueue
<1>2. Session[t] \in Sessions
  OBVIOUS
<1>3. LaneTypeOK'
  BY <1>1, <1>2 DEF LaneTypeOK, Ended
<1>4. OwnLane'
  BY <1>2 DEF LaneTypeOK, OwnLane
<1>5. OneAtATime'
  BY <1>1, <1>2 DEF LaneTypeOK, OneAtATime
<1>6. NeverIdles'
  BY <1>2 DEF LaneTypeOK, NeverIdles, Busy
<1>7. HandlersKept'
  BY <1>1 DEF LaneTypeOK, HandlersKept
<1>8. NeverStartsAborted'
  BY <1>1 DEF LaneTypeOK, NeverStartsAborted
<1>9. Came'
  BY <1>1 DEF LaneTypeOK, Came
<1>10. FirstComeFirstServed'
  BY <1>1 DEF LaneTypeOK, FirstComeFirstServed, Came
<1>11. QED
  BY <1>3, <1>4, <1>5, <1>6, <1>7, <1>8, <1>9, <1>10

\* A new task comes to a lane where nothing runs, and so nothing waits: it starts at once.
LEMMA EnqueueStarts ==
  ASSUME LaneInv, NEW t \in Tasks, Enqueue(t), ~Busy(Session[t])
  PROVE  LaneInv'
<1> USE DEF LaneInv
<1> DEFINE s == Session[t]
           came == [arrival EXCEPT ![t] = arrived]
           st == [status EXCEPT ![t] = "pending"]
<1>1. /\ status[t] = "new" /\ arrival' = came /\ arrived' = arrived + 1
      /\ handlers' = handlers \cup {t} /\ UNCHANGED aborted
      /\ request' = IF t \in Chat THEN [request EXCEPT ![t] = "polling"] ELSE request
      /\ \E u \in queues[s] \cup {t} : Starts(s, queues[s] \cup {t}, u, came, st)
  BY DEF Enqueue
<1>2. s \in Sessions /\ queues[s] = {} /\ running[s] = NoTask
  BY DEF NeverIdles, Busy
<1>3. /\ queues' = [queues EXCEPT ![s] = {}] /\ running' = [running EXCEPT ![s] = t]
      /\ status' = [status EXCEPT ![t] = "running"]
  <2>1. Starts(s, {t}, t, came, st)
    BY <1>1, <1>2
  <2>2. /\ queues' = [queues EXCEPT ![s] = {t} \ {t}]
        /\ running' = [running EXCEPT ![s] = t]
        /\ status' = [st EXCEPT ![t] = "running"]
    BY <2>1 DEF Starts
  <2>3. QED
    BY <2>2 DEF LaneTypeOK
<1>4. LaneTypeOK'
  BY <1>1, <1>2, <1>3 DEF LaneTypeOK, Ended
<1>5. OwnLane'
  BY <1>2, <1>3 DEF LaneTypeOK, OwnLane
<1>6. OneAtATime'
  BY <1>1, <1>2, <1>3 DEF LaneTypeOK, OneAtATime
<1>7. NeverIdles'
  BY <1>2, <1>3 DEF LaneTypeOK, NeverIdles
<1>8. HandlersKept'
  BY <1>1, <1>3 DEF LaneTypeOK, HandlersKept
<1>9. NeverStartsAborted'
  BY <1>1, <1>3 DEF LaneTypeOK, NeverStartsAborted
<1>10. Came'
  BY <1>1, <1>3 DEF LaneTypeOK, Came
<1>11. FirstComeFirstServed'
  BY <1>1, <1>2, <1>3 DEF LaneTypeOK, FirstComeFirstServed, OneAtATime
<1>12. QED
  BY <1>4, <1>5, <1>6, <1>7, <1>8, <1>9, <1>10, <1>11

\* A task ends and hands its lane to the one in front of those that wait.
LEMMA EndHandsOver ==
  ASSUME LaneInv, NEW t \in Tasks, NEW how \in Ended, Ends(t, how),
         NEW u \in queues[Session[t]],
         Starts(Session[t], queues[Session[t]], u, arrival, [status EXCEPT ![t] = how])
  PROVE  LaneInv'
<1> USE DEF LaneInv
<1> DEFINE s == Session[t]
<1>1. /\ running[s] = t /\ handlers' = handlers \ {t} /\ s \in Sessions
      /\ UNCHANGED <<arrival, arrived, aborted, request>>
  BY DEF Ends
<1>2. /\ InFront(queues[s], u, arrival)
      /\ queues' = [queues EXCEPT ![s] = queues[s] \ {u}]
      /\ running' = [running EXCEPT ![s] = u]
      /\ status' = [[status EXCEPT ![t] = how] EXCEPT ![u] = "running"]
  BY DEF Starts
<1>3. /\ status[t] = "running" /\ u \in Tasks /\ Session[u] = s
      /\ status[u] = "pending" /\ u # t
  BY <1>1 DEF LaneTypeOK, OwnLane, OneAtATime
<1>4. /\ status'[t] = how /\ status'[u] = "running"
      /\ \A v \in Tasks \ {t, u} : status'[v] = status[v]
  BY <1>2, <1>3 DEF LaneTypeOK
<1>5. how \in {"completed", "failed", "cancelled"}
  BY DEF Ended
<1>6. LaneTypeOK'
  BY <1>1, <1>2, <1>3 DEF LaneTypeOK, Ended
<1>7. OwnLane'
  BY <1>1, <1>2, <1>3 DEF LaneTypeOK, OwnLane
<1>8. OneAtATime'
  <2> SUFFICES ASSUME NEW v \in Tasks
               PROVE  /\ status'[v] = "running" <=> running'[Session[v]] = v
                      /\ status'[v] = "pending" <=> v \in queues'[Session[v]]
    BY DEF OneAtATime
  <2>1. CASE v \in {t, u}
    BY <2>1, <1>1, <1>2, <1>3, <1>4, <1>5 DEF LaneTypeOK, OneAtATime
  <2>2. CASE v \notin {t, u}
    BY <2>2, <1>1, <1>2, <1>3, <1>4 DEF LaneTypeOK, OneAtATime
  <2>3. QED
    BY <2>1, <2>2
<1>9. NeverIdles'
  BY <1>1, <1>2, <1>3 DEF LaneTypeOK, NeverIdles
<1>10. HandlersKept'
  BY <1>1, <1>3, <1>4, <1>5 DEF HandlersKept
<1>11. NeverStartsAborted'
  BY <1>1, <1>3, <1>4, <1>5 DEF LaneTypeOK, NeverStartsAborted
<1>12. Came'
  BY <1>1, <1>3, <1>4 DEF LaneTypeOK, Came
<1>13. FirstComeFirstServed'
  <2> SUFFICES ASSUME NEW v \in Tasks, NEW w \in Tasks, Session[v] = Session[w],
                      Priority[v] = Priority[w], status'[v] = "pending", status'[w] # "new",
                      arrival[v] < arrival[w]
               PROVE  status'[w] = "pending"
    BY <1>1 DEF FirstComeFirstServed
  <2>1. v \notin {t, u} /\ status[v] = "pending" /\ v \in queues[Session[v]]
    BY <1>4, <1>5 DEF OneAtATime
  <2>2. status[w] = "pending"
    BY <2>1, <1>3, <1>4 DEF FirstComeFirstServed
  <2>3. w # t
    BY <2>2, <1>3
  <2>4. w # u
    BY <2>1, <1>2, <1>3 DEF InFront, LaneTypeOK
  <2>5. QED
    BY <2>2, <2>3, <2>4, <1>4
<1>14. QED
  BY <1>6, <1>7, <1>8, <1>9, <1>10, <1>11, <1>12, <1>13

\* A task ends and leaves an empty lane.
LEMMA EndLeavesLane ==
  ASSUME LaneInv, NEW t \in Tasks, NEW how \in Ended, Ends(t, how),
         queues[Session[t]] = {},
         running' = [running EXCEPT ![Session[t]] = NoTask],
         status' = [status EXCEPT ![t] = how], UNCHANGED queues
  PROVE  LaneInv'
<1> USE DEF LaneInv
<1>1. /\ running[Session[t]] = t /\ handlers' = handlers \ {t} /\ Session[t] \in Sessions
      /\ UNCHANGED <<arrival, arrived, aborted, request>>
  BY DEF Ends
<1>2. status[t] = "running" /\ how \in {"completed", "failed", "cancelled"}
  BY <1>1 DEF OneAtATime, Ended
<1>3. LaneTypeOK'
  BY <1>1 DEF LaneTypeOK, Ended
<1>4. OwnLane'
  BY <1>1 DEF LaneTypeOK, OwnLane
<1>5. OneAtATime'
  BY <1>1, <1>2 DEF LaneTypeOK, OneAtATime
<1>6. NeverIdles'
  BY <1>1 DEF LaneTypeOK, NeverIdles
<1>7. HandlersKept'
  BY <1>1, <1>2 DEF LaneTypeOK, HandlersKept
<1>8. NeverStartsAborted'
  BY <1>1, <1>2 DEF LaneTypeOK, NeverStartsAborted
<1>9. Came'
  BY <1>1, <1>2 DEF LaneTypeOK, Came
<1>10. FirstComeFirstServed'
  BY <1>1, <1>2 DEF LaneTypeOK, FirstComeFirstServed
<1>11. QED
  BY <1>3, <1>4, <1>5, <1>6, <1>7, <1>8, <1>9, <1>10

LEMMA LaneEndKeeps ==
  ASSUME LaneInv, NEW t \in Tasks, NEW how \in Ended, Ends(t, how)
  PROVE  LaneInv'
<1>1. CASE \E u \in queues[Session[t]] :
             Starts(Session[t], queues[Session[t]], u, arrival,
                         [status EXCEPT ![t] = how])
  BY <1>1, EndHandsOver
<1>2. CASE /\ queues[Session[t]] = {} /\ running' = [running EXCEPT ![Session[t]] = NoTask]
           /\ status' = [status EXCEPT ![t] = how] /\ UNCHANGED queues
  BY <1>2, EndLeavesLane
<1>3. QED
  BY <1>1, <1>2 DEF Ends, Left

\* The time limit aborts a task that runs, and so does cancel: its other branch finds a lane
\* where nothing runs, and so nobody who waits.
LEMMA AbortKeeps ==
  ASSUME LaneInv, NEW t \in Tasks, status[t] = "running", aborted' = aborted \cup {t},
         UNCHANGED <<status, queues, arrival, arrived, running, handlers, request>>
  PROVE  LaneInv'
<1> USE DEF LaneInv
<1>1. LaneTypeOK' /\ NeverStartsAborted'
  BY DEF LaneTypeOK, NeverStartsAborted
<1>2. /\ OwnLane' /\ OneAtATime' /\ NeverIdles' /\ HandlersKept'
      /\ Came' /\ FirstComeFirstServed'
  BY DEF OwnLane, OneAtATime, NeverIdles, HandlersKept, Came,
         FirstComeFirstServed
<1>3. QED
  BY <1>1, <1>2

LEMMA CancelKeeps ==
  ASSUME LaneInv, NEW s \in Sessions, Cancel(s)
  PROVE  LaneInv'
<1>1. CASE Busy(s)
  <2>1. running[s] \in Tasks /\ Session[running[s]] = s
    BY <1>1 DEF Busy, LaneInv, LaneTypeOK, OwnLane
  <2>2. status[running[s]] = "running"
    BY <2>1 DEF LaneInv, OneAtATime
  <2>3. /\ aborted' = aborted \cup {running[s]}
        /\ UNCHANGED <<status, queues, arrival, arrived, running, handlers, request>>
    BY <1>1 DEF Cancel
  <2>4. QED
    BY <2>1, <2>2, <2>3, AbortKeeps
<1>2. CASE ~Busy(s)
  BY <1>2 DEF Cancel, Busy, LaneInv, NeverIdles
<1>3. QED
  BY <1>1, <1>2

LEMMA RequestKeeps ==
  ASSUME LaneInv, NEW t \in Tasks, NEW r \in {"answered", "timeout"},
         request' = [request EXCEPT ![t] = r],
         UNCHANGED <<status, queues, arrival, arrived, running, handlers, aborted>>
  PROVE  LaneInv'
<1> USE DEF LaneInv
<1>1. LaneTypeOK'
  BY DEF LaneTypeOK
<1>2. /\ OwnLane' /\ OneAtATime' /\ NeverIdles' /\ HandlersKept'
      /\ NeverStartsAborted' /\ Came' /\ FirstComeFirstServed'
  BY DEF OwnLane, OneAtATime, NeverIdles, HandlersKept, NeverStartsAborted,
         Came, FirstComeFirstServed
<1>3. QED
  BY <1>1, <1>2

LEMMA StepLane == LaneInv /\ [LaneNext]_laneVars => LaneInv'
<1> SUFFICES ASSUME LaneInv, [LaneNext]_laneVars
             PROVE  LaneInv'
  OBVIOUS
<1>1. ASSUME NEW t \in Tasks, Enqueue(t)
      PROVE  LaneInv'
  BY <1>1, EnqueueWaits, EnqueueStarts DEF Enqueue
<1>2. ASSUME NEW t \in Tasks, NEW how \in Ended, Ends(t, how)
      PROVE  LaneInv'
  BY <1>2, LaneEndKeeps
<1>3. ASSUME NEW t \in Tasks, TimeIsUp(t)
      PROVE  LaneInv'
  BY <1>3, AbortKeeps DEF TimeIsUp, Limit, LaneInv, OneAtATime
<1>4. ASSUME NEW t \in Tasks, Poll(t) \/ GiveUp(t)
      PROVE  LaneInv'
  BY <1>4, RequestKeeps DEF Poll, GiveUp
<1>5. ASSUME NEW s \in Sessions, Cancel(s)
      PROVE  LaneInv'
  BY <1>5, CancelKeeps
<1>6. CASE UNCHANGED laneVars
  BY <1>6 DEF laneVars, LaneInv, LaneTypeOK, OwnLane, OneAtATime, NeverIdles,
              HandlersKept, NeverStartsAborted, Came, FirstComeFirstServed
<1>7. QED
  BY <1>1, <1>2, <1>3, <1>4, <1>5, <1>6 DEF LaneNext, TaskStep

\* The inductive invariant holds in every state.
THEOREM LaneCorrect == Safety => []LaneInv
<1>1. LaneInv /\ [LaneNext]_laneVars => LaneInv'
  BY StepLane
<1>2. QED
  BY InitLane, <1>1, PTL DEF Safety

\* A session has one task that runs and never stands still with others waiting; those are all
\* in its queue with their handlers, and none starts with a signal that is aborted
\* (processQueue, cancel).
THEOREM LanesAreKept == LaneSpec => []LaneKept
<1>1. LaneInv => LaneKept
  BY DEF LaneInv, LaneKept
<1>2. QED
  BY <1>1, LaneCorrect, PTL DEF LaneSpec

\* Tasks of one session and priority start in the order they came (the stable sort of enqueue).
THEOREM LaneIsFair == LaneSpec => []FirstComeFirstServed
<1>1. LaneInv => FirstComeFirstServed
  BY DEF LaneInv
<1>2. QED
  BY <1>1, LaneCorrect, PTL DEF LaneSpec
=============================================================================
