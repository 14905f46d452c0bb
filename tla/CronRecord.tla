------------------------------ MODULE CronRecord ------------------------------
(* What the stored row of a scheduled job promises to everyone who writes it: whatever
   its writers do in between, the row goes from one state to the next as if each of
   them had changed, in one step, the row that was there. *)
EXTENDS Naturals

VARIABLES
  job,       \* [status, count] of the row; status "none" before it is made and when deleted
  begun      \* the runs that were started

Gone == [status |-> "none", count |-> 0]
Exists == job.status # "none"
Init == job = Gone /\ begun = 0

Create == ~Exists /\ job' = [status |-> "active", count |-> 0] /\ UNCHANGED begun
Delete == job' = Gone /\ UNCHANGED begun

\* A person pauses the job, or resumes it from whatever state it has.
Pause == Exists /\ job' = [job EXCEPT !.status = "paused"] /\ UNCHANGED begun
Resume == Exists /\ job' = [job EXCEPT !.status = "active"] /\ UNCHANGED begun

Start == begun' = begun + 1 /\ UNCHANGED job

\* A run is counted, on top of the count it was started with: that may be behind, or take
\* others back, but is never ahead of the runs there were.
Count ==
  /\ Exists
  /\ \E n \in 1 .. begun : job' = [job EXCEPT !.count = n]
  /\ UNCHANGED begun

\* The last run, or the end of the window of time.
Complete == Exists /\ job' = [job EXCEPT !.status = "completed"] /\ UNCHANGED begun

Next == Create \/ Delete \/ Pause \/ Resume \/ Start \/ Count \/ Complete

Spec == Init /\ [][Next]_<<job, begun>>
=============================================================================
