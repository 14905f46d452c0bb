---------------------------- MODULE CodingProofs ----------------------------
(***************************************************************************)
(* What the coding side promises, for any number of tasks, stops,          *)
(* processes, requests and calls: a person is not passed over, and work is *)
(* not lost.                                                               *)
(*                                                                         *)
(* First the approval of tool calls (ToolApproval): no request waits on    *)
(* nobody, nothing is approved that a person did not approve, and the call *)
(* refused last is not put to a person again.  The memory of refusals      *)
(* plays no part in the first two.  For the third it has to be followed    *)
(* through the stop of the bot, which refuses all that it asked, one after *)
(* the other: that is an induction over the row of refusals, made with the *)
(* least number at which it would fail (LeastNumber).                      *)
(*                                                                         *)
(* Then the life of a task (CodeTask): what is recorded of it is so, its   *)
(* work is in the project or still to be had, a cancelled task stays       *)
(* cancelled, and what a person stopped does not reach the project.        *)
(* The two share nothing but this module; a definition of either is used   *)
(* only in its own half.                                                   *)
(***************************************************************************)
EXTENDS CodeTask, ToolApproval, FiniteSetTheorems, WellFoundedInduction, TLAPS

-----------------------------------------------------------------------------
(* The approval of tool calls: what is open, and who can answer it. *)

\* The types the argument needs.
Typed ==
  /\ pending \subseteq Requests /\ entries \subseteq Requests
  /\ result \in [Requests -> {"unasked", "waiting", "yes", "no"}]
  /\ asker \in [Requests -> Askers \cup {None}]
  /\ pressed \in [Requests -> SUBSET {"yes", "no"}]

\* The open promises are the ones that were asked and not resolved; a request
\* whose message is on its way was asked.
OpenIsWaiting ==
  \A r \in Requests : r \in pending <=> result[r] = "waiting"

ApprovalInv ==
  /\ Typed
  /\ OpenIsWaiting
  /\ PendingIsReachable
  /\ ApprovedByPerson

-----------------------------------------------------------------------------
(* What finish and resolveToolApproval leave. *)

\* finish keeps the types, resolves what it is given and nothing else.
LEMMA FinishResolves ==
  ASSUME ApprovalInv, NEW S \in SUBSET pending, NEW answer \in {"yes", "no"}, Finish(S, answer)
  PROVE  /\ pending' \subseteq pending /\ pending' \cap S = {}
         /\ result' \in [Requests -> {"unasked", "waiting", "yes", "no"}]
         /\ \A r \in Requests : r \in pending' <=> result'[r] = "waiting"
         /\ \A r \in Requests :
              result'[r] = "yes" => result[r] = "yes" \/ (r \in S /\ answer = "yes")
BY DEF ApprovalInv, Typed, OpenIsWaiting, Finish

\* So does an answer, also one to a request that waits no more.
LEMMA ResolveResolves ==
  ASSUME ApprovalInv, NEW r \in Requests, NEW answer \in {"yes", "no"}, Resolve(r, answer)
  PROVE  /\ pending' \subseteq pending \ {r}
         /\ result' \in [Requests -> {"unasked", "waiting", "yes", "no"}]
         /\ \A q \in Requests : q \in pending' <=> result'[q] = "waiting"
         /\ \A q \in Requests :
              result'[q] = "yes" => result[q] = "yes" \/ (q = r /\ answer = "yes")
<1>1. CASE r \in pending /\ Finish({r}, answer)
  <2>1. {r} \in SUBSET pending BY <1>1
  <2> QED BY <2>1, <1>1, FinishResolves
<1>2. CASE r \notin pending /\ UNCHANGED <<pending, result>>
  BY <1>2 DEF ApprovalInv, Typed, OpenIsWaiting
<1> QED BY <1>1, <1>2 DEF Resolve

-----------------------------------------------------------------------------
(* The invariant is inductive. *)

LEMMA InitApproval == ApprovalInit => ApprovalInv
BY DEF ApprovalInit, ApprovalInv, Typed, OpenIsWaiting, PendingIsReachable, ApprovedByPerson

LEMMA RequestKeeps ==
  ASSUME ApprovalInv, NEW r \in Requests, NEW k \in Calls,
         NEW channel \in {"console", "telegram"}, Request(r, k, channel)
  PROVE  ApprovalInv'
<1> USE DEF ApprovalInv, Typed, OpenIsWaiting, PendingIsReachable, ApprovedByPerson, Request
<1>1. r \notin pending /\ result[r] = "unasked" OBVIOUS
<1>2. CASE Refuse(r) BY <1>1, <1>2 DEF Refuse
<1>3. CASE AskerFor(channel) = "tui" /\ AskTui(r)
  <2>1. "tui" \in registered BY <1>3 DEF AskerFor, None
  <2> QED BY <1>1, <1>3, <2>1 DEF AskTui, Askers
<1>4. CASE AskerFor(channel) = "telegram" /\ AskTelegram(r, k)
  <2>1. "telegram" \in registered BY <1>4 DEF AskerFor, None
  <2>2. CASE chat BY <1>1, <1>4, <2>1, <2>2 DEF AskTelegram, Askers
  <2>3. CASE ~chat BY <1>1, <1>4, <2>3 DEF AskTelegram, AnswerWithoutChat, Askers
  <2> QED BY <2>2, <2>3
<1> QED BY <1>2, <1>3, <1>4 DEF AskerFor, None

LEMMA AbortKeeps ==
  ASSUME ApprovalInv, NEW r \in Requests, Abort(r)
  PROVE  ApprovalInv'
<1> USE DEF ApprovalInv, Typed, OpenIsWaiting, PendingIsReachable, ApprovedByPerson, Abort
<1>1. CASE r \in pending
  <2>1. {r} \in SUBSET pending /\ Finish({r}, "no") BY <1>1
  <2> QED BY <2>1, FinishResolves
<1>2. CASE r \notin pending BY <1>2
<1> QED BY <1>1, <1>2

\* The answers of persons, of the timer and of the failed message: all of them
\* resolve one request and touch nothing that the others wait for.
LEMMA AnswerKeeps ==
  ASSUME ApprovalInv, NEW r \in Requests, NEW answer \in {"yes", "no"}, Resolve(r, answer),
         UNCHANGED <<registered, asker>>,
         entries' \in {entries, entries \ {r}}, shown \ {r} \subseteq shown',
         pressed' = pressed \/ pressed' = [pressed EXCEPT ![r] = @ \cup {answer}],
         answer = "yes" => pressed' = [pressed EXCEPT ![r] = @ \cup {answer}]
  PROVE  ApprovalInv'
<1> USE DEF ApprovalInv, Typed, OpenIsWaiting, PendingIsReachable, ApprovedByPerson
<1>1. Typed' /\ OpenIsWaiting' BY ResolveResolves
<1>2. PendingIsReachable' BY ResolveResolves
<1>3. ApprovedByPerson' BY ResolveResolves
<1> QED BY <1>1, <1>2, <1>3

LEMMA RequestStepKeeps ==
  ASSUME ApprovalInv, NEW r \in Requests,
         Answer(r) \/ Delivered(r) \/ Undelivered(r) \/ Timeout(r)
  PROVE  ApprovalInv'
<1>1. ASSUME NEW a \in {"yes", "no"}, AnswerTui(r, a) PROVE ApprovalInv'
  BY <1>1, AnswerKeeps DEF AnswerTui
<1>2. ASSUME NEW a \in {"yes", "no"}, Press(r, a) PROVE ApprovalInv'
  BY <1>2, AnswerKeeps DEF Press
<1>3. CASE Delivered(r)
  BY <1>3 DEF Delivered, ApprovalInv, Typed, OpenIsWaiting, PendingIsReachable, ApprovedByPerson
<1>4. CASE Undelivered(r)
  BY <1>4, AnswerKeeps DEF Undelivered
<1>5. CASE Timeout(r)
  BY <1>5, AnswerKeeps DEF Timeout
<1> QED BY <1>1, <1>2, <1>3, <1>4, <1>5 DEF Answer

\* Of the askers, only one that leaves with requests open matters: each
\* resolves all that wait on it before it is gone.
LEMMA AskersKeep ==
  ASSUME ApprovalInv, (\E a \in Askers : Register(a)) \/ TuiExit \/ TelegramStop
  PROVE  ApprovalInv'
<1> USE DEF ApprovalInv, Typed, OpenIsWaiting, PendingIsReachable, ApprovedByPerson, Restart
<1>1. CASE \E a \in Askers : Register(a)
  BY <1>1 DEF Register
<1>2. CASE TuiExit
  <2>1. Finish(pending, "no") /\ pending' = {} BY <1>2 DEF TuiExit, RefusedByExit, Finish
  <2> QED BY <2>1, <1>2, FinishResolves DEF TuiExit
<1>3. CASE TelegramStop
  <2>1. /\ Finish(entries \cap pending, "no")
        /\ pending' = pending \ entries
        /\ registered' = registered \ {"telegram"} /\ entries' = {}
        /\ UNCHANGED <<asker, pressed, shown>>
    BY <1>3 DEF TelegramStop, Finish
  <2>2. PendingIsReachable' BY <2>1
  <2> QED BY <2>1, <2>2, FinishResolves
<1> QED BY <1>1, <1>2, <1>3

LEMMA ApprovalStep == ApprovalInv /\ [ApprovalNext]_approvalVars => ApprovalInv'
<1> SUFFICES ASSUME ApprovalInv, [ApprovalNext]_approvalVars PROVE ApprovalInv'
  OBVIOUS
<1>1. CASE UNCHANGED approvalVars
  BY <1>1
     DEF approvalVars, ApprovalInv, Typed, OpenIsWaiting, PendingIsReachable, ApprovedByPerson
<1>2. CASE ApprovalNext
  BY <1>2, RequestKeeps, AbortKeeps, RequestStepKeeps, AskersKeep DEF ApprovalNext
<1> QED BY <1>1, <1>2

-----------------------------------------------------------------------------

\* The strengthening holds in every state.
THEOREM OpenPromises == ApprovalSpec => []ApprovalInv
BY InitApproval, ApprovalStep, PTL DEF ApprovalSpec

\* No request is left waiting for an asker that is gone or a timer that is
\* cleared.
THEOREM NobodyWaitsForNobody == ApprovalSpec => []PendingIsReachable
<1>1. ApprovalInv => PendingIsReachable BY DEF ApprovalInv
<1> QED BY <1>1, OpenPromises, PTL

\* Every approval is a person's answer to that very request.
THEOREM OnlyPersonsApprove == ApprovalSpec => []ApprovedByPerson
<1>1. ApprovalInv => ApprovedByPerson BY DEF ApprovalInv
<1> QED BY <1>1, OpenPromises, PTL

-----------------------------------------------------------------------------
(* The memory of refusals *)

\* A set of numbers that is not empty has a least element: what follows from one number to
\* the next, and holds of the first, holds of all.
LEMMA LeastNumber ==
  ASSUME NEW T, T \subseteq Nat, T # {}
  PROVE  \E n \in T : \A m \in T : n <= m
<1> DEFINE R == OpToRel(<, Nat)
<1>1. IsWellFoundedOn(R, Nat) BY NatLessThanWellFounded
<1>2. \A m, n \in Nat : m < n => <<m, n>> \in R BY DEF OpToRel
<1> HIDE DEF R
<1>3. PICK n \in T : \A m \in T : <<m, n>> \notin R BY <1>1, WFMin
<1>4. \A m \in T : ~(m < n) BY <1>2, <1>3
<1> QED BY <1>4

Memory == {m \in Seq(Calls) : Len(m) <= DeclinedMax /\ IsInjective(m)}

\* A refusal is remembered, by a memory that is no larger than it may be.
LEMMA RememberedIsMemory ==
  ASSUME NEW m \in Memory, NEW k \in Calls
  PROVE  Remembered(m, k) \in Memory /\ Contains(Remembered(m, k), k)
<1> DEFINE e == Evicted(m)
<1>1. /\ m \in Seq(Calls) /\ Len(m) <= DeclinedMax /\ DeclinedMax \in Nat \ {0}
      /\ Len(m) \in Nat /\ DOMAIN m = 1 .. Len(m)
      /\ \A i, j \in 1 .. Len(m) : m[i] = m[j] => i = j
  BY ApprovalAssumption DEF Memory, IsInjective
<1>2. /\ e \in Seq(Calls) /\ Len(e) \in Nat /\ Len(e) < DeclinedMax /\ DOMAIN e = 1 .. Len(e)
      /\ \A i, j \in 1 .. Len(e) : e[i] = e[j] => i = j
  <2>1. CASE Len(m) >= DeclinedMax
    <3>1. e = Tail(m) /\ m # << >> BY <1>1, <2>1 DEF Evicted
    <3>2. e \in Seq(Calls) /\ Len(e) = Len(m) - 1 /\ \A i \in 1 .. Len(e) : e[i] = m[i + 1]
      BY <1>1, <3>1
    <3> QED BY <1>1, <3>2
  <2>2. CASE ~(Len(m) >= DeclinedMax) BY <1>1, <2>2 DEF Evicted
  <2> QED BY <2>1, <2>2
<1>0. Remembered(m, k) = IF Contains(e, k) THEN e ELSE Append(e, k) BY DEF Remembered, Added
<1> HIDE DEF e
<1>3. CASE Contains(e, k)
  <2>1. e \in Memory BY <1>1, <1>2 DEF Memory, IsInjective
  <2>2. Remembered(m, k) = e BY <1>0, <1>3
  <2> QED BY <1>3, <2>1, <2>2
<1>4. CASE ~Contains(e, k)
  <2> DEFINE a == Append(e, k)
  <2>1. /\ a \in Seq(Calls) /\ Len(a) = Len(e) + 1 /\ DOMAIN a = 1 .. Len(a) /\ a[Len(a)] = k
        /\ \A i \in 1 .. Len(e) : a[i] = e[i] /\ a[i] # k
    BY <1>2, <1>4 DEF Contains
  <2> HIDE DEF a
  <2>2. \A i, j \in 1 .. Len(a) : a[i] = a[j] => i = j BY <1>2, <2>1
  <2>3. Len(a) \in Nat /\ Len(a) <= DeclinedMax /\ Len(a) \in 1 .. Len(a) BY <1>1, <1>2, <2>1
  <2>4. a \in Memory BY <2>1, <2>2, <2>3 DEF Memory, IsInjective
  <2>5. Contains(a, k) BY <2>1, <2>3 DEF Contains
  <2>6. Remembered(m, k) = a BY <1>0, <1>4 DEF a
  <2> QED BY <2>4, <2>5, <2>6
<1> QED BY <1>3, <1>4

\* The memories that follow one another through a row of refusals.
IsRow(f, n, m, c) ==
  /\ f \in [0 .. n -> Memory] /\ f[0] = m
  /\ \A i \in 1 .. n : f[i] = Remembered(f[i - 1], c[i])

LEMMA RowExists ==
  ASSUME NEW n \in Nat, NEW m \in Memory, NEW c \in [1 .. n -> Calls]
  PROVE  \E f : IsRow(f, n, m, c)
<1> DEFINE T == {k \in 0 .. n : ~ \E f : IsRow(f, k, m, c)}
<1> SUFFICES ASSUME T # {} PROVE FALSE
  <2>1. n \in 0 .. n OBVIOUS
  <2> QED BY <2>1
<1>1. T \subseteq Nat OBVIOUS
<1>2. PICK k \in T : \A j \in T : k <= j
  <2> HIDE DEF T
  <2> QED BY <1>1, LeastNumber
<1>3. CASE k = 0
  <2>1. IsRow([i \in 0 .. 0 |-> m], 0, m, c) BY DEF IsRow
  <2> QED BY <1>2, <1>3, <2>1
<1>4. CASE k # 0
  <2>1. k \in Nat /\ k - 1 \in 0 .. n /\ k \in 1 .. n /\ k - 1 \notin T BY <1>2, <1>4
  <2>2. PICK f : IsRow(f, k - 1, m, c) BY <2>1
  <2> DEFINE next == Remembered(f[k - 1], c[k])
             g == [i \in 0 .. k |-> IF i = k THEN next ELSE f[i]]
  <2>3. /\ f \in [0 .. (k - 1) -> Memory] /\ f[0] = m
        /\ \A i \in 1 .. (k - 1) : f[i] = Remembered(f[i - 1], c[i])
    BY <2>2 DEF IsRow
  <2>4. next \in Memory BY <2>1, <2>3, RememberedIsMemory
  <2> HIDE DEF next
  <2>5. g \in [0 .. k -> Memory] /\ g[0] = m BY <2>1, <2>3, <2>4
  <2>6. \A i \in 1 .. k : g[i] = Remembered(g[i - 1], c[i])
    <3> SUFFICES ASSUME NEW i \in 1 .. k PROVE g[i] = Remembered(g[i - 1], c[i]) OBVIOUS
    <3>1. g[i - 1] = f[i - 1] BY <2>1
    <3>2. CASE i = k BY <2>1, <3>1, <3>2 DEF next
    <3>3. CASE i # k
      <4>1. i \in 1 .. (k - 1) /\ g[i] = f[i] BY <2>1, <3>3
      <4> QED BY <2>3, <3>1, <4>1
    <3> QED BY <3>2, <3>3
  <2> HIDE DEF g
  <2>7. IsRow(g, k, m, c) BY <2>5, <2>6 DEF IsRow
  <2> QED BY <1>2, <2>7
<1> QED BY <1>3, <1>4

LEMMA RowIsUnique ==
  ASSUME NEW n \in Nat, NEW m \in Memory, NEW c \in [1 .. n -> Calls], NEW f, IsRow(f, n, m, c),
         NEW g, g = [i \in 0 .. n |-> IF i = 0 THEN m ELSE Remembered(g[i - 1], c[i])]
  PROVE  g = f
<1> DEFINE T == {i \in 0 .. n : g[i] # f[i]}
<1>1. T = {}
  <2> SUFFICES ASSUME T # {} PROVE FALSE OBVIOUS
  <2>0. T \subseteq Nat OBVIOUS
  <2>1. PICK i \in T : \A j \in T : i <= j
    <3> HIDE DEF T
    <3> QED BY <2>0, LeastNumber
  <2>2. i \in 0 .. n /\ i \in Nat BY <2>1
  <2>3. CASE i = 0 BY <2>1, <2>2, <2>3 DEF IsRow
  <2>4. CASE i # 0
    <3>1. i \in 1 .. n /\ i - 1 \in 0 .. n /\ i - 1 \notin T BY <2>1, <2>2, <2>4
    <3>2. g[i] = Remembered(g[i - 1], c[i]) BY <2>2, <2>4
    <3>3. f[i] = Remembered(f[i - 1], c[i]) BY <3>1 DEF IsRow
    <3> QED BY <2>1, <3>1, <3>2, <3>3
  <2> QED BY <2>3, <2>4
<1>2. f \in [0 .. n -> Memory] BY DEF IsRow
<1> QED BY <1>1, <1>2

\* The memory after a row of refusals is one, and has the last of them.
LEMMA MemoriesRemember ==
  ASSUME NEW n \in Nat, declined \in Memory, NEW order, Len(order) = n,
         \A i \in 1 .. n : call[order[i]] \in Calls
  PROVE  /\ Memories(order)[n] \in Memory
         /\ IF n = 0 THEN Memories(order)[n] = declined
            ELSE Contains(Memories(order)[n], call[order[n]])
<1> DEFINE c == [i \in 1 .. n |-> call[order[i]]]
           IsMemory(g) ==
             g = [i \in 0 .. n |->
                    IF i = 0 THEN declined ELSE Remembered(g[i - 1], call[order[i]])]
<1>1. c \in [1 .. n -> Calls] OBVIOUS
<1>2. PICK f : IsRow(f, n, declined, c) BY <1>1, RowExists
<1>3. IsMemory(f)
  <2>1. f \in [0 .. n -> Memory] /\ f[0] = declined BY <1>2 DEF IsRow
  <2>2. \A i \in 0 .. n : i # 0 => f[i] = Remembered(f[i - 1], call[order[i]])
    BY <1>2 DEF IsRow
  <2> QED BY <2>1, <2>2
<1>4. Memories(order) = CHOOSE g : IsMemory(g) BY DEF Memories
<1>5. IsMemory(Memories(order)) BY <1>3, <1>4
<1>6. Memories(order) = [i \in 0 .. n |->
                           IF i = 0 THEN declined ELSE Remembered(Memories(order)[i - 1], c[i])]
  BY <1>5
<1> HIDE DEF c
<1>7. Memories(order) = f BY <1>1, <1>2, <1>6, RowIsUnique
<1>8. f[n] \in Memory /\ (n = 0 => f[n] = declined) BY <1>2 DEF IsRow
<1>9. n # 0 => Contains(f[n], call[order[n]])
  <2> SUFFICES ASSUME n # 0 PROVE Contains(f[n], c[n]) BY DEF c
  <2>1. f[n] = Remembered(f[n - 1], c[n]) /\ f[n - 1] \in Memory /\ c[n] \in Calls
    BY <1>1, <1>2 DEF IsRow
  <2> QED BY <2>1, RememberedIsMemory
<1> QED BY <1>7, <1>8, <1>9

\* Who was asked about a call, and the call refused last, are known.
Known ==
  /\ \A r \in Requests : result[r] # "unasked" => call[r] \in Calls
  /\ last # None => Contains(declined, last)

LEMMA TypeOKIsMemory == ApprovalTypeOK => declined \in Memory
BY DEF ApprovalTypeOK, Memory

LEMMA RefusalKeeps ==
  ASSUME declined \in Memory, NEW k \in Calls, Refusal(k)
  PROVE  declined' \in Memory /\ last' = k /\ Contains(declined', k)
BY RememberedIsMemory DEF Refusal

\* An answer keeps the memory a memory, with the last refusal in it.
LEMMA ResolveRemembers ==
  ASSUME ApprovalTypeOK, Known, OpenIsWaiting, NEW r \in Requests, NEW answer \in {"yes", "no"},
         Resolve(r, answer), call' = call
  PROVE  /\ pending' \subseteq Requests
         /\ result' \in [Requests -> {"unasked", "waiting", "yes", "no"}]
         /\ declined' \in Memory /\ last' \in Calls \cup {None} /\ Known'
         /\ \A q \in Requests : result'[q] = "unasked" <=> result[q] = "unasked"
         /\ \A q \in Requests : result'[q] = "waiting" => result[q] = "waiting"
<1>1. declined \in Memory BY TypeOKIsMemory
<1>2. CASE r \in pending /\ Finish({r}, answer)
  <2>1. result[r] = "waiting" /\ call[r] \in Calls BY <1>2 DEF OpenIsWaiting, Known
  <2>2. /\ pending' \subseteq Requests
        /\ result' \in [Requests -> {"unasked", "waiting", "yes", "no"}]
        /\ \A q \in Requests : result'[q] = "unasked" <=> result[q] = "unasked"
        /\ \A q \in Requests : result'[q] = "waiting" => result[q] = "waiting"
    BY <1>2, <2>1 DEF Finish, ApprovalTypeOK
  <2>3. CASE Refusal(call[r])
    <3>1. declined' \in Memory /\ last' = call[r] /\ Contains(declined', last')
      BY <1>1, <2>1, <2>3, RefusalKeeps
    <3>2. Known' BY <2>2, <3>1 DEF Known
    <3> QED BY <2>1, <2>2, <3>1, <3>2
  <2>4. CASE UNCHANGED <<declined, last>>
    <3>1. Known' BY <2>2, <2>4 DEF Known
    <3> QED BY <1>1, <2>2, <2>4, <3>1 DEF ApprovalTypeOK
  <2> QED BY <1>2, <2>3, <2>4 DEF Resolve
<1>3. CASE r \notin pending /\ UNCHANGED <<pending, result, declined, last>>
  BY <1>1, <1>3 DEF ApprovalTypeOK, Known
<1> QED BY <1>2, <1>3 DEF Resolve

LEMMA RequestRemembers ==
  ASSUME ApprovalTypeOK, Known, NEW r \in Requests, NEW k \in Calls,
         NEW channel \in {"console", "telegram"}, Request(r, k, channel)
  PROVE  ApprovalTypeOK' /\ Known' /\ (result'[r] = "waiting" => k # last)
<1>1. /\ call' = [call EXCEPT ![r] = k] /\ declined \in Memory
      /\ UNCHANGED <<registered, chat, aborted, pressed, restarts>>
  BY TypeOKIsMemory DEF Request
<1>2. CASE Refuse(r)
  <2>1. ApprovalTypeOK' BY <1>1, <1>2 DEF Refuse, ApprovalTypeOK
  <2>2. Known' BY <1>1, <1>2 DEF Refuse, ApprovalTypeOK, Known
  <2>3. result'[r] = "no" BY <1>2 DEF Refuse, ApprovalTypeOK
  <2> QED BY <2>1, <2>2, <2>3
<1>3. CASE AskTui(r) /\ ~KnownRefusal(k)
  <2>1. ApprovalTypeOK' BY <1>1, <1>3 DEF AskTui, ApprovalTypeOK, Askers
  <2>2. Known' BY <1>1, <1>3 DEF AskTui, ApprovalTypeOK, Known
  <2>3. k # last BY <1>3, ApprovalAssumption DEF KnownRefusal, Known
  <2> QED BY <2>1, <2>2, <2>3
<1>4. CASE AskTelegram(r, k) /\ ~KnownRefusal(k)
  <2>1. k # last BY <1>4, ApprovalAssumption DEF KnownRefusal, Known
  <2>2. CASE chat
    <3>1. ApprovalTypeOK' BY <1>1, <1>4, <2>2 DEF AskTelegram, ApprovalTypeOK, Askers
    <3>2. Known' BY <1>1, <1>4, <2>2 DEF AskTelegram, ApprovalTypeOK, Known
    <3> QED BY <2>1, <3>1, <3>2
  <2>3. CASE ~chat
    <3>1. declined' \in Memory /\ last' = k /\ Contains(declined', last')
      BY <1>1, <1>4, <2>3, RefusalKeeps DEF AskTelegram
    <3>2. result' = [result EXCEPT ![r] = "no"]
      BY <1>4, <2>3 DEF AskTelegram, AnswerWithoutChat
    <3>3. ApprovalTypeOK'
      BY <1>1, <1>4, <2>3, <3>1, <3>2 DEF AskTelegram, ApprovalTypeOK, Askers, Memory
    <3>4. Known' BY <1>1, <3>1, <3>2 DEF ApprovalTypeOK, Known
    <3> QED BY <2>1, <3>3, <3>4
  <2> QED BY <2>2, <2>3
<1> QED BY <1>2, <1>3, <1>4 DEF Request

\* Answers of persons, of the timer and of a message that failed.
LEMMA AnswerRemembers ==
  ASSUME ApprovalTypeOK, Known, OpenIsWaiting, NEW r \in Requests,
         Answer(r) \/ Undelivered(r) \/ Timeout(r) \/ Delivered(r) \/ Abort(r)
  PROVE  /\ ApprovalTypeOK' /\ Known'
         /\ \A q \in Requests : result'[q] = "waiting" => result[q] = "waiting"
<1>1. CASE Delivered(r)
  BY <1>1 DEF Delivered, ApprovalTypeOK, Known
<1>2. CASE Abort(r)
  <2>1. call' = call /\ UNCHANGED <<declined, last>> BY <1>2 DEF Abort
  <2>2. /\ pending' \subseteq Requests
        /\ result' \in [Requests -> {"unasked", "waiting", "yes", "no"}]
        /\ \A q \in Requests : result'[q] = "waiting" => result[q] = "waiting"
        /\ \A q \in Requests : result'[q] = "unasked" <=> result[q] = "unasked"
    BY <1>2 DEF Abort, Finish, ApprovalTypeOK, OpenIsWaiting
  <2>3. ApprovalTypeOK' BY <1>2, <2>1, <2>2 DEF Abort, ApprovalTypeOK
  <2> QED BY <2>1, <2>2, <2>3 DEF Known
<1>3. ASSUME NEW answer \in {"yes", "no"}, Resolve(r, answer),
             UNCHANGED <<registered, chat, call, asker, aborted, restarts>>,
             entries' \subseteq Requests, sending' \subseteq Requests, shown' \subseteq Requests,
             pressed' \in [Requests -> SUBSET {"yes", "no"}]
      PROVE  /\ ApprovalTypeOK' /\ Known'
             /\ \A q \in Requests : result'[q] = "waiting" => result[q] = "waiting"
  <2>1. /\ pending' \subseteq Requests
        /\ result' \in [Requests -> {"unasked", "waiting", "yes", "no"}]
        /\ declined' \in Memory /\ last' \in Calls \cup {None} /\ Known'
        /\ \A q \in Requests : result'[q] = "waiting" => result[q] = "waiting"
    BY <1>3, ResolveRemembers
  <2>2. ApprovalTypeOK' BY <1>3, <2>1 DEF ApprovalTypeOK, Memory
  <2> QED BY <2>1, <2>2
<1>4. ASSUME NEW a \in {"yes", "no"}, AnswerTui(r, a) \/ Press(r, a)
      PROVE  /\ ApprovalTypeOK' /\ Known'
             /\ \A q \in Requests : result'[q] = "waiting" => result[q] = "waiting"
  <2>1. pressed' \in [Requests -> SUBSET {"yes", "no"}]
    BY <1>4 DEF AnswerTui, Press, ApprovalTypeOK
  <2>2. entries' \subseteq Requests /\ sending' \subseteq Requests /\ shown' \subseteq Requests
    BY <1>4 DEF AnswerTui, Press, ApprovalTypeOK
  <2>3. Resolve(r, a) /\ UNCHANGED <<registered, chat, call, asker, aborted, restarts>>
    BY <1>4 DEF AnswerTui, Press
  <2> QED BY <1>3, <2>1, <2>2, <2>3
<1>5. CASE Undelivered(r) \/ Timeout(r)
  <2>1. /\ Resolve(r, "no")
        /\ UNCHANGED <<registered, chat, call, asker, aborted, restarts, shown, pressed>>
    BY <1>5 DEF Undelivered, Timeout
  <2>2. entries' \subseteq Requests /\ sending' \subseteq Requests
    BY <1>5 DEF Undelivered, Timeout, ApprovalTypeOK
  <2>3. shown' \subseteq Requests /\ pressed' \in [Requests -> SUBSET {"yes", "no"}]
    BY <2>1 DEF ApprovalTypeOK
  <2> QED BY <1>3, <2>1, <2>2, <2>3
<1> QED BY <1>1, <1>2, <1>4, <1>5 DEF Answer

\* The stop of the bot refuses what it had asked, one after the other.
LEMMA StopRemembers ==
  ASSUME ApprovalTypeOK, Known, OpenIsWaiting, TelegramStop
  PROVE  declined' \in Memory /\ last' \in Calls \cup {None}
         /\ (last' # None => Contains(declined', last'))
<1> DEFINE S == (entries \cap pending) \ aborted
           n == Cardinality(S)
<1>1. PICK order \in SetToSeqs(S) :
        /\ declined' = Memories(order)[Len(order)]
        /\ last' = IF order = << >> THEN last ELSE call[Last(order)]
  BY DEF TelegramStop
<1>2. S \subseteq Requests /\ IsFiniteSet(S) /\ \A r \in S : call[r] \in Calls
  <2>1. S \subseteq Requests BY DEF ApprovalTypeOK
  <2>2. \A r \in S : call[r] \in Calls BY <2>1 DEF OpenIsWaiting, Known
  <2> HIDE DEF S
  <2> QED BY <2>1, <2>2, FS_Subset, ApprovalAssumption
<1>3. order \in [1 .. n -> S] BY <1>1 DEF SetToSeqs
<1> HIDE DEF S
<1>4. n \in Nat BY <1>2, FS_CardinalityType
<1> HIDE DEF n
<1>5. order \in Seq(S) /\ Len(order) = n BY <1>3, <1>4
<1>6. \A i \in 1 .. n : call[order[i]] \in Calls BY <1>2, <1>3
<1>7. /\ Memories(order)[n] \in Memory
      /\ IF n = 0 THEN Memories(order)[n] = declined
         ELSE Contains(Memories(order)[n], call[order[n]])
  BY <1>4, <1>5, <1>6, TypeOKIsMemory, MemoriesRemember
<1>8. CASE n = 0
  <2>1. order = << >> BY <1>5, <1>8
  <2> QED BY <1>1, <1>5, <1>7, <1>8, <2>1 DEF Known, ApprovalTypeOK
<1>9. CASE n # 0
  <2>1. order # << >> /\ n \in 1 .. n BY <1>4, <1>5, <1>9
  <2>2. last' = call[order[n]] BY <1>1, <1>5, <2>1 DEF Last
  <2> QED BY <1>1, <1>5, <1>6, <1>7, <1>9, <2>1, <2>2
<1> QED BY <1>8, <1>9

LEMMA AskersRemember ==
  ASSUME ApprovalTypeOK, Known, OpenIsWaiting,
         (\E a \in Askers : Register(a)) \/ TuiExit \/ TelegramStop
  PROVE  /\ ApprovalTypeOK' /\ Known'
         /\ \A q \in Requests : result'[q] = "waiting" => result[q] = "waiting"
<1>1. /\ restarts' \in 0 .. MaxRestarts
      /\ UNCHANGED <<chat, call, asker, aborted, pressed>>
  BY ApprovalAssumption DEF Register, TuiExit, TelegramStop, Restart, ApprovalTypeOK
<1>2. CASE \E a \in Askers : Register(a)
  BY <1>1, <1>2 DEF Register, ApprovalTypeOK, Known
<1>3. ASSUME NEW R \in SUBSET pending, Finish(R, "no")
      PROVE  /\ pending' \subseteq Requests
             /\ result' \in [Requests -> {"unasked", "waiting", "yes", "no"}]
             /\ \A q \in Requests : result'[q] = "waiting" => result[q] = "waiting"
             /\ \A q \in Requests : result'[q] = "unasked" <=> result[q] = "unasked"
  BY <1>3 DEF Finish, ApprovalTypeOK, OpenIsWaiting
<1>4. CASE TuiExit
  <2>1. /\ pending' \subseteq Requests
        /\ result' \in [Requests -> {"unasked", "waiting", "yes", "no"}]
        /\ \A q \in Requests : result'[q] = "waiting" => result[q] = "waiting"
        /\ \A q \in Requests : result'[q] = "unasked" <=> result[q] = "unasked"
    BY <1>3, <1>4 DEF TuiExit, RefusedByExit
  <2>2. declined' = << >> /\ last' = None BY <1>4 DEF TuiExit
  <2>3. << >> \in Seq(Calls) /\ Len(<< >>) <= DeclinedMax /\ IsInjective(<< >>)
    BY ApprovalAssumption DEF IsInjective
  <2>4. ApprovalTypeOK' BY <1>1, <1>4, <2>1, <2>2, <2>3 DEF TuiExit, ApprovalTypeOK
  <2> QED BY <1>1, <2>1, <2>2, <2>4 DEF Known
<1>5. CASE TelegramStop
  <2>1. /\ pending' \subseteq Requests
        /\ result' \in [Requests -> {"unasked", "waiting", "yes", "no"}]
        /\ \A q \in Requests : result'[q] = "waiting" => result[q] = "waiting"
        /\ \A q \in Requests : result'[q] = "unasked" <=> result[q] = "unasked"
    BY <1>3, <1>5 DEF TelegramStop
  <2>2. /\ declined' \in Memory /\ last' \in Calls \cup {None}
        /\ last' # None => Contains(declined', last')
    BY <1>5, StopRemembers
  <2>3. registered' \subseteq Askers /\ entries' = {} /\ UNCHANGED <<sending, shown>>
    BY <1>5 DEF TelegramStop, ApprovalTypeOK
  <2>4. ApprovalTypeOK' BY <1>1, <2>1, <2>2, <2>3 DEF ApprovalTypeOK, Memory
  <2> QED BY <1>1, <2>1, <2>2, <2>4 DEF Known
<1> QED BY <1>2, <1>4, <1>5

RefusalInv == ApprovalInv /\ ApprovalTypeOK /\ Known

LEMMA InitRefusalInv == ApprovalInit => RefusalInv
<1> SUFFICES ASSUME ApprovalInit PROVE ApprovalTypeOK /\ Known BY InitApproval DEF RefusalInv
<1>1. << >> \in Seq(Calls) /\ Len(<< >>) <= DeclinedMax /\ IsInjective(<< >>)
  BY ApprovalAssumption DEF IsInjective
<1>2. ApprovalTypeOK BY <1>1, ApprovalAssumption DEF ApprovalInit, ApprovalTypeOK
<1> QED BY <1>2 DEF ApprovalInit, Known

\* A step keeps the memory, and puts nobody's request to a person that was refused last.
LEMMA RefusalStep ==
  RefusalInv /\ [ApprovalNext]_approvalVars =>
    /\ RefusalInv'
    /\ \A r \in Requests : result[r] = "unasked" /\ result'[r] = "waiting" => call'[r] # last
<1> SUFFICES ASSUME RefusalInv, [ApprovalNext]_approvalVars
             PROVE  /\ ApprovalTypeOK' /\ Known'
                    /\ \A r \in Requests :
                         result[r] = "unasked" /\ result'[r] = "waiting" => call'[r] # last
  BY ApprovalStep DEF RefusalInv
<1>1. ApprovalTypeOK /\ Known /\ OpenIsWaiting BY DEF RefusalInv, ApprovalInv
<1>2. CASE UNCHANGED approvalVars BY <1>1, <1>2 DEF approvalVars, ApprovalTypeOK, Known
<1>3. ASSUME NEW r \in Requests, NEW k \in Calls, NEW channel \in {"console", "telegram"},
             Request(r, k, channel)
      PROVE  /\ ApprovalTypeOK' /\ Known'
             /\ \A q \in Requests :
                  result[q] = "unasked" /\ result'[q] = "waiting" => call'[q] # last
  <2>1. ApprovalTypeOK' /\ Known' /\ (result'[r] = "waiting" => k # last)
    BY <1>1, <1>3, RequestRemembers
  <2>2. /\ call' = [call EXCEPT ![r] = k]
        /\ \A q \in Requests : q # r => result'[q] = result[q]
    BY <1>1, <1>3 DEF Request, Refuse, AskTui, AskTelegram, ApprovalTypeOK
  <2>3. call'[r] = k BY <1>1, <2>2 DEF ApprovalTypeOK
  <2> QED BY <2>1, <2>2, <2>3
<1>4. ASSUME NEW r \in Requests,
             Answer(r) \/ Undelivered(r) \/ Timeout(r) \/ Delivered(r) \/ Abort(r)
      PROVE  /\ ApprovalTypeOK' /\ Known'
             /\ \A q \in Requests : result'[q] = "waiting" => result[q] = "waiting"
  BY <1>1, <1>4, AnswerRemembers
<1>5. CASE (\E a \in Askers : Register(a)) \/ TuiExit \/ TelegramStop
  BY <1>1, <1>5, AskersRemember
<1> QED BY <1>2, <1>3, <1>4, <1>5 DEF ApprovalNext

\* Every variable stays in its range: the memory of refusals holds no call twice and never
\* more than it may, however many are refused at once.
THEOREM MemoryStaysSmall == ApprovalSpec => []ApprovalTypeOK
<1>1. RefusalInv /\ [ApprovalNext]_approvalVars => RefusalInv' BY RefusalStep
<1>2. RefusalInv => ApprovalTypeOK BY DEF RefusalInv
<1> QED BY <1>1, <1>2, InitRefusalInv, PTL DEF ApprovalSpec

\* The call refused last is not put to a person again.
THEOREM RefusedStaysRefused == ApprovalSpec => RefusedIsNotAskedAgain
<1>1. RefusalInv /\ [ApprovalNext]_approvalVars => RefusalInv' BY RefusalStep
<1>2. RefusalInv /\ [ApprovalNext]_approvalVars =>
        [\A r \in Requests :
           (result[r] = "unasked" /\ result'[r] = "waiting") => call'[r] # last]_approvalVars
  BY RefusalStep
<1> QED BY <1>1, <1>2, InitRefusalInv, PTL DEF ApprovalSpec, RefusedIsNotAskedAgain

-----------------------------------------------------------------------------
(***************************************************************************)
(* The life of a task.  One lemma for each step of the coordinator, its    *)
(* stops, its sessions, the scribe and the sweep says that the step keeps  *)
(* the whole invariant; what the steps have in common (which agent moved,  *)
(* what a write that joins or leaves the queue changes, which upsets       *)
(* happened) comes first.                                                  *)
(***************************************************************************)

USE CodeTaskAssumption

-----------------------------------------------------------------------------
(* The writes of the scribe that wait, as far as they are about one task *)

Open == {"pending", "planning"}
Over == {"completed", "failed"}
Final == Results
Completed == {"completed"}
Flush == {"flush"}
Words == Statuses \cup {"flush"}

Says(q, t, S) == \E n \in DOMAIN q : q[n][1] = t /\ q[n][2] \in S

\* A record of the task as going has one behind it that says how it ended.
Follows(q, t) ==
  \A m \in DOMAIN q :
    q[m][1] = t /\ q[m][2] \in Open =>
      \E n \in DOMAIN q : n > m /\ q[n][1] = t /\ q[n][2] \in Final

\* No record of the task as going is behind one that says that it is over.
NoReturn(q, t) ==
  \A m, n \in DOMAIN q :
    m < n /\ q[m][1] = t /\ q[n][1] = t /\ q[m][2] \in Over => q[n][2] \notin Open

\* At most one stop of the task waits for the writes before it.
Once(q, t) ==
  \A m, n \in DOMAIN q :
    q[m][1] = t /\ q[n][1] = t /\ q[m][2] = "flush" /\ q[n][2] = "flush" => m = n

-----------------------------------------------------------------------------
(* The invariant *)

\* A worktree is made for a task that needs one, and this process knows the worktree of a
\* run that got past its preparation, and the one that is about to be removed.
Worktrees ==
  /\ \A t \in Tasks : tree[t] # "none" => t \in Mutating
  /\ \A t \in Mutating : At(Run(t)) \notin {"idle", "preparing", "over"} => t \in held
  /\ \A t \in Tasks :
       /\ At(Run(t)) \in {"discarding", "removing"} => pc[Run(t)].goal \in held
       /\ At(Stop(t)) \in {"discarding", "removing"} => pc[Stop(t)].goal \in held

\* What the sweep has found has changes only if this process made them since.
Swept == \A t \in sweep.found : tree[t] = "dirty" => t \in held

\* A stop works on its own task, which is among the stopped; it integrates if that was asked,
\* and is where its flush says.
Stops ==
  \A t \in Tasks :
    /\ At(Stop(t)) \in {"idle", "waiting", "flushing", "putting", "applying", "removing",
                        "tidying", "discarding", "done"}
    /\ Stopping(t) => t \in stopped
    /\ At(Stop(t)) \in {"applying", "removing", "tidying", "discarding"} =>
         pc[Stop(t)].goal = t
    /\ At(Stop(t)) = "applying" => t \in integrates
    /\ Says(queue, t, Flush) => At(Stop(t)) = "flushing"
    /\ Once(queue, t)

\* The places of a run; and nothing goes on without a process.
Runs ==
  /\ \A t \in Tasks : At(Run(t)) \notin {"waiting", "flushing", "putting", "done"}
  /\ \A t \in Tasks : At(Run(t)) \in {"applying", "removing", "settling"} =>
       pc[Run(t)].as \in Results \cup {"held"}
  /\ ~up => queue = <<>> /\ \A t \in Tasks : ~Going(t) /\ At(Stop(t)) = "idle"

\* One run at a time, in its session, to its end; no stop came late; every worktree was made.
Orderly == Without({"overlap", "switch", "resume"})
InTime == Without({"late"})
Housed == Without({"prepare"})

\* The active task is the one that goes, its run works on it, and its harness is tracked under
\* it: a stop that got past its wait has no harness beside it.
Alone ==
  Orderly =>
    /\ again = {}
    /\ \A t \in Tasks :
         /\ Going(t) => active = t
         /\ At(Run(t)) \in {"running", "aborted"} => key[t] = t
         /\ At(Run(t)) \in {"applying", "removing", "settling", "tidying", "discarding"} =>
              pc[Run(t)].goal = t
         /\ Stopping(t) /\ At(Stop(t)) # "waiting" => At(Run(t)) # "running"

\* What is about to be removed, or to be recorded as completed, has no work left in it.
SafeOf(t) ==
  /\ At(Run(t)) \in {"discarding", "removing"} => tree[t] # "dirty"
  /\ At(Stop(t)) \in {"discarding", "removing"} => tree[t] # "dirty"
  /\ At(Run(t)) = "settling" /\ pc[Run(t)].as = "completed" => tree[t] # "dirty"
  /\ doc[t] = "completed" \/ Says(queue, t, Completed) =>
       tree[t] # "dirty" /\ At(Run(t)) = "over"
  /\ <<t, "task">> \notin lost

Safe == Orderly => \A t \in Tasks : SafeOf(t)

\* A run that integrates was not stopped, if no stop came later.
Unstopped ==
  Orderly /\ InTime => \A t \in Tasks : At(Run(t)) = "applying" => t \notin stopped

\* When all that waits is written, the task is not recorded as going.
Settled(t) ==
  \/ doc[t] = "cancelled"
  \/ (doc[t] \in Open => Says(queue, t, Final)) /\ Follows(queue, t)

\* What is recorded of a task before its run, when it is prepared, and when it is over.
ToldOf(t) ==
  /\ At(Run(t)) = "idle" =>
       doc[t] = "none" /\ At(Stop(t)) = "idle" /\ ~Says(queue, t, Words)
  /\ At(Run(t)) = "preparing" => doc[t] \notin Over /\ ~Says(queue, t, Over)
  /\ up /\ At(Run(t)) \in {"tidying", "discarding", "over"} =>
       Settled(t) \/ (t \in stopped /\ At(Stop(t)) # "done")
  /\ t \in stopped /\ At(Stop(t)) = "done" =>
       doc[t] = "cancelled" \/ (Settled(t) /\ At(Run(t)) # "preparing")
  /\ At(Stop(t)) \in {"applying", "removing", "tidying", "discarding"} => doc[t] = "cancelled"
  /\ doc[t] \in Over => ~Says(queue, t, Open)
  /\ NoReturn(queue, t)

Told == Orderly /\ Housed => \A t \in Tasks : ToldOf(t)

CodeTaskInv ==
  /\ TypeOK /\ Worktrees /\ Swept /\ Stops /\ Runs /\ Alone /\ Safe /\ Unstopped /\ Told

-----------------------------------------------------------------------------
(* Sequences *)

LEMMA SetToSeqIs ==
  ASSUME NEW S, IsFiniteSet(S)
  PROVE  /\ SetToSeq(S) \in Seq(S)
         /\ \A x \in S : \E n \in DOMAIN SetToSeq(S) : SetToSeq(S)[n] = x
<1> DEFINE N == Cardinality(S)
           q == SetToSeq(S)
<1>1. N \in Nat /\ ExistsBijection(1 .. N, S)
  BY FS_CardinalityType
<1>2. PICK f \in Bijection(1 .. N, S) : TRUE
  BY <1>1 DEF ExistsBijection
<1>3. f \in [1 .. N -> S] /\ IsInjective(f)
  BY <1>2 DEF Bijection, Injection, IsInjective
<1>4. q \in [1 .. N -> S] /\ IsInjective(q)
  BY <1>3 DEF SetToSeq
<1>5. q \in Injection(1 .. N, S)
  BY <1>4 DEF Injection, IsInjective
<1>6. Cardinality(1 .. N) = N /\ IsFiniteSet(1 .. N)
  BY <1>1, FS_Interval
<1>7. q \in Surjection(1 .. N, S)
  BY <1>5, <1>6, FS_Injection
<1>8. \A x \in S : \E n \in 1 .. N : q[n] = x
  BY <1>7 DEF Surjection
<1>9. QED
  BY <1>1, <1>4, <1>8

-----------------------------------------------------------------------------
(* What a write that joins or leaves the queue changes *)

LEMMA AppendIs ==
  ASSUME NEW S, NEW q \in Seq(S), NEW e \in S
  PROVE  /\ Append(q, e) \in Seq(S) /\ DOMAIN q = 1 .. Len(q) /\ Len(q) \in Nat
         /\ DOMAIN Append(q, e) = 1 .. (Len(q) + 1)
         /\ \A n \in 1 .. Len(q) : Append(q, e)[n] = q[n]
         /\ Append(q, e)[Len(q) + 1] = e
  OBVIOUS

LEMMA TailIs ==
  ASSUME NEW S, NEW q \in Seq(S), q # <<>>
  PROVE  /\ Tail(q) \in Seq(S) /\ DOMAIN q = 1 .. Len(q) /\ Len(q) \in Nat /\ Len(q) > 0
         /\ DOMAIN Tail(q) = 1 .. (Len(q) - 1)
         /\ \A n \in 1 .. (Len(q) - 1) : Tail(q)[n] = q[n + 1]
         /\ Head(q) = q[1] /\ q[1] \in S
  OBVIOUS

Writes == Tasks \X Words

LEMMA SaysMore ==
  ASSUME NEW q \in Seq(Writes), NEW u \in Tasks, NEW s \in Words
  PROVE  /\ Append(q, <<u, s>>) \in Seq(Writes)
         /\ \A t \in Tasks : \A S :
              Says(Append(q, <<u, s>>), t, S) <=> Says(q, t, S) \/ (t = u /\ s \in S)
<1>1. <<u, s>> \in Writes
  BY DEF Writes
<1>2. QED
  BY <1>1, AppendIs DEF Says

LEMMA FollowsMore ==
  ASSUME NEW q \in Seq(Writes), NEW u \in Tasks, NEW s \in Words
  PROVE  \A t \in Tasks :
           /\ t # u \/ s \notin Open => (Follows(q, t) => Follows(Append(q, <<u, s>>), t))
           /\ t = u /\ s \in Final => Follows(Append(q, <<u, s>>), t)
<1> DEFINE r == Append(q, <<u, s>>)
           N == Len(q)
<1>1. /\ DOMAIN q = 1 .. N /\ N \in Nat /\ DOMAIN r = 1 .. (N + 1)
      /\ \A n \in 1 .. N : r[n] = q[n]
      /\ r[N + 1] = <<u, s>>
  <2>1. <<u, s>> \in Writes
    BY DEF Writes
  <2>2. QED
    BY <2>1, AppendIs
<1> HIDE DEF r, N
<1>2. \A m \in DOMAIN r : m \in DOMAIN q \/ m = N + 1
  BY <1>1
<1>3. DOMAIN q \subseteq DOMAIN r /\ N + 1 \in DOMAIN r /\ \A m \in DOMAIN q : N + 1 > m
  BY <1>1
<1>4. ASSUME NEW t \in Tasks, t # u \/ s \notin Open, Follows(q, t)
      PROVE  Follows(r, t)
  BY <1>1, <1>2, <1>3, <1>4 DEF Follows
<1>5. ASSUME NEW t \in Tasks, t = u, s \in Final
      PROVE  Follows(r, t)
  <2>1. s \notin Open
    BY <1>5 DEF Final, Open, Results
  <2>2. QED
    BY <1>1, <1>2, <1>3, <1>5, <2>1 DEF Follows
<1>6. QED
  BY <1>4, <1>5 DEF r

LEMMA NoReturnMore ==
  ASSUME NEW q \in Seq(Writes), NEW u \in Tasks, NEW s \in Words
  PROVE  \A t \in Tasks :
           /\ NoReturn(q, t) /\ (t # u \/ s \notin Open \/ ~Says(q, t, Over)) =>
                NoReturn(Append(q, <<u, s>>), t)
           /\ Once(q, t) /\ (t # u \/ s # "flush" \/ ~Says(q, t, Flush)) =>
                Once(Append(q, <<u, s>>), t)
<1> DEFINE r == Append(q, <<u, s>>)
           N == Len(q)
<1>1. /\ DOMAIN q = 1 .. N /\ N \in Nat /\ DOMAIN r = 1 .. (N + 1)
      /\ \A n \in 1 .. N : r[n] = q[n]
      /\ r[N + 1] = <<u, s>>
  <2>1. <<u, s>> \in Writes
    BY DEF Writes
  <2>2. QED
    BY <2>1, AppendIs
<1> HIDE DEF r, N
<1>2. \A m \in DOMAIN r : m \in DOMAIN q \/ m = N + 1
  BY <1>1
<1>3. \A m, n \in DOMAIN r : m < n => m \in DOMAIN q
  BY <1>1
<1>4. ASSUME NEW t \in Tasks, NoReturn(q, t), t # u \/ s \notin Open \/ ~Says(q, t, Over)
      PROVE  NoReturn(r, t)
  BY <1>1, <1>2, <1>3, <1>4 DEF NoReturn, Says
<1>5. ASSUME NEW t \in Tasks, Once(q, t), t # u \/ s # "flush" \/ ~Says(q, t, Flush)
      PROVE  Once(r, t)
  BY <1>1, <1>2, <1>5 DEF Once, Says, Flush
<1>6. QED
  BY <1>4, <1>5 DEF r

LEMMA SaysLess ==
  ASSUME NEW q \in Seq(Writes), q # <<>>
  PROVE  /\ Tail(q) \in Seq(Writes) /\ Head(q) \in Writes
         /\ \A t \in Tasks : \A S :
              Says(q, t, S) <=> Says(Tail(q), t, S) \/ (Head(q)[1] = t /\ Head(q)[2] \in S)
         /\ \A t \in Tasks : Once(q, t) => Once(Tail(q), t)
         /\ \A t \in Tasks :
              Once(q, t) /\ Head(q) = <<t, "flush">> => ~Says(Tail(q), t, Flush)
<1> DEFINE r == Tail(q)
           N == Len(q)
<1>1. /\ r \in Seq(Writes) /\ DOMAIN q = 1 .. N /\ N \in Nat /\ N > 0 /\ DOMAIN r = 1 .. (N - 1)
      /\ \A n \in 1 .. (N - 1) : r[n] = q[n + 1]
      /\ Head(q) = q[1] /\ q[1] \in Writes
  BY TailIs
<1>2. \A n \in DOMAIN r : n + 1 \in DOMAIN q /\ n + 1 # 1 /\ r[n] = q[n + 1]
  BY <1>1
<1>3. 1 \in DOMAIN q /\ \A n \in DOMAIN q : n = 1 \/ (n - 1 \in DOMAIN r /\ r[n - 1] = q[n])
  BY <1>1
<1>4. \A m, n \in DOMAIN r : m + 1 = n + 1 => m = n
  BY <1>1
<1>5. Head(q) = q[1]
  BY <1>1
<1> HIDE DEF r, N
<1>6. ASSUME NEW t \in Tasks, NEW S
      PROVE  Says(q, t, S) <=> Says(r, t, S) \/ (Head(q)[1] = t /\ Head(q)[2] \in S)
  BY <1>2, <1>3, <1>5 DEF Says
<1>7. ASSUME NEW t \in Tasks, Once(q, t)
      PROVE  Once(r, t) /\ (Head(q) = <<t, "flush">> => ~Says(r, t, Flush))
  BY <1>2, <1>3, <1>4, <1>5, <1>7 DEF Once, Says, Flush
<1>8. QED
  BY <1>1, <1>6, <1>7 DEF r

LEMMA FollowsLess ==
  ASSUME NEW q \in Seq(Writes), q # <<>>
  PROVE  \A t \in Tasks :
           /\ Follows(q, t) => Follows(Tail(q), t)
           /\ Follows(q, t) /\ Head(q)[1] = t /\ Head(q)[2] \in Open => Says(Tail(q), t, Final)
           /\ NoReturn(q, t) => NoReturn(Tail(q), t)
           /\ NoReturn(q, t) /\ Head(q)[1] = t /\ Head(q)[2] \in Over => ~Says(Tail(q), t, Open)
<1> DEFINE r == Tail(q)
           N == Len(q)
<1>1. /\ DOMAIN q = 1 .. N /\ N \in Nat /\ N > 0 /\ DOMAIN r = 1 .. (N - 1)
      /\ \A n \in 1 .. (N - 1) : r[n] = q[n + 1]
      /\ Head(q) = q[1]
  BY TailIs
<1>2. \A n \in DOMAIN r : n + 1 \in DOMAIN q /\ n + 1 > 1 /\ r[n] = q[n + 1]
  BY <1>1
<1>3. /\ 1 \in DOMAIN q
      /\ \A n \in DOMAIN q : n > 1 => n - 1 \in DOMAIN r /\ r[n - 1] = q[n]
  BY <1>1
<1>4. /\ \A m, n \in DOMAIN r : m < n => m + 1 < n + 1
      /\ \A m \in DOMAIN r, n \in DOMAIN q : n > m + 1 => n > 1 /\ n - 1 > m
  BY <1>1
<1>5. Head(q) = q[1]
  BY <1>1
<1> HIDE DEF r, N
<1>6. ASSUME NEW t \in Tasks, Follows(q, t)
      PROVE  /\ Follows(r, t)
             /\ Head(q)[1] = t /\ Head(q)[2] \in Open => Says(r, t, Final)
  <2>1. Follows(r, t)
    <3> SUFFICES ASSUME NEW m \in DOMAIN r, r[m][1] = t /\ r[m][2] \in Open
                 PROVE  \E n \in DOMAIN r : n > m /\ r[n][1] = t /\ r[n][2] \in Final
      BY DEF Follows
    <3>1. PICK n \in DOMAIN q : n > m + 1 /\ q[n][1] = t /\ q[n][2] \in Final
      BY <1>2, <1>6 DEF Follows
    <3>2. n - 1 \in DOMAIN r /\ n - 1 > m /\ r[n - 1] = q[n]
      BY <1>3, <1>4, <3>1
    <3>3. QED
      BY <3>1, <3>2
  <2>2. ASSUME Head(q)[1] = t, Head(q)[2] \in Open
        PROVE  Says(r, t, Final)
    <3>1. PICK n \in DOMAIN q : n > 1 /\ q[n][1] = t /\ q[n][2] \in Final
      BY <1>3, <1>5, <1>6, <2>2 DEF Follows
    <3>2. QED
      BY <1>3, <3>1 DEF Says
  <2>3. QED
    BY <2>1, <2>2
<1>7. ASSUME NEW t \in Tasks, NoReturn(q, t)
      PROVE  /\ NoReturn(r, t)
             /\ Head(q)[1] = t /\ Head(q)[2] \in Over => ~Says(r, t, Open)
  <2>1. NoReturn(r, t)
    BY <1>2, <1>4, <1>7 DEF NoReturn
  <2>2. Head(q)[1] = t /\ Head(q)[2] \in Over => ~Says(r, t, Open)
    <3>1. \A n \in DOMAIN r : 1 < n + 1
      BY <1>1
    <3>2. QED
      BY <1>2, <1>3, <1>5, <1>7, <3>1 DEF NoReturn, Says
  <2>3. QED
    BY <2>1, <2>2
<1>8. QED
  BY <1>6, <1>7 DEF r

LEMMA NothingSaidOf ==
  ASSUME NEW q \in Seq(Writes), NEW t \in Tasks, ~Says(q, t, Words)
  PROVE  \A S : ~Says(q, t, S)
  BY DEF Says, Writes

LEMMA NothingSaid ==
  \A t \in Tasks :
    /\ \A S : ~Says(<<>>, t, S)
    /\ Follows(<<>>, t) /\ NoReturn(<<>>, t) /\ Once(<<>>, t)
  BY DEF Says, Follows, NoReturn, Once

\* The queue that reconcileInterruptedTasks leaves.
LEMMA FailedSaid ==
  ASSUME NEW T \in SUBSET Tasks
  PROVE  LET q == SetToSeq({<<t, "failed">> : t \in T})
         IN /\ q \in Seq(Writes)
            /\ \A t \in Tasks :
                 /\ \A S : Says(q, t, S) <=> t \in T /\ "failed" \in S
                 /\ Follows(q, t) /\ NoReturn(q, t) /\ Once(q, t)
<1> DEFINE F == {<<t, "failed">> : t \in T}
           q == SetToSeq(F)
<1>1. IsFiniteSet(F)
  <2>1. IsFiniteSet(T) /\ IsFiniteSet({"failed"})
    BY FS_Subset, FS_Singleton
  <2>2. IsFiniteSet(T \X {"failed"})
    BY <2>1, FS_Product
  <2>3. F = T \X {"failed"}
    OBVIOUS
  <2>4. QED
    BY <2>2, <2>3
<1>2. q \in Seq(F) /\ \A x \in F : \E n \in DOMAIN q : q[n] = x
  BY <1>1, SetToSeqIs
<1>3. F \subseteq Writes
  BY DEF Writes, Words, Statuses, Terminal
<1>4. q \in Seq(Writes)
  BY <1>2, <1>3
<1> HIDE DEF q
<1>5. \A n \in DOMAIN q : q[n] \in F
  BY <1>2
<1>6. \A n \in DOMAIN q : q[n][1] \in T /\ q[n][2] = "failed"
  BY <1>5
<1>7. ASSUME NEW t \in Tasks
      PROVE  Follows(q, t) /\ NoReturn(q, t) /\ Once(q, t)
  BY <1>6 DEF Follows, NoReturn, Once, Open
<1>8. ASSUME NEW t \in Tasks, NEW S
      PROVE  Says(q, t, S) <=> t \in T /\ "failed" \in S
  <2>1. ASSUME t \in T, "failed" \in S
        PROVE  Says(q, t, S)
    <3>1. PICK n \in DOMAIN q : q[n] = <<t, "failed">>
      BY <1>2, <2>1
    <3>2. QED
      BY <2>1, <3>1 DEF Says
  <2>2. QED
    BY <1>6, <2>1 DEF Says
<1>9. QED
  BY <1>4, <1>7, <1>8 DEF q

-----------------------------------------------------------------------------
(* What a step of a run or of a stop changes *)

LEMMA AgentsAre ==
  /\ \A t \in Tasks : Run(t) \in Agents /\ Stop(t) \in Agents
  /\ \A t, u \in Tasks : /\ Run(t) # Stop(u)
                         /\ Run(t) = Run(u) => t = u
                         /\ Stop(t) = Stop(u) => t = u
  /\ \A a \in Agents : \E t \in Tasks : a = Run(t) \/ a = Stop(t)
  BY DEF Run, Stop, Agents

Goals == Tasks \cup {NoTask}
Marks == Results \cup {"none", "held"}
Positions == [at : Places, goal : Goals, as : Marks]

LEMMA RunMoves ==
  ASSUME pc \in [Agents -> Positions], NEW t \in Tasks, NEW p \in Places, NEW x \in Goals,
         NEW r \in Marks, pc' = [pc EXCEPT ![Run(t)] = [at |-> p, goal |-> x, as |-> r]]
  PROVE  /\ pc' \in [Agents -> Positions]
         /\ pc'[Run(t)].at = p /\ pc'[Run(t)].goal = x /\ pc'[Run(t)].as = r
         /\ \A u \in Tasks \ {t} : pc'[Run(u)] = pc[Run(u)]
         /\ \A u \in Tasks : pc'[Stop(u)] = pc[Stop(u)]
<1>1. [at |-> p, goal |-> x, as |-> r] \in Positions
  BY DEF Positions
<1>2. QED
  BY <1>1, AgentsAre

LEMMA StopMoves ==
  ASSUME pc \in [Agents -> Positions], NEW t \in Tasks, NEW p \in Places, NEW x \in Goals,
         NEW r \in Marks, pc' = [pc EXCEPT ![Stop(t)] = [at |-> p, goal |-> x, as |-> r]]
  PROVE  /\ pc' \in [Agents -> Positions]
         /\ pc'[Stop(t)].at = p /\ pc'[Stop(t)].goal = x /\ pc'[Stop(t)].as = r
         /\ \A u \in Tasks \ {t} : pc'[Stop(u)] = pc[Stop(u)]
         /\ \A u \in Tasks : pc'[Run(u)] = pc[Run(u)]
<1>1. [at |-> p, goal |-> x, as |-> r] \in Positions
  BY DEF Positions
<1>2. QED
  BY <1>1, AgentsAre

\* The run of t, or its stop, is at a place now, and every other agent is where it was.
RunAt(t, p, x, r) ==
  /\ pc' \in [Agents -> Positions]
  /\ pc'[Run(t)].at = p /\ pc'[Run(t)].goal = x /\ pc'[Run(t)].as = r
  /\ \A u \in Tasks \ {t} : pc'[Run(u)] = pc[Run(u)]
  /\ \A u \in Tasks : pc'[Stop(u)] = pc[Stop(u)]

StopAt(t, p, x, r) ==
  /\ pc' \in [Agents -> Positions]
  /\ pc'[Stop(t)].at = p /\ pc'[Stop(t)].goal = x /\ pc'[Stop(t)].as = r
  /\ \A u \in Tasks \ {t} : pc'[Stop(u)] = pc[Stop(u)]
  /\ \A u \in Tasks : pc'[Run(u)] = pc[Run(u)]

\* The three ways in which an agent gets to another place.
LEMMA Goes ==
  ASSUME pc \in [Agents -> Positions], NEW t \in Tasks, NEW p \in Places
  PROVE  /\ pc[Run(t)].goal \in Goals /\ pc[Run(t)].as \in Marks
         /\ pc[Stop(t)].goal \in Goals /\ pc[Stop(t)].as \in Marks
         /\ Goto(Run(t), p) => RunAt(t, p, NoTask, "none")
         /\ Goto(Stop(t), p) => StopAt(t, p, NoTask, "none")
         /\ Moves(Run(t), p) => RunAt(t, p, pc[Run(t)].goal, pc[Run(t)].as)
         /\ Moves(Stop(t), p) => StopAt(t, p, pc[Stop(t)].goal, pc[Stop(t)].as)
         /\ \A x \in Goals, r \in Marks :
              /\ GotoFor(Run(t), p, x, r) => RunAt(t, p, x, r)
              /\ GotoFor(Stop(t), p, x, r) => StopAt(t, p, x, r)
<1>1. Run(t) \in Agents /\ Stop(t) \in Agents
  BY AgentsAre
<1>2. /\ pc[Run(t)] \in Positions /\ pc[Stop(t)] \in Positions
      /\ NoTask \in Goals /\ "none" \in Marks
  BY <1>1 DEF Goals, Marks
<1>3. /\ pc[Run(t)].goal \in Goals /\ pc[Run(t)].as \in Marks
      /\ pc[Stop(t)].goal \in Goals /\ pc[Stop(t)].as \in Marks
  BY <1>2 DEF Positions
<1>4. ASSUME NEW x \in Goals, NEW r \in Marks
      PROVE  /\ GotoFor(Run(t), p, x, r) => RunAt(t, p, x, r)
             /\ GotoFor(Stop(t), p, x, r) => StopAt(t, p, x, r)
  BY RunMoves, StopMoves DEF GotoFor, RunAt, StopAt
<1>5. /\ Goto(Run(t), p) => GotoFor(Run(t), p, NoTask, "none")
      /\ Goto(Stop(t), p) => GotoFor(Stop(t), p, NoTask, "none")
  BY DEF Goto, GotoFor, Just
<1>6. /\ Moves(Run(t), p) => GotoFor(Run(t), p, pc[Run(t)].goal, pc[Run(t)].as)
      /\ Moves(Stop(t), p) => GotoFor(Stop(t), p, pc[Stop(t)].goal, pc[Stop(t)].as)
  <2>1. ASSUME NEW a \in Agents
        PROVE  Moves(a, p) => GotoFor(a, p, pc[a].goal, pc[a].as)
    <3>1. [pc[a] EXCEPT !.at = p] = [at |-> p, goal |-> pc[a].goal, as |-> pc[a].as]
      BY DEF Positions
    <3>2. QED
      BY <3>1 DEF Moves, GotoFor
  <2>2. QED
    BY <1>1, <2>1
<1>7. QED
  BY <1>2, <1>3, <1>4, <1>5, <1>6

LEMMA HappensIs ==
  ASSUME upset \subseteq Upsets, Cardinality(upset) <= MaxUpsets, NEW kind, Happens(kind)
  PROVE  /\ upset' = upset \cup {kind} /\ upset' \subseteq Upsets
         /\ Cardinality(upset') <= MaxUpsets
<1>1. upset' = upset \cup {kind} /\ kind \in Upsets \ upset /\ Cardinality(upset) < MaxUpsets
  BY DEF Happens
<1>2. IsFiniteSet(upset)
  <2>1. IsFiniteSet(UpsetKinds)
    <3> DEFINE k == <<"prepare", "overlap", "switch", "deadline", "late", "crash", "resume",
                      "cleanup">>
    <3>1. k \in Surjection(1 .. 8, UpsetKinds)
      BY DEF UpsetKinds, Surjection
    <3>2. IsFiniteSet(1 .. 8)
      <4>1. 1 \in Int /\ 8 \in Int
        OBVIOUS
      <4>2. QED
        BY <4>1, FS_Interval
    <3>3. QED
      BY <3>1, <3>2, FS_Surjection
  <2>2. QED
    BY <2>1, FS_Subset
<1>3. Cardinality(upset') = Cardinality(upset) + 1 /\ Cardinality(upset) \in Nat
  BY <1>1, <1>2, FS_AddElement, FS_CardinalityType
<1>4. QED
  BY <1>1, <1>3

\* What never happened had not happened before.
LEMMA UpsetsGrow ==
  ASSUME upset \subseteq upset'
  PROVE  (Orderly' => Orderly) /\ (InTime' => InTime) /\ (Housed' => Housed)
  BY DEF Orderly, InTime, Housed, Without


-----------------------------------------------------------------------------
(* The steps keep the invariant *)

Trees == {"none", "clean", "dirty", "applied"}

LEMMA TypedIs ==
  ASSUME CodeTaskInv
  PROVE  /\ pc \in [Agents -> Positions] /\ queue \in Seq(Writes) /\ active \in Goals
         /\ upset \subseteq Upsets /\ Cardinality(upset) <= MaxUpsets
         /\ held \subseteq Tasks /\ stopped \subseteq Tasks /\ again \subseteq Tasks
         /\ sweep.found \subseteq Tasks /\ tree \in [Tasks -> Trees]
  BY DEF CodeTaskInv, TypeOK, Trees, Positions, Goals, Marks, Writes, Words

\* An upset that happens if a condition holds.
LEMMA HappensIfIs ==
  ASSUME CodeTaskInv, NEW condition \in BOOLEAN, NEW kind, HappensIf(condition, kind)
  PROVE  /\ upset' \subseteq Upsets /\ Cardinality(upset') <= MaxUpsets
         /\ (Orderly' => Orderly) /\ (InTime' => InTime) /\ (Housed' => Housed)
         /\ kind \in {"overlap", "switch", "resume"} /\ Orderly' => ~condition
         /\ kind = "late" /\ InTime' => ~condition
         /\ kind = "prepare" /\ Housed' => ~condition
<1>1. CASE condition
  <2>1. upset' = upset \cup {kind} /\ upset' \subseteq Upsets /\ Cardinality(upset') <= MaxUpsets
    BY <1>1, TypedIs, HappensIs DEF HappensIf
  <2>2. QED
    BY <1>1, <2>1, UpsetsGrow DEF Orderly, InTime, Housed, Without
<1>2. CASE ~condition
  <2>1. upset' = upset
    BY <1>2 DEF HappensIf
  <2>2. QED
    BY <1>2, <2>1, TypedIs, UpsetsGrow
<1>3. QED
  BY <1>1, <1>2

\* A task begins beside no other, unless that is an upset.
LEMMA BeginKeeps ==
  ASSUME CodeTaskInv, NEW t \in Tasks, Begin(t)
  PROVE  CodeTaskInv'
<1> USE DEF CodeTaskInv
<1>1. /\ up /\ At(Run(t)) = "idle" /\ active' = t
      /\ upset' \subseteq Upsets /\ Cardinality(upset') <= MaxUpsets
      /\ (Orderly' => Orderly) /\ (InTime' => InTime) /\ (Housed' => Housed)
      /\ Orderly' => \A u \in Tasks : ~Going(u)
      /\ doc' = doc /\ tree' = tree /\ held' = held /\ again' = again /\ key' = key
      /\ stopped' = stopped /\ asked' = asked /\ integrates' = integrates /\ sweep' = sweep
      /\ up' = up /\ starts' = starts /\ left' = left /\ planned' = planned /\ lost' = lost
  <2>1. AnyGoing \in BOOLEAN /\ HappensIf(AnyGoing, "overlap")
    BY DEF Begin, AnyGoing
  <2>2. QED
    BY <2>1, HappensIfIs DEF Begin, AnyGoing
<1>2. RunAt(t, "preparing", NoTask, "none")
  BY TypedIs, Goes DEF Begin, Places
<1>3. /\ queue' \in Seq(Writes)
      /\ \A v \in Tasks : Says(queue', v, Open) <=> Says(queue, v, Open) \/ v = t
      /\ \A v \in Tasks : Says(queue', v, Over) <=> Says(queue, v, Over)
      /\ \A v \in Tasks : Says(queue', v, Final) <=> Says(queue, v, Final)
      /\ \A v \in Tasks : Says(queue', v, Completed) <=> Says(queue, v, Completed)
      /\ \A v \in Tasks : Says(queue', v, Flush) <=> Says(queue, v, Flush)
      /\ \A v \in Tasks : Says(queue', v, Words) <=> Says(queue, v, Words) \/ v = t
      /\ \A v \in Tasks \ {t} : Follows(queue, v) => Follows(queue', v)
      /\ \A v \in Tasks \ {t} : NoReturn(queue, v) => NoReturn(queue', v)
      /\ NoReturn(queue, t) /\ ~Says(queue, t, Over) => NoReturn(queue', t)
      /\ \A v \in Tasks : Once(queue, v) => Once(queue', v)
  <2>1. queue \in Seq(Writes) /\ t \in Tasks
    BY TypedIs
  <2>2. /\ "pending" \in Open /\ "pending" \notin Over /\ "pending" \notin Final
        /\ "pending" \notin Completed /\ "pending" \notin Flush /\ "pending" \in Words
        /\ "pending" # "flush"
    BY DEF Open, Over, Final, Results, Completed, Flush, Words, Statuses, Terminal
  <2>3. queue' = Append(queue, <<t, "pending">>)
    BY DEF Begin, Post
  <2>4. QED
    BY <2>1, <2>2, <2>3, SaysMore, FollowsMore, NoReturnMore
<1>4. TypeOK'
  BY <1>1, <1>2, <1>3 DEF TypeOK, At, Positions, Goals, Marks, Writes, Words, Trees, RunAt
<1>5. Worktrees'
  BY <1>1, <1>2, <1>3 DEF Worktrees, At, RunAt
<1>6. Swept'
  BY <1>1, <1>2, <1>3 DEF Swept
<1>7. Stops'
  BY <1>1, <1>2, <1>3 DEF Stops, Stopping, At, RunAt
<1>8. Runs'
  BY <1>1, <1>2, <1>3 DEF Runs, Going, At, RunAt
<1>9. Alone'
  BY <1>1, <1>2, <1>3 DEF Alone, Going, Stopping, At, RunAt
<1>10. Safe'
  <2> SUFFICES ASSUME Orderly', NEW v \in Tasks
               PROVE  SafeOf(v)'
    BY DEF Safe
  <2>1. Orderly /\ SafeOf(v)
    BY <1>1, <1>2, <1>3 DEF Safe
  <2>2. QED
    BY <2>1, <1>1, <1>2, <1>3 DEF SafeOf, At, RunAt
<1>11. Unstopped'
  BY <1>1, <1>2, <1>3 DEF Unstopped, At, RunAt
<1>12. Told'
  <2> SUFFICES ASSUME Orderly', Housed', NEW v \in Tasks
               PROVE  ToldOf(v)'
    BY DEF Told
  <2>1. Orderly /\ Housed /\ ToldOf(v)
    BY <1>1, <1>2, <1>3 DEF Told
  <2>2. CASE v # t
    BY <2>1, <2>2, <1>1, <1>2, <1>3 DEF ToldOf, Settled, At, RunAt
  <2>3. CASE v = t
    BY <2>1, <2>3, <1>1, <1>2, <1>3, NothingSaidOf, TypedIs DEF ToldOf, Settled, At, RunAt,
                                                                Over
  <2>4. QED
    BY <2>2, <2>3
<1>13. QED
  BY <1>4, <1>5, <1>6, <1>7, <1>8, <1>9, <1>10, <1>11, <1>12

\* A task is resumed: that is not the order that was asked for.
LEMMA ResumeKeeps ==
  ASSUME CodeTaskInv, NEW t \in Tasks, Resume(t)
  PROVE  CodeTaskInv'
<1> USE DEF CodeTaskInv
<1>1. /\ up /\ t \in planned /\ ~Going(t) /\ active' \in {t, NoTask} /\ again' = again \cup {t}
      /\ upset' \subseteq Upsets /\ Cardinality(upset') <= MaxUpsets
      /\ (Orderly' => Orderly) /\ (InTime' => InTime) /\ (Housed' => Housed)
      /\ ~Orderly'
      /\ doc' = doc /\ queue' = queue /\ tree' = tree /\ held' = held /\ key' = key
      /\ stopped' = stopped /\ asked' = asked /\ integrates' = integrates /\ sweep' = sweep
      /\ up' = up /\ starts' = starts /\ left' = left /\ planned' = planned /\ lost' = lost
  <2>1. Happens("resume")
    BY DEF Resume
  <2>2. /\ upset' = upset \cup {"resume"} /\ upset' \subseteq Upsets
        /\ Cardinality(upset') <= MaxUpsets
    BY <2>1, TypedIs, HappensIs
  <2>3. ~Orderly'
    BY <2>2 DEF Orderly, Without
  <2>4. QED
    BY <2>2, <2>3, UpsetsGrow DEF Resume, AnyGoing
<1>2. RunAt(t, "preparing", NoTask, "none")
  BY TypedIs, Goes DEF Resume, Places
<1>3. TypeOK'
  BY <1>1, <1>2 DEF TypeOK, At, Positions, Goals, Marks, Writes, Words, Trees, RunAt, Going
<1>4. Worktrees'
  BY <1>1, <1>2 DEF Worktrees, At, RunAt
<1>5. Swept'
  BY <1>1, <1>2 DEF Swept
<1>6. Stops'
  BY <1>1, <1>2 DEF Stops, Stopping, At, RunAt
<1>7. Runs'
  BY <1>1, <1>2 DEF Runs, Going, At, RunAt
<1>8. Alone'
  BY <1>1 DEF Alone
<1>9. Safe'
  BY <1>1 DEF Safe
<1>10. Unstopped'
  BY <1>1 DEF Unstopped
<1>11. Told'
  BY <1>1 DEF Told
<1>12. QED
  BY <1>3, <1>4, <1>5, <1>6, <1>7, <1>8, <1>9, <1>10, <1>11

\* The worktree of a run is made, or taken as it is.
LEMMA PrepareKeeps ==
  ASSUME CodeTaskInv, NEW t \in Tasks, Prepare(t)
  PROVE  CodeTaskInv'
<1> USE DEF CodeTaskInv
<1>1. /\ At(Run(t)) = "preparing" /\ held' = IF t \in Mutating THEN held \cup {t} ELSE held
      /\ tree' \in [Tasks -> Trees]
      /\ \A u \in Tasks \ {t} : tree'[u] = tree[u]
      /\ tree'[t] = IF t \in Mutating /\ tree[t] = "none" THEN "clean" ELSE tree[t]
      /\ queue' = Append(queue, <<t, "planning">>) \/ queue' = queue
      /\ doc' = doc /\ active' = active /\ again' = again /\ key' = key
      /\ stopped' = stopped /\ asked' = asked /\ integrates' = integrates /\ sweep' = sweep
      /\ up' = up /\ starts' = starts /\ upset' = upset /\ left' = left
      /\ planned' = planned /\ lost' = lost
  <2>1. /\ tree' \in [Tasks -> Trees]
        /\ \A u \in Tasks \ {t} : tree'[u] = tree[u]
        /\ tree'[t] = IF t \in Mutating /\ tree[t] = "none" THEN "clean" ELSE tree[t]
    BY TypedIs DEF Prepare, Trees
  <2>2. queue' = Append(queue, <<t, "planning">>) \/ queue' = queue
    BY DEF Prepare, Post
  <2>3. QED
    BY <2>1, <2>2 DEF Prepare, past
<1>2. /\ pc' \in [Agents -> Positions]
      /\ pc'[Run(t)].at \in {"ready", "running"}
      /\ pc'[Run(t)].at = "running" => t \in again
      /\ \A u \in Tasks \ {t} : pc'[Run(u)] = pc[Run(u)]
      /\ \A u \in Tasks : pc'[Stop(u)] = pc[Stop(u)]
  <2>1. CASE t \in again
    <3>1. RunAt(t, "running", NoTask, "none")
      BY <2>1, TypedIs, Goes DEF Prepare, Places
    <3>2. QED
      BY <2>1, <3>1 DEF RunAt
  <2>2. CASE t \notin again
    <3>1. RunAt(t, "ready", NoTask, "none")
      BY <2>2, TypedIs, Goes DEF Prepare, Places
    <3>2. QED
      BY <2>2, <3>1 DEF RunAt
  <2>3. QED
    BY <2>1, <2>2 DEF Prepare
<1>3. /\ queue' \in Seq(Writes)
      /\ \A v \in Tasks \ {t} : Says(queue', v, Open) <=> Says(queue, v, Open)
      /\ \A v \in Tasks : Says(queue', v, Over) <=> Says(queue, v, Over)
      /\ \A v \in Tasks : Says(queue', v, Final) <=> Says(queue, v, Final)
      /\ \A v \in Tasks : Says(queue', v, Completed) <=> Says(queue, v, Completed)
      /\ \A v \in Tasks : Says(queue', v, Flush) <=> Says(queue, v, Flush)
      /\ \A v \in Tasks \ {t} : Says(queue', v, Words) <=> Says(queue, v, Words)
      /\ \A v \in Tasks \ {t} : Follows(queue, v) => Follows(queue', v)
      /\ \A v \in Tasks \ {t} : NoReturn(queue, v) => NoReturn(queue', v)
      /\ NoReturn(queue, t) /\ ~Says(queue, t, Over) => NoReturn(queue', t)
      /\ \A v \in Tasks : Once(queue, v) => Once(queue', v)
  <2>1. queue \in Seq(Writes) /\ t \in Tasks
    BY TypedIs
  <2>2. /\ "planning" \in Open /\ "planning" \notin Over /\ "planning" \notin Final
        /\ "planning" \notin Completed /\ "planning" \notin Flush /\ "planning" \in Words
        /\ "planning" # "flush"
    BY DEF Open, Over, Final, Results, Completed, Flush, Words, Statuses, Terminal
  <2>3. CASE queue' = Append(queue, <<t, "planning">>)
    BY <2>1, <2>2, <2>3, SaysMore, FollowsMore, NoReturnMore
  <2>4. CASE queue' = queue
    BY <2>1, <2>4
  <2>5. QED
    BY <1>1, <2>3, <2>4
<1>4. (Orderly' => Orderly) /\ (InTime' => InTime) /\ (Housed' => Housed)
  BY <1>1, UpsetsGrow
<1>5. TypeOK'
  BY <1>1, <1>2, <1>3, <1>4 DEF TypeOK, At, Positions, Goals, Marks, Writes, Words, Trees
<1>6. Worktrees'
  BY <1>1, <1>2, <1>3, <1>4 DEF Worktrees, At
<1>7. Swept'
  BY <1>1, <1>2, <1>3, <1>4, TypedIs DEF Swept
<1>8. Stops'
  BY <1>1, <1>2, <1>3, <1>4 DEF Stops, Stopping, At
<1>9. Runs'
  BY <1>1, <1>2, <1>3, <1>4 DEF Runs, Going, At
<1>10. Alone'
  BY <1>1, <1>2, <1>3, <1>4 DEF Alone, Going, Stopping, At
<1>11. Safe'
  <2> SUFFICES ASSUME Orderly', NEW v \in Tasks
               PROVE  SafeOf(v)'
    BY DEF Safe
  <2>1. Orderly /\ SafeOf(v)
    BY <1>1, <1>2, <1>3, <1>4 DEF Safe
  <2>2. QED
    BY <2>1, <1>1, <1>2, <1>3, <1>4 DEF SafeOf, At
<1>12. Unstopped'
  BY <1>1, <1>2, <1>3, <1>4 DEF Unstopped, At
<1>13. Told'
  <2> SUFFICES ASSUME Orderly', Housed', NEW v \in Tasks
               PROVE  ToldOf(v)'
    BY DEF Told
  <2>1. Orderly /\ Housed /\ ToldOf(v)
    BY <1>1, <1>2, <1>3, <1>4 DEF Told
  <2>2. CASE v # t
    BY <2>1, <2>2, <1>1, <1>2, <1>3, <1>4 DEF ToldOf, Settled, At
  <2>3. CASE v = t
    BY <2>1, <2>3, <1>1, <1>2, <1>3, <1>4 DEF ToldOf, Settled, At
  <2>4. QED
    BY <2>2, <2>3
<1>14. QED
  BY <1>5, <1>6, <1>7, <1>8, <1>9, <1>10, <1>11, <1>12, <1>13

LEMMA PrepareFailsKeeps ==
  ASSUME CodeTaskInv, NEW t \in Tasks, PrepareFails(t)
  PROVE  CodeTaskInv'
<1> USE DEF CodeTaskInv
<1>1. /\ At(Run(t)) = "preparing" /\ t \in Mutating /\ held' = held \cup {t}
      /\ upset' \subseteq Upsets /\ Cardinality(upset') <= MaxUpsets
      /\ (Orderly' => Orderly) /\ (InTime' => InTime) /\ (Housed' => Housed)
      /\ ~Housed'
      /\ doc' = doc /\ queue' = queue /\ tree' = tree /\ active' = active /\ again' = again
      /\ key' = key /\ stopped' = stopped /\ asked' = asked /\ integrates' = integrates
      /\ sweep' = sweep /\ up' = up /\ starts' = starts /\ left' = left
      /\ planned' = planned /\ lost' = lost
  <2>1. Happens("prepare")
    BY DEF PrepareFails
  <2>2. /\ upset' = upset \cup {"prepare"} /\ upset' \subseteq Upsets
        /\ Cardinality(upset') <= MaxUpsets
    BY <2>1, TypedIs, HappensIs
  <2>3. ~Housed'
    BY <2>2 DEF Housed, Without
  <2>4. QED
    BY <2>2, <2>3, UpsetsGrow DEF PrepareFails
<1>2. RunAt(t, "over", NoTask, "none")
  BY TypedIs, Goes DEF PrepareFails, Places
<1>3. TypeOK'
  BY <1>1, <1>2 DEF TypeOK, At, Positions, Goals, Marks, Writes, Words, Trees, RunAt
<1>4. Worktrees'
  BY <1>1, <1>2 DEF Worktrees, At, RunAt
<1>5. Swept'
  BY <1>1, <1>2 DEF Swept
<1>6. Stops'
  BY <1>1, <1>2 DEF Stops, Stopping, At, RunAt
<1>7. Runs'
  BY <1>1, <1>2 DEF Runs, Going, At, RunAt
<1>8. Alone'
  BY <1>1, <1>2 DEF Alone, Going, Stopping, At, RunAt
<1>9. Safe'
  <2> SUFFICES ASSUME Orderly', NEW v \in Tasks
               PROVE  SafeOf(v)'
    BY DEF Safe
  <2>1. Orderly /\ SafeOf(v)
    BY <1>1, <1>2 DEF Safe
  <2>2. QED
    BY <2>1, <1>1, <1>2 DEF SafeOf, At, RunAt
<1>10. Unstopped'
  BY <1>1, <1>2 DEF Unstopped, At, RunAt
<1>11. Told'
  BY <1>1 DEF Told
<1>12. QED
  BY <1>3, <1>4, <1>5, <1>6, <1>7, <1>8, <1>9, <1>10, <1>11

\* The harness is tracked under the active task, and does not work if that one was stopped.
LEMMA StartHarnessKeeps ==
  ASSUME CodeTaskInv, NEW t \in Tasks, StartHarness(t)
  PROVE  CodeTaskInv'
<1> USE DEF CodeTaskInv
<1>1. /\ At(Run(t)) = "ready" /\ key' \in [Tasks -> Goals] /\ planned' = planned \cup {t}
      /\ key'[t] = active /\ \A u \in Tasks \ {t} : key'[u] = key[u]
      /\ doc' = doc /\ queue' = queue /\ tree' = tree /\ active' = active /\ held' = held
      /\ again' = again /\ stopped' = stopped /\ asked' = asked /\ integrates' = integrates
      /\ sweep' = sweep /\ up' = up /\ starts' = starts /\ upset' = upset /\ left' = left
      /\ lost' = lost
  BY TypedIs DEF StartHarness, TypeOK, Goals
<1>2. /\ pc' \in [Agents -> Positions]
      /\ pc'[Run(t)].at \in {"running", "aborted"}
      /\ pc'[Run(t)].at = "running" => active \notin stopped
      /\ \A u \in Tasks \ {t} : pc'[Run(u)] = pc[Run(u)]
      /\ \A u \in Tasks : pc'[Stop(u)] = pc[Stop(u)]
  <2>1. CASE active \in stopped
    <3>1. RunAt(t, "aborted", NoTask, "none")
      BY <2>1, TypedIs, Goes DEF StartHarness, Places
    <3>2. QED
      BY <2>1, <3>1 DEF RunAt
  <2>2. CASE active \notin stopped
    <3>1. RunAt(t, "running", NoTask, "none")
      BY <2>2, TypedIs, Goes DEF StartHarness, Places
    <3>2. QED
      BY <2>2, <3>1 DEF RunAt
  <2>3. QED
    BY <2>1, <2>2 DEF StartHarness
<1>3. (Orderly' => Orderly) /\ (InTime' => InTime) /\ (Housed' => Housed)
  BY <1>1, UpsetsGrow
<1>4. TypeOK'
  BY <1>1, <1>2, <1>3 DEF TypeOK, At, Positions, Goals, Marks, Writes, Words, Trees
<1>5. Worktrees'
  BY <1>1, <1>2, <1>3 DEF Worktrees, At
<1>6. Swept'
  BY <1>1, <1>2, <1>3 DEF Swept
<1>7. Stops'
  BY <1>1, <1>2, <1>3 DEF Stops, Stopping, At
<1>8. Runs'
  BY <1>1, <1>2, <1>3 DEF Runs, Going, At
<1>9. Alone'
  BY <1>1, <1>2, <1>3 DEF Alone, Going, Stopping, At, Stops
<1>10. Safe'
  <2> SUFFICES ASSUME Orderly', NEW v \in Tasks
               PROVE  SafeOf(v)'
    BY DEF Safe
  <2>1. Orderly /\ SafeOf(v)
    BY <1>1, <1>2, <1>3 DEF Safe
  <2>2. QED
    BY <2>1, <1>1, <1>2, <1>3 DEF SafeOf, At
<1>11. Unstopped'
  BY <1>1, <1>2, <1>3 DEF Unstopped, At
<1>12. Told'
  <2> SUFFICES ASSUME Orderly', Housed', NEW v \in Tasks
               PROVE  ToldOf(v)'
    BY DEF Told
  <2>1. Orderly /\ Housed /\ ToldOf(v)
    BY <1>1, <1>2, <1>3 DEF Told
  <2>2. CASE v # t
    BY <2>1, <2>2, <1>1, <1>2, <1>3 DEF ToldOf, Settled, At
  <2>3. CASE v = t
    BY <2>1, <2>3, <1>1, <1>2, <1>3 DEF ToldOf, Settled, At
  <2>4. QED
    BY <2>2, <2>3
<1>13. QED
  BY <1>4, <1>5, <1>6, <1>7, <1>8, <1>9, <1>10, <1>11, <1>12

\* The workers write where nothing is about to be removed.
LEMMA WorkKeeps ==
  ASSUME CodeTaskInv, NEW t \in Tasks, Work(t)
  PROVE  CodeTaskInv'
<1> USE DEF CodeTaskInv
<1>1. /\ At(Run(t)) = "running" /\ tree[t] # "none" /\ tree'[t] = "dirty"
      /\ tree' \in [Tasks -> Trees]
      /\ \A u \in Tasks \ {t} : tree'[u] = tree[u]
      /\ doc' = doc /\ queue' = queue /\ active' = active /\ held' = held /\ pc' = pc
      /\ again' = again /\ key' = key /\ stopped' = stopped /\ asked' = asked
      /\ integrates' = integrates /\ sweep' = sweep /\ up' = up /\ starts' = starts
      /\ upset' = upset /\ left' = left /\ planned' = planned /\ lost' = lost
  BY TypedIs DEF Work, Trees, memory, past
<1>2. (Orderly' => Orderly) /\ (InTime' => InTime) /\ (Housed' => Housed)
  BY <1>1, UpsetsGrow
<1>3. TypeOK'
  BY <1>1, <1>2 DEF TypeOK, At, Positions, Goals, Marks, Writes, Words, Trees
<1>4. Worktrees'
  BY <1>1, <1>2 DEF Worktrees, At
<1>5. Swept'
  BY <1>1, <1>2, TypedIs DEF Swept, Worktrees, At
<1>6. Stops'
  BY <1>1, <1>2 DEF Stops, Stopping, At
<1>7. Runs'
  BY <1>1, <1>2 DEF Runs, Going, At
<1>8. Alone'
  BY <1>1, <1>2 DEF Alone, Going, Stopping, At
<1>9. Safe'
  <2> SUFFICES ASSUME Orderly', NEW v \in Tasks
               PROVE  SafeOf(v)'
    BY DEF Safe
  <2>1. Orderly /\ SafeOf(v)
    BY <1>1, <1>2 DEF Safe
  <2>2. QED
    BY <2>1, <1>1, <1>2 DEF SafeOf, At, Alone, Stopping
<1>10. Unstopped'
  BY <1>1, <1>2 DEF Unstopped, At
<1>11. Told'
  <2> SUFFICES ASSUME Orderly', Housed', NEW v \in Tasks
               PROVE  ToldOf(v)'
    BY DEF Told
  <2>1. Orderly /\ Housed /\ ToldOf(v)
    BY <1>1, <1>2 DEF Told
  <2>2. QED
    BY <2>1, <1>1, <1>2 DEF ToldOf, Settled, At
<1>12. QED
  BY <1>3, <1>4, <1>5, <1>6, <1>7, <1>8, <1>9, <1>10, <1>11

\* The harness ends: what follows works on the active task.
LEMMA HarnessEndsKeeps ==
  ASSUME CodeTaskInv, NEW t \in Tasks, NEW outcome \in Ends, HarnessEnds(t, outcome)
  PROVE  CodeTaskInv'
<1> USE DEF CodeTaskInv
<1>1. /\ At(Run(t)) \in {"running", "aborted"}
      /\ key' \in [Tasks -> Goals] /\ key'[t] = NoTask
      /\ \A u \in Tasks : key'[u] \in {NoTask, key[u]}
      /\ doc' = doc /\ queue' = queue /\ tree' = tree /\ active' = active /\ held' = held
      /\ again' = again /\ stopped' = stopped /\ asked' = asked /\ integrates' = integrates
      /\ sweep' = sweep /\ up' = up /\ starts' = starts /\ upset' = upset /\ left' = left
      /\ planned' = planned /\ lost' = lost
  <2>1. key \in [Tasks -> Goals]
    BY DEF TypeOK, Goals
  <2>2. QED
    BY <2>1 DEF HarnessEnds, Forget, Goals, past
<1>2. /\ pc' \in [Agents -> Positions]
      /\ pc'[Run(t)].at \in {"over", "applying", "settling"}
      /\ pc'[Run(t)].at = "over" => t \notin again /\ active \in stopped
      /\ pc'[Run(t)].at # "over" => pc'[Run(t)].as \in Results
      /\ pc'[Run(t)].at # "over" /\ t \notin again =>
           pc'[Run(t)].goal = active /\ active \notin stopped
      /\ pc'[Run(t)].at = "settling" => pc'[Run(t)].as # "completed"
      /\ \A u \in Tasks \ {t} : pc'[Run(u)] = pc[Run(u)]
      /\ \A u \in Tasks : pc'[Stop(u)] = pc[Stop(u)]
  <2>1. CASE t \notin again /\ CheckStopped
    <3>1. RunAt(t, "over", NoTask, "none")
      BY <2>1, TypedIs, Goes
        DEF HarnessEnds, Places, Goals, Marks, Results, CheckStopped
    <3>2. QED
      BY <2>1, <3>1, TypedIs DEF RunAt, CheckStopped, Results
  <2>2. CASE ~(t \notin again /\ CheckStopped) /\ outcome = "completed"
    <3>1. RunAt(t, "applying", (IF t \in again THEN t ELSE active), outcome)
      BY <2>2, TypedIs, Goes, CodeTaskAssumption
        DEF HarnessEnds, Places, Goals, Marks, Results, CheckStopped
    <3>2. QED
      BY <2>2, <3>1, CodeTaskAssumption, TypedIs DEF RunAt, CheckStopped, Results
  <2>3. CASE ~(t \notin again /\ CheckStopped) /\ outcome # "completed"
    <3>1. RunAt(t, "settling", (IF t \in again THEN t ELSE active),
                (IF t \in again THEN "paused" ELSE outcome))
      BY <2>3, TypedIs, Goes, CodeTaskAssumption
        DEF HarnessEnds, Places, Goals, Marks, Results, CheckStopped
    <3>2. QED
      BY <2>3, <3>1, CodeTaskAssumption, TypedIs DEF RunAt, CheckStopped, Results
  <2>4. QED
    BY <2>1, <2>2, <2>3 DEF HarnessEnds
<1>3. (Orderly' => Orderly) /\ (InTime' => InTime) /\ (Housed' => Housed)
  BY <1>1, UpsetsGrow
<1>4. TypeOK'
  BY <1>1, <1>2, <1>3 DEF TypeOK, At, Positions, Goals, Marks, Writes, Words, Trees
<1>5. Worktrees'
  BY <1>1, <1>2, <1>3 DEF Worktrees, At
<1>6. Swept'
  BY <1>1, <1>2, <1>3 DEF Swept
<1>7. Stops'
  BY <1>1, <1>2, <1>3 DEF Stops, Stopping, At
<1>8. Runs'
  BY <1>1, <1>2, <1>3 DEF Runs, Going, At
<1>9. Alone'
  BY <1>1, <1>2, <1>3 DEF Alone, Going, Stopping, At
<1>10. Safe'
  <2> SUFFICES ASSUME Orderly', NEW v \in Tasks
               PROVE  SafeOf(v)'
    BY DEF Safe
  <2>1. Orderly /\ SafeOf(v)
    BY <1>1, <1>2, <1>3 DEF Safe
  <2>2. QED
    BY <2>1, <1>1, <1>2, <1>3 DEF SafeOf, At
<1>11. Unstopped'
  BY <1>1, <1>2, <1>3 DEF Unstopped, At, Alone, Going
<1>12. Told'
  <2> SUFFICES ASSUME Orderly', Housed', NEW v \in Tasks
               PROVE  ToldOf(v)'
    BY DEF Told
  <2>1. Orderly /\ Housed /\ ToldOf(v)
    BY <1>1, <1>2, <1>3 DEF Told
  <2>2. active = t
    BY <2>1, <1>1, <1>2, <1>3 DEF Alone, Going, At
  <2>3. CASE v # t
    BY <2>1, <2>2, <2>3, <1>1, <1>2, <1>3 DEF ToldOf, Settled, At
  <2>4. CASE v = t
    BY <2>1, <2>2, <2>4, <1>1, <1>2, <1>3 DEF ToldOf, Settled, At
  <2>5. QED
    BY <2>3, <2>4
<1>13. QED
  BY <1>4, <1>5, <1>6, <1>7, <1>8, <1>9, <1>10, <1>11, <1>12

\* It throws, and nobody settles the task.
LEMMA HarnessThrowsAway ==
  ASSUME CodeTaskInv, NEW t \in Tasks, HarnessThrows(t),
         t \in again \/ active = NoTask \/ active \in stopped
  PROVE  CodeTaskInv'
<1> USE DEF CodeTaskInv
<1>1. /\ At(Run(t)) \in {"running", "aborted"}
      /\ key' \in [Tasks -> Goals] /\ key'[t] = NoTask
      /\ \A u \in Tasks : key'[u] \in {NoTask, key[u]}
      /\ doc' = doc /\ queue' = queue /\ tree' = tree /\ active' = active /\ held' = held
      /\ again' = again /\ stopped' = stopped /\ asked' = asked /\ integrates' = integrates
      /\ sweep' = sweep /\ up' = up /\ starts' = starts /\ upset' = upset /\ left' = left
      /\ planned' = planned /\ lost' = lost
  <2>1. key \in [Tasks -> Goals]
    BY DEF TypeOK, Goals
  <2>2. QED
    BY <2>1 DEF HarnessThrows, Forget, CheckStopped, Goals, past
<1>2. RunAt(t, "over", NoTask, "none")
  BY TypedIs, Goes DEF HarnessThrows, Places, CheckStopped
<1>3. (Orderly' => Orderly) /\ (InTime' => InTime) /\ (Housed' => Housed)
  BY <1>1, UpsetsGrow
<1>4. TypeOK'
  BY <1>1, <1>2, <1>3 DEF TypeOK, At, Positions, Goals, Marks, Writes, Words, Trees, RunAt
<1>5. Worktrees'
  BY <1>1, <1>2, <1>3 DEF Worktrees, At, RunAt
<1>6. Swept'
  BY <1>1, <1>2, <1>3 DEF Swept
<1>7. Stops'
  BY <1>1, <1>2, <1>3 DEF Stops, Stopping, At, RunAt
<1>8. Runs'
  BY <1>1, <1>2, <1>3 DEF Runs, Going, At, RunAt
<1>9. Alone'
  BY <1>1, <1>2, <1>3 DEF Alone, Going, Stopping, At, RunAt
<1>10. Safe'
  <2> SUFFICES ASSUME Orderly', NEW v \in Tasks
               PROVE  SafeOf(v)'
    BY DEF Safe
  <2>1. Orderly /\ SafeOf(v)
    BY <1>1, <1>2, <1>3 DEF Safe
  <2>2. QED
    BY <2>1, <1>1, <1>2, <1>3 DEF SafeOf, At, RunAt
<1>11. Unstopped'
  BY <1>1, <1>2, <1>3 DEF Unstopped, At, RunAt, Alone, Going
<1>12. Told'
  <2> SUFFICES ASSUME Orderly', Housed', NEW v \in Tasks
               PROVE  ToldOf(v)'
    BY DEF Told
  <2>1. Orderly /\ Housed /\ ToldOf(v)
    BY <1>1, <1>2, <1>3 DEF Told
  <2>2. active = t /\ t \in stopped
    BY <2>1, <1>1, <1>2, <1>3 DEF Alone, Going, At, RunAt
  <2>3. CASE v # t
    BY <2>1, <2>2, <2>3, <1>1, <1>2, <1>3 DEF ToldOf, Settled, At, RunAt
  <2>4. CASE v = t
    BY <2>1, <2>2, <2>4, <1>1, <1>2, <1>3 DEF ToldOf, Settled, At, RunAt
  <2>5. QED
    BY <2>3, <2>4
<1>13. QED
  BY <1>4, <1>5, <1>6, <1>7, <1>8, <1>9, <1>10, <1>11, <1>12

\* It throws, and the active task is settled as failed.
LEMMA HarnessThrowsKeeps ==
  ASSUME CodeTaskInv, NEW t \in Tasks, HarnessThrows(t),
         t \notin again, active # NoTask, active \notin stopped
  PROVE  CodeTaskInv'
<1> USE DEF CodeTaskInv
<1>1. /\ At(Run(t)) \in {"running", "aborted"}
      /\ key' \in [Tasks -> Goals] /\ key'[t] = NoTask
      /\ \A u \in Tasks : key'[u] \in {NoTask, key[u]}
      /\ active \in Tasks
      /\ doc' = doc /\ tree' = tree /\ active' = active /\ held' = held /\ again' = again
      /\ stopped' = stopped /\ asked' = asked /\ integrates' = integrates /\ sweep' = sweep
      /\ up' = up /\ starts' = starts /\ upset' = upset /\ left' = left
      /\ planned' = planned /\ lost' = lost
  <2>1. key \in [Tasks -> Goals] /\ active \in Tasks
    BY TypedIs DEF TypeOK, Goals
  <2>2. QED
    BY <2>1 DEF HarnessThrows, Forget, Goals, CheckStopped, Post, past
<1>2. RunAt(t, "tidying", active, "none")
  BY TypedIs, Goes, TypedIs DEF HarnessThrows, Places, CheckStopped, Goals, Marks
<1>3. /\ queue' \in Seq(Writes)
      /\ \A v \in Tasks : Says(queue', v, Open) <=> Says(queue, v, Open)
      /\ \A v \in Tasks : Says(queue', v, Over) <=> Says(queue, v, Over) \/ v = active
      /\ \A v \in Tasks : Says(queue', v, Final) <=> Says(queue, v, Final) \/ v = active
      /\ \A v \in Tasks : Says(queue', v, Completed) <=> Says(queue, v, Completed)
      /\ \A v \in Tasks : Says(queue', v, Flush) <=> Says(queue, v, Flush)
      /\ \A v \in Tasks : Says(queue', v, Words) <=> Says(queue, v, Words) \/ v = active
      /\ \A v \in Tasks : Follows(queue, v) => Follows(queue', v)
      /\ Follows(queue', active)
      /\ \A v \in Tasks : NoReturn(queue, v) => NoReturn(queue', v)
      /\ \A v \in Tasks : Once(queue, v) => Once(queue', v)
  <2>1. queue \in Seq(Writes) /\ active \in Tasks
    BY TypedIs, <1>1
  <2>2. /\ "failed" \notin Open /\ "failed" \in Over /\ "failed" \in Final
        /\ "failed" \notin Completed /\ "failed" \notin Flush /\ "failed" \in Words
        /\ "failed" # "flush"
    BY DEF Open, Over, Final, Results, Completed, Flush, Words, Statuses, Terminal
  <2>3. queue' = Append(queue, <<active, "failed">>)
    BY <1>1 DEF HarnessThrows, CheckStopped, Post
  <2>4. QED
    BY <2>1, <2>2, <2>3, SaysMore, FollowsMore, NoReturnMore
<1>4. (Orderly' => Orderly) /\ (InTime' => InTime) /\ (Housed' => Housed)
  BY <1>1, UpsetsGrow
<1>5. TypeOK'
  BY <1>1, <1>2, <1>3, <1>4 DEF TypeOK, At, Positions, Goals, Marks, Writes, Words, Trees,
                                RunAt
<1>6. Worktrees'
  BY <1>1, <1>2, <1>3, <1>4 DEF Worktrees, At, RunAt
<1>7. Swept'
  BY <1>1, <1>2, <1>3, <1>4 DEF Swept
<1>8. Stops'
  BY <1>1, <1>2, <1>3, <1>4 DEF Stops, Stopping, At, RunAt
<1>9. Runs'
  BY <1>1, <1>2, <1>3, <1>4 DEF Runs, Going, At, RunAt
<1>10. Alone'
  BY <1>1, <1>2, <1>3, <1>4 DEF Alone, Going, Stopping, At, RunAt
<1>11. Safe'
  <2> SUFFICES ASSUME Orderly', NEW v \in Tasks
               PROVE  SafeOf(v)'
    BY DEF Safe
  <2>1. Orderly /\ SafeOf(v)
    BY <1>1, <1>2, <1>3, <1>4 DEF Safe
  <2>2. QED
    BY <2>1, <1>1, <1>2, <1>3, <1>4 DEF SafeOf, At, RunAt
<1>12. Unstopped'
  BY <1>1, <1>2, <1>3, <1>4 DEF Unstopped, At, RunAt
<1>13. Told'
  <2> SUFFICES ASSUME Orderly', Housed', NEW v \in Tasks
               PROVE  ToldOf(v)'
    BY DEF Told
  <2>1. Orderly /\ Housed /\ ToldOf(v)
    BY <1>1, <1>2, <1>3, <1>4 DEF Told
  <2>2. active = t
    BY <2>1, <1>1, <1>2, <1>3, <1>4 DEF Alone, Going, At, RunAt
  <2>3. CASE v # t
    BY <2>1, <2>2, <2>3, <1>1, <1>2, <1>3, <1>4 DEF ToldOf, Settled, At, RunAt
  <2>4. CASE v = t
    BY <2>1, <2>2, <2>4, <1>1, <1>2, <1>3, <1>4 DEF ToldOf, Settled, At, RunAt
  <2>5. QED
    BY <2>3, <2>4
<1>14. QED
  BY <1>5, <1>6, <1>7, <1>8, <1>9, <1>10, <1>11, <1>12, <1>13

\* There is nothing isolated: the task needs no worktree.
LEMMA MergeNothing ==
  ASSUME CodeTaskInv, NEW t \in Tasks, Merge(t), NothingToApply(pc[Run(t)].goal),
         Moves(Run(t), "settling")
  PROVE  CodeTaskInv'
<1> USE DEF CodeTaskInv
<1>1. /\ At(Run(t)) = "applying" /\ pc[Run(t)].goal \notin held
      /\ doc' = doc /\ queue' = queue /\ tree' = tree /\ active' = active /\ held' = held
      /\ again' = again /\ key' = key /\ stopped' = stopped /\ asked' = asked
      /\ integrates' = integrates /\ sweep' = sweep /\ up' = up /\ starts' = starts
      /\ upset' = upset /\ left' = left /\ planned' = planned /\ lost' = lost
  BY DEF Merge, NothingToApply, past
<1>2. RunAt(t, "settling", pc[Run(t)].goal, pc[Run(t)].as)
  BY TypedIs, Goes DEF Merge, Places
<1>3. (Orderly' => Orderly) /\ (InTime' => InTime) /\ (Housed' => Housed)
  BY <1>1, UpsetsGrow
<1>4. TypeOK'
  BY <1>1, <1>2, <1>3 DEF TypeOK, At, Positions, Goals, Marks, Writes, Words, Trees, RunAt
<1>5. Worktrees'
  BY <1>1, <1>2, <1>3 DEF Worktrees, At, RunAt
<1>6. Swept'
  BY <1>1, <1>2, <1>3 DEF Swept
<1>7. Stops'
  BY <1>1, <1>2, <1>3 DEF Stops, Stopping, At, RunAt
<1>8. Runs'
  BY <1>1, <1>2, <1>3 DEF Runs, Going, At, RunAt
<1>9. Alone'
  BY <1>1, <1>2, <1>3 DEF Alone, Going, Stopping, At, RunAt
<1>10. Safe'
  <2> SUFFICES ASSUME Orderly', NEW v \in Tasks
               PROVE  SafeOf(v)'
    BY DEF Safe
  <2>1. Orderly /\ SafeOf(v)
    BY <1>1, <1>2, <1>3 DEF Safe
  <2>2. QED
    BY <2>1, <1>1, <1>2, <1>3 DEF SafeOf, At, RunAt, Alone, Worktrees
<1>11. Unstopped'
  BY <1>1, <1>2, <1>3 DEF Unstopped, At, RunAt
<1>12. Told'
  <2> SUFFICES ASSUME Orderly', Housed', NEW v \in Tasks
               PROVE  ToldOf(v)'
    BY DEF Told
  <2>1. Orderly /\ Housed /\ ToldOf(v)
    BY <1>1, <1>2, <1>3 DEF Told
  <2>2. CASE v # t
    BY <2>1, <2>2, <1>1, <1>2, <1>3 DEF ToldOf, Settled, At, RunAt
  <2>3. CASE v = t
    BY <2>1, <2>3, <1>1, <1>2, <1>3 DEF ToldOf, Settled, At, RunAt
  <2>4. QED
    BY <2>2, <2>3
<1>13. QED
  BY <1>4, <1>5, <1>6, <1>7, <1>8, <1>9, <1>10, <1>11, <1>12

\* The diff reaches the project.
LEMMA MergeApplies ==
  ASSUME CodeTaskInv, NEW t \in Tasks, Merge(t), Apply(pc[Run(t)].goal),
         Moves(Run(t), "removing")
  PROVE  CodeTaskInv'
<1> USE DEF CodeTaskInv
<1>1. /\ At(Run(t)) = "applying" /\ pc[Run(t)].goal \in held
      /\ tree'[pc[Run(t)].goal] # "dirty"
      /\ tree' \in [Tasks -> Trees] /\ \A u \in Tasks : tree'[u] = "none" <=> tree[u] = "none"
      /\ \A u \in Tasks : tree'[u] = "dirty" => tree[u] = "dirty"
      /\ doc' = doc /\ queue' = queue /\ active' = active /\ held' = held /\ again' = again
      /\ key' = key /\ stopped' = stopped /\ asked' = asked /\ integrates' = integrates
      /\ sweep' = sweep /\ up' = up /\ starts' = starts /\ upset' = upset /\ left' = left
      /\ planned' = planned /\ lost' = lost
  BY TypedIs DEF Merge, Apply, Trees, past
<1>2. RunAt(t, "removing", pc[Run(t)].goal, pc[Run(t)].as)
  BY TypedIs, Goes DEF Merge, Places
<1>3. (Orderly' => Orderly) /\ (InTime' => InTime) /\ (Housed' => Housed)
  BY <1>1, UpsetsGrow
<1>4. TypeOK'
  BY <1>1, <1>2, <1>3 DEF TypeOK, At, Positions, Goals, Marks, Writes, Words, Trees, RunAt
<1>5. Worktrees'
  BY <1>1, <1>2, <1>3 DEF Worktrees, At, RunAt
<1>6. Swept'
  BY <1>1, <1>2, <1>3, TypedIs DEF Swept
<1>7. Stops'
  BY <1>1, <1>2, <1>3 DEF Stops, Stopping, At, RunAt
<1>8. Runs'
  BY <1>1, <1>2, <1>3 DEF Runs, Going, At, RunAt
<1>9. Alone'
  BY <1>1, <1>2, <1>3 DEF Alone, Going, Stopping, At, RunAt
<1>10. Safe'
  <2> SUFFICES ASSUME Orderly', NEW v \in Tasks
               PROVE  SafeOf(v)'
    BY DEF Safe
  <2>1. Orderly /\ SafeOf(v)
    BY <1>1, <1>2, <1>3 DEF Safe
  <2>2. QED
    BY <2>1, <1>1, <1>2, <1>3 DEF SafeOf, At, RunAt, Alone
<1>11. Unstopped'
  BY <1>1, <1>2, <1>3 DEF Unstopped, At, RunAt
<1>12. Told'
  <2> SUFFICES ASSUME Orderly', Housed', NEW v \in Tasks
               PROVE  ToldOf(v)'
    BY DEF Told
  <2>1. Orderly /\ Housed /\ ToldOf(v)
    BY <1>1, <1>2, <1>3 DEF Told
  <2>2. CASE v # t
    BY <2>1, <2>2, <1>1, <1>2, <1>3 DEF ToldOf, Settled, At, RunAt
  <2>3. CASE v = t
    BY <2>1, <2>3, <1>1, <1>2, <1>3 DEF ToldOf, Settled, At, RunAt
  <2>4. QED
    BY <2>2, <2>3
<1>13. QED
  BY <1>4, <1>5, <1>6, <1>7, <1>8, <1>9, <1>10, <1>11, <1>12

\* It is refused: the task waits, and keeps its worktree.
LEMMA MergeRefuses ==
  ASSUME CodeTaskInv, NEW t \in Tasks, Merge(t), NotApplied(pc[Run(t)].goal),
         GotoFor(Run(t), "settling", pc[Run(t)].goal, Held(t))
  PROVE  CodeTaskInv'
<1> USE DEF CodeTaskInv
<1>1. /\ At(Run(t)) = "applying" /\ pc[Run(t)].goal \in Tasks
      /\ doc' = doc /\ tree' = tree /\ active' = active /\ held' = held /\ again' = again
      /\ key' = key /\ stopped' = stopped /\ asked' = asked /\ integrates' = integrates
      /\ sweep' = sweep /\ up' = up /\ starts' = starts /\ upset' = upset /\ left' = left
      /\ planned' = planned /\ lost' = lost
  <2>1. pc[Run(t)].goal \in Tasks
    BY TypedIs DEF NotApplied
  <2>2. QED
    BY <2>1 DEF Merge, NotApplied, Post, past
<1>2. RunAt(t, "settling", pc[Run(t)].goal, Held(t))
  BY TypedIs, Goes, <1>1 DEF Merge, Places, Held, Marks
<1>3. /\ queue' \in Seq(Writes)
      /\ \A v \in Tasks : Says(queue', v, Open) <=> Says(queue, v, Open)
      /\ \A v \in Tasks : Says(queue', v, Over) <=> Says(queue, v, Over)
      /\ \A v \in Tasks : Says(queue', v, Final) <=> Says(queue, v, Final) \/ v = pc[Run(t)].goal
      /\ \A v \in Tasks : Says(queue', v, Completed) <=> Says(queue, v, Completed)
      /\ \A v \in Tasks : Says(queue', v, Flush) <=> Says(queue, v, Flush)
      /\ \A v \in Tasks : Says(queue', v, Words) <=> Says(queue, v, Words) \/ v = pc[Run(t)].goal
      /\ \A v \in Tasks : Follows(queue, v) => Follows(queue', v)
      /\ Follows(queue', pc[Run(t)].goal)
      /\ \A v \in Tasks : NoReturn(queue, v) => NoReturn(queue', v)
      /\ \A v \in Tasks : Once(queue, v) => Once(queue', v)
  <2>1. queue \in Seq(Writes) /\ pc[Run(t)].goal \in Tasks
    BY TypedIs, <1>1
  <2>2. /\ "paused" \notin Open /\ "paused" \notin Over /\ "paused" \in Final
        /\ "paused" \notin Completed /\ "paused" \notin Flush /\ "paused" \in Words
        /\ "paused" # "flush"
    BY DEF Open, Over, Final, Results, Completed, Flush, Words, Statuses, Terminal
  <2>3. queue' = Append(queue, <<pc[Run(t)].goal, "paused">>)
    BY <1>1 DEF NotApplied, Post
  <2>4. QED
    BY <2>1, <2>2, <2>3, SaysMore, FollowsMore, NoReturnMore
<1>4. (Orderly' => Orderly) /\ (InTime' => InTime) /\ (Housed' => Housed)
  BY <1>1, UpsetsGrow
<1>5. TypeOK'
  BY <1>1, <1>2, <1>3, <1>4 DEF TypeOK, At, Positions, Goals, Marks, Writes, Words, Trees,
                                RunAt
<1>6. Worktrees'
  BY <1>1, <1>2, <1>3, <1>4 DEF Worktrees, At, RunAt
<1>7. Swept'
  BY <1>1, <1>2, <1>3, <1>4 DEF Swept
<1>8. Stops'
  BY <1>1, <1>2, <1>3, <1>4 DEF Stops, Stopping, At, RunAt
<1>9. Runs'
  BY <1>1, <1>2, <1>3, <1>4 DEF Runs, Going, At, RunAt, Held
<1>10. Alone'
  BY <1>1, <1>2, <1>3, <1>4 DEF Alone, Going, Stopping, At, RunAt
<1>11. Safe'
  <2> SUFFICES ASSUME Orderly', NEW v \in Tasks
               PROVE  SafeOf(v)'
    BY DEF Safe
  <2>1. Orderly /\ SafeOf(v)
    BY <1>1, <1>2, <1>3, <1>4 DEF Safe
  <2>2. QED
    BY <2>1, <1>1, <1>2, <1>3, <1>4 DEF SafeOf, At, RunAt, Alone, Held
<1>12. Unstopped'
  BY <1>1, <1>2, <1>3, <1>4 DEF Unstopped, At, RunAt
<1>13. Told'
  <2> SUFFICES ASSUME Orderly', Housed', NEW v \in Tasks
               PROVE  ToldOf(v)'
    BY DEF Told
  <2>1. Orderly /\ Housed /\ ToldOf(v)
    BY <1>1, <1>2, <1>3, <1>4 DEF Told
  <2>2. pc[Run(t)].goal = t
    BY <2>1, <1>1, <1>2, <1>3, <1>4 DEF Alone, Going, At, RunAt
  <2>3. CASE v # t
    BY <2>1, <2>2, <2>3, <1>1, <1>2, <1>3, <1>4 DEF ToldOf, Settled, At, RunAt
  <2>4. CASE v = t
    BY <2>1, <2>2, <2>4, <1>1, <1>2, <1>3, <1>4 DEF ToldOf, Settled, At, RunAt
  <2>5. QED
    BY <2>3, <2>4
<1>14. QED
  BY <1>5, <1>6, <1>7, <1>8, <1>9, <1>10, <1>11, <1>12, <1>13

\* No task is active any more: nothing is written.
LEMMA SettleNobody ==
  ASSUME CodeTaskInv, NEW t \in Tasks, Settle(t), t \notin again, active = NoTask
  PROVE  CodeTaskInv'
<1> USE DEF CodeTaskInv
<1>1. /\ At(Run(t)) = "settling" /\ ~Orderly
      /\ doc' = doc /\ queue' = queue /\ tree' = tree /\ active' = active /\ held' = held
      /\ again' = again /\ key' = key /\ stopped' = stopped /\ asked' = asked
      /\ integrates' = integrates /\ sweep' = sweep /\ up' = up /\ starts' = starts
      /\ upset' = upset /\ left' = left /\ planned' = planned /\ lost' = lost
  BY DEF Settle, Post, Alone, Going, past
<1>2. RunAt(t, "over", NoTask, "none")
  BY TypedIs, Goes DEF Settle, Places
<1>3. (Orderly' => Orderly) /\ (InTime' => InTime) /\ (Housed' => Housed)
  BY <1>1, UpsetsGrow
<1>4. TypeOK'
  BY <1>1, <1>2, <1>3 DEF TypeOK, At, Positions, Goals, Marks, Writes, Words, Trees, RunAt
<1>5. Worktrees'
  BY <1>1, <1>2, <1>3 DEF Worktrees, At, RunAt
<1>6. Swept'
  BY <1>1, <1>2, <1>3 DEF Swept
<1>7. Stops'
  BY <1>1, <1>2, <1>3 DEF Stops, Stopping, At, RunAt
<1>8. Runs'
  BY <1>1, <1>2, <1>3 DEF Runs, Going, At, RunAt
<1>9. Alone'
  BY <1>1, <1>3 DEF Alone
<1>10. Safe'
  BY <1>1, <1>3 DEF Safe
<1>11. Unstopped'
  BY <1>1, <1>3 DEF Unstopped
<1>12. Told'
  BY <1>1, <1>3 DEF Told
<1>13. QED
  BY <1>4, <1>5, <1>6, <1>7, <1>8, <1>9, <1>10, <1>11, <1>12

\* The record of how the run ended.
LEMMA SettleKeeps ==
  ASSUME CodeTaskInv, NEW t \in Tasks, Settle(t), NEW x \in Tasks, NEW r,
         x = IF t \in again THEN t ELSE active,
         r = IF pc[Run(t)].as = "held" THEN "paused" ELSE pc[Run(t)].as
  PROVE  CodeTaskInv'
<1> USE DEF CodeTaskInv
<1>1. /\ At(Run(t)) = "settling" /\ r \in Final /\ x \in Goals
      /\ t \notin again => x = active
      /\ doc' = doc /\ tree' = tree /\ active' = active /\ held' = held /\ again' = again
      /\ key' = key /\ stopped' = stopped /\ asked' = asked /\ integrates' = integrates
      /\ sweep' = sweep /\ up' = up /\ starts' = starts /\ upset' = upset /\ left' = left
      /\ planned' = planned /\ lost' = lost
  <2>1. x # NoTask /\ pc[Run(t)].as \in Results \cup {"held"}
    BY DEF Settle, Runs
  <2>2. r \in Final
    BY <2>1 DEF Final, Results
  <2>3. QED
    BY <2>1, <2>2 DEF Settle, Post, Goals, past
<1>2. /\ pc' \in [Agents -> Positions]
      /\ pc'[Run(t)].at \in {"over", "tidying"}
      /\ pc'[Run(t)].at = "tidying" => pc'[Run(t)].goal = x /\ r # "completed"
      /\ \A u \in Tasks \ {t} : pc'[Run(u)] = pc[Run(u)]
      /\ \A u \in Tasks : pc'[Stop(u)] = pc[Stop(u)]
  <2>1. CASE pc[Run(t)].as \in {"completed", "held"} \/ t \in again \/ active = NoTask
    <3>1. RunAt(t, "over", NoTask, "none")
      BY <2>1, TypedIs, Goes DEF Settle, Places, Goals, Marks
    <3>2. QED
      BY <2>1, <3>1 DEF RunAt, Completed
  <2>2. CASE ~(pc[Run(t)].as \in {"completed", "held"} \/ t \in again \/ active = NoTask)
    <3>1. RunAt(t, "tidying", x, "none")
      BY <2>2, TypedIs, Goes, <1>1 DEF Settle, Places, Goals, Marks
    <3>2. QED
      BY <2>2, <3>1, <1>1 DEF RunAt, Completed
  <2>3. QED
    BY <2>1, <2>2 DEF Settle
<1>3. /\ queue' \in Seq(Writes)
      /\ \A v \in Tasks : Says(queue', v, Open) <=> Says(queue, v, Open)
      /\ \A v \in Tasks :
           Says(queue', v, Over) <=> Says(queue, v, Over) \/ (v = x /\ r \in Over)
      /\ \A v \in Tasks : Says(queue', v, Final) <=> Says(queue, v, Final) \/ v = x
      /\ \A v \in Tasks :
           Says(queue', v, Completed) <=> Says(queue, v, Completed) \/ (v = x /\ r \in Completed)
      /\ \A v \in Tasks : Says(queue', v, Flush) <=> Says(queue, v, Flush)
      /\ \A v \in Tasks : Says(queue', v, Words) <=> Says(queue, v, Words) \/ v = x
      /\ \A v \in Tasks : Follows(queue, v) => Follows(queue', v)
      /\ Follows(queue', x)
      /\ \A v \in Tasks : NoReturn(queue, v) => NoReturn(queue', v)
      /\ \A v \in Tasks : Once(queue, v) => Once(queue', v)
  <2>1. queue \in Seq(Writes) /\ x \in Tasks
    BY TypedIs, <1>1
  <2>2. /\ r \in Final /\ r \in Words /\ r \notin Open /\ r \notin Flush
        /\ r # "flush"
    BY <1>1 DEF Open, Over, Final, Results, Completed, Flush, Words, Statuses, Terminal
  <2>3. queue' = Append(queue, <<x, r>>)
    BY DEF Settle, Post
  <2>4. QED
    BY <2>1, <2>2, <2>3, SaysMore, FollowsMore, NoReturnMore
<1>4. (Orderly' => Orderly) /\ (InTime' => InTime) /\ (Housed' => Housed)
  BY <1>1, UpsetsGrow
<1>5. TypeOK'
  BY <1>1, <1>2, <1>3, <1>4 DEF TypeOK, At, Positions, Goals, Marks, Writes, Words, Trees
<1>6. Worktrees'
  BY <1>1, <1>2, <1>3, <1>4 DEF Worktrees, At
<1>7. Swept'
  BY <1>1, <1>2, <1>3, <1>4 DEF Swept
<1>8. Stops'
  BY <1>1, <1>2, <1>3, <1>4 DEF Stops, Stopping, At
<1>9. Runs'
  BY <1>1, <1>2, <1>3, <1>4 DEF Runs, Going, At
<1>10. Alone'
  BY <1>1, <1>2, <1>3, <1>4 DEF Alone, Going, Stopping, At
<1>11. Safe'
  <2> SUFFICES ASSUME Orderly', NEW v \in Tasks
               PROVE  SafeOf(v)'
    BY DEF Safe
  <2>1. Orderly /\ SafeOf(v)
    BY <1>1, <1>2, <1>3, <1>4 DEF Safe
  <2>2. QED
    BY <2>1, <1>1, <1>2, <1>3, <1>4 DEF SafeOf, At, Alone, Going, Completed
<1>12. Unstopped'
  BY <1>1, <1>2, <1>3, <1>4 DEF Unstopped, At
<1>13. Told'
  <2> SUFFICES ASSUME Orderly', Housed', NEW v \in Tasks
               PROVE  ToldOf(v)'
    BY DEF Told
  <2>1. Orderly /\ Housed /\ ToldOf(v)
    BY <1>1, <1>2, <1>3, <1>4 DEF Told
  <2>2. x = t
    BY <2>1, <1>1, <1>2, <1>3, <1>4 DEF Alone, Going, At
  <2>3. CASE v # t
    BY <2>1, <2>2, <2>3, <1>1, <1>2, <1>3, <1>4 DEF ToldOf, Settled, At
  <2>4. CASE v = t
    BY <2>1, <2>2, <2>4, <1>1, <1>2, <1>3, <1>4 DEF ToldOf, Settled, At
  <2>5. QED
    BY <2>3, <2>4
<1>14. QED
  BY <1>5, <1>6, <1>7, <1>8, <1>9, <1>10, <1>11, <1>12, <1>13

\* The run looks at the diff of the worktree.
LEMMA RunTidyLooks ==
  ASSUME CodeTaskInv, NEW t \in Tasks, TidyLooks(Run(t))
  PROVE  CodeTaskInv'
<1> USE DEF CodeTaskInv
<1>1. /\ At(Run(t)) = "tidying"
      /\ doc' = doc /\ queue' = queue /\ tree' = tree /\ active' = active /\ held' = held
      /\ again' = again /\ key' = key /\ stopped' = stopped /\ asked' = asked
      /\ integrates' = integrates /\ sweep' = sweep /\ up' = up /\ starts' = starts
      /\ upset' = upset /\ left' = left /\ planned' = planned /\ lost' = lost
  BY DEF TidyLooks, past
<1>2. /\ pc' \in [Agents -> Positions]
      /\ pc'[Run(t)].at \in {"discarding", "over"}
      /\ pc'[Run(t)].at = "discarding" =>
           pc'[Run(t)].goal = pc[Run(t)].goal /\ pc'[Run(t)].goal \in held
                                           /\ tree[pc'[Run(t)].goal] # "dirty"
      /\ \A u \in Tasks \ {t} : pc'[Run(u)] = pc[Run(u)]
      /\ \A u \in Tasks : pc'[Stop(u)] = pc[Stop(u)]
  <2>1. CASE /\ pc[Run(t)].goal \in held
             /\ tree[pc[Run(t)].goal] # "none" /\ ~HasChanges(pc[Run(t)].goal)
    <3>1. RunAt(t, "discarding", pc[Run(t)].goal, pc[Run(t)].as)
      BY <2>1, TypedIs, Goes DEF TidyLooks, Places, End, Run
    <3>2. QED
      BY <2>1, <3>1 DEF RunAt, HasChanges
  <2>2. CASE ~(/\ pc[Run(t)].goal \in held
               /\ tree[pc[Run(t)].goal] # "none" /\ ~HasChanges(pc[Run(t)].goal))
    <3>1. RunAt(t, "over", NoTask, "none")
      BY <2>2, TypedIs, Goes DEF TidyLooks, Places, End, Run
    <3>2. QED
      BY <2>2, <3>1 DEF RunAt, HasChanges
  <2>3. QED
    BY <2>1, <2>2 DEF TidyLooks
<1>3. (Orderly' => Orderly) /\ (InTime' => InTime) /\ (Housed' => Housed)
  BY <1>1, UpsetsGrow
<1>4. TypeOK'
  BY <1>1, <1>2, <1>3 DEF TypeOK, At, Positions, Goals, Marks, Writes, Words, Trees
<1>5. Worktrees'
  BY <1>1, <1>2, <1>3 DEF Worktrees, At
<1>6. Swept'
  BY <1>1, <1>2, <1>3 DEF Swept
<1>7. Stops'
  BY <1>1, <1>2, <1>3 DEF Stops, Stopping, At
<1>8. Runs'
  BY <1>1, <1>2, <1>3 DEF Runs, Going, At
<1>9. Alone'
  BY <1>1, <1>2, <1>3 DEF Alone, Going, Stopping, At
<1>10. Safe'
  <2> SUFFICES ASSUME Orderly', NEW v \in Tasks
               PROVE  SafeOf(v)'
    BY DEF Safe
  <2>1. Orderly /\ SafeOf(v)
    BY <1>1, <1>2, <1>3 DEF Safe
  <2>2. QED
    BY <2>1, <1>1, <1>2, <1>3 DEF SafeOf, At, Alone
<1>11. Unstopped'
  BY <1>1, <1>2, <1>3 DEF Unstopped, At
<1>12. Told'
  <2> SUFFICES ASSUME Orderly', Housed', NEW v \in Tasks
               PROVE  ToldOf(v)'
    BY DEF Told
  <2>1. Orderly /\ Housed /\ ToldOf(v)
    BY <1>1, <1>2, <1>3 DEF Told
  <2>2. CASE v # t
    BY <2>1, <2>2, <1>1, <1>2, <1>3 DEF ToldOf, Settled, At
  <2>3. CASE v = t
    BY <2>1, <2>3, <1>1, <1>2, <1>3 DEF ToldOf, Settled, At, Stopping
  <2>4. QED
    BY <2>2, <2>3
<1>13. QED
  BY <1>4, <1>5, <1>6, <1>7, <1>8, <1>9, <1>10, <1>11, <1>12

\* The stop looks at the diff of the worktree.
LEMMA StopTidyLooks ==
  ASSUME CodeTaskInv, NEW t \in Tasks, TidyLooks(Stop(t))
  PROVE  CodeTaskInv'
<1> USE DEF CodeTaskInv
<1>1. /\ At(Stop(t)) = "tidying"
      /\ doc' = doc /\ queue' = queue /\ tree' = tree /\ active' = active /\ held' = held
      /\ again' = again /\ key' = key /\ stopped' = stopped /\ asked' = asked
      /\ integrates' = integrates /\ sweep' = sweep /\ up' = up /\ starts' = starts
      /\ upset' = upset /\ left' = left /\ planned' = planned /\ lost' = lost
  BY DEF TidyLooks, past
<1>2. /\ pc' \in [Agents -> Positions]
      /\ pc'[Stop(t)].at \in {"discarding", "done"}
      /\ pc'[Stop(t)].at = "discarding" =>
           pc'[Stop(t)].goal = pc[Stop(t)].goal /\ pc'[Stop(t)].goal \in held
                                           /\ tree[pc'[Stop(t)].goal] # "dirty"
      /\ \A u \in Tasks \ {t} : pc'[Stop(u)] = pc[Stop(u)]
      /\ \A u \in Tasks : pc'[Run(u)] = pc[Run(u)]
  <2>1. CASE /\ pc[Stop(t)].goal \in held
             /\ tree[pc[Stop(t)].goal] # "none" /\ ~HasChanges(pc[Stop(t)].goal)
    <3>1. StopAt(t, "discarding", pc[Stop(t)].goal, pc[Stop(t)].as)
      BY <2>1, TypedIs, Goes DEF TidyLooks, Places, End, Stop
    <3>2. QED
      BY <2>1, <3>1 DEF StopAt, HasChanges
  <2>2. CASE ~(/\ pc[Stop(t)].goal \in held
               /\ tree[pc[Stop(t)].goal] # "none" /\ ~HasChanges(pc[Stop(t)].goal))
    <3>1. StopAt(t, "done", NoTask, "none")
      BY <2>2, TypedIs, Goes DEF TidyLooks, Places, End, Stop
    <3>2. QED
      BY <2>2, <3>1 DEF StopAt, HasChanges
  <2>3. QED
    BY <2>1, <2>2 DEF TidyLooks
<1>3. (Orderly' => Orderly) /\ (InTime' => InTime) /\ (Housed' => Housed)
  BY <1>1, UpsetsGrow
<1>4. TypeOK'
  BY <1>1, <1>2, <1>3 DEF TypeOK, At, Positions, Goals, Marks, Writes, Words, Trees
<1>5. Worktrees'
  BY <1>1, <1>2, <1>3 DEF Worktrees, At
<1>6. Swept'
  BY <1>1, <1>2, <1>3 DEF Swept
<1>7. Stops'
  BY <1>1, <1>2, <1>3 DEF Stops, Stopping, At
<1>8. Runs'
  BY <1>1, <1>2, <1>3 DEF Runs, Going, At
<1>9. Alone'
  BY <1>1, <1>2, <1>3 DEF Alone, Going, Stopping, At
<1>10. Safe'
  <2> SUFFICES ASSUME Orderly', NEW v \in Tasks
               PROVE  SafeOf(v)'
    BY DEF Safe
  <2>1. Orderly /\ SafeOf(v)
    BY <1>1, <1>2, <1>3 DEF Safe
  <2>2. QED
    BY <2>1, <1>1, <1>2, <1>3 DEF SafeOf, At, Stops
<1>11. Unstopped'
  BY <1>1, <1>2, <1>3 DEF Unstopped, At
<1>12. Told'
  <2> SUFFICES ASSUME Orderly', Housed', NEW v \in Tasks
               PROVE  ToldOf(v)'
    BY DEF Told
  <2>1. Orderly /\ Housed /\ ToldOf(v)
    BY <1>1, <1>2, <1>3 DEF Told
  <2>2. CASE v # t
    BY <2>1, <2>2, <1>1, <1>2, <1>3 DEF ToldOf, Settled, At
  <2>3. CASE v = t
    BY <2>1, <2>3, <1>1, <1>2, <1>3 DEF ToldOf, Settled, At, Stopping
  <2>4. QED
    BY <2>2, <2>3
<1>13. QED
  BY <1>4, <1>5, <1>6, <1>7, <1>8, <1>9, <1>10, <1>11, <1>12

\* The run removes the worktree.
LEMMA RunRemoves ==
  ASSUME CodeTaskInv, NEW t \in Tasks, Removes(Run(t))
  PROVE  CodeTaskInv'
<1> USE DEF CodeTaskInv
<1>1. /\ At(Run(t)) \in {"discarding", "removing"}
      /\ tree' \in [Tasks -> Trees] /\ tree'[pc[Run(t)].goal] = "none"
      /\ \A u \in Tasks : tree'[u] \in {"none", tree[u]}
      /\ pc[Run(t)].goal \in Tasks /\ lost \subseteq lost'
      /\ lost' \subseteq Tasks \X {"task", "sweep"}
      /\ doc' = doc /\ queue' = queue /\ active' = active /\ held' = held /\ again' = again
      /\ key' = key /\ stopped' = stopped /\ asked' = asked /\ integrates' = integrates
      /\ sweep' = sweep /\ up' = up /\ starts' = starts /\ upset' = upset /\ left' = left
      /\ planned' = planned
  <2>1. pc[Run(t)].goal \in Tasks
    BY TypedIs DEF Worktrees, Removes
  <2>2. lost' \subseteq Tasks \X {"task", "sweep"}
    BY <2>1 DEF Removes, RemoveTree, TypeOK
  <2>3. QED
    BY <2>1, <2>2, TypedIs DEF Removes, RemoveTree, Trees
<1>2. /\ pc' \in [Agents -> Positions]
      /\ IF At(Run(t)) = "removing"
         THEN /\ pc'[Run(t)].at = "settling" /\ pc'[Run(t)].goal = pc[Run(t)].goal
              /\ pc'[Run(t)].as = pc[Run(t)].as
         ELSE pc'[Run(t)].at = "over"
      /\ \A u \in Tasks \ {t} : pc'[Run(u)] = pc[Run(u)]
      /\ \A u \in Tasks : pc'[Stop(u)] = pc[Stop(u)]
  <2>1. CASE At(Run(t)) = "removing"
    <3>1. RunAt(t, "settling", pc[Run(t)].goal, pc[Run(t)].as)
      BY <2>1, TypedIs, Goes DEF Removes, Places, End, Run
    <3>2. QED
      BY <2>1, <3>1 DEF RunAt
  <2>2. CASE At(Run(t)) # "removing"
    <3>1. RunAt(t, "over", NoTask, "none")
      BY <2>2, TypedIs, Goes DEF Removes, Places, End, Run
    <3>2. QED
      BY <2>2, <3>1 DEF RunAt
  <2>3. QED
    BY <2>1, <2>2 DEF Removes
<1>3. Orderly => pc[Run(t)].goal = t /\ lost' = lost
  BY <1>1 DEF Removes, RemoveTree, Alone, Stops, Safe, SafeOf, At
<1>4. (Orderly' => Orderly) /\ (InTime' => InTime) /\ (Housed' => Housed)
  BY <1>1, UpsetsGrow
<1>5. TypeOK'
  BY <1>1, <1>2, <1>3, <1>4 DEF TypeOK, At, Positions, Goals, Marks, Writes, Words, Trees
<1>6. Worktrees'
  BY <1>1, <1>2, <1>3, <1>4 DEF Worktrees, At
<1>7. Swept'
  BY <1>1, <1>2, <1>3, <1>4, TypedIs DEF Swept
<1>8. Stops'
  BY <1>1, <1>2, <1>3, <1>4 DEF Stops, Stopping, At
<1>9. Runs'
  BY <1>1, <1>2, <1>3, <1>4 DEF Runs, Going, At
<1>10. Alone'
  BY <1>1, <1>2, <1>3, <1>4 DEF Alone, Going, Stopping, At
<1>11. Safe'
  <2> SUFFICES ASSUME Orderly', NEW v \in Tasks
               PROVE  SafeOf(v)'
    BY DEF Safe
  <2>1. Orderly /\ SafeOf(v)
    BY <1>1, <1>2, <1>3, <1>4 DEF Safe
  <2>2. QED
    BY <2>1, <1>1, <1>2, <1>3, <1>4 DEF SafeOf, At
<1>12. Unstopped'
  BY <1>1, <1>2, <1>3, <1>4 DEF Unstopped, At
<1>13. Told'
  <2> SUFFICES ASSUME Orderly', Housed', NEW v \in Tasks
               PROVE  ToldOf(v)'
    BY DEF Told
  <2>1. Orderly /\ Housed /\ ToldOf(v)
    BY <1>1, <1>2, <1>3, <1>4 DEF Told
  <2>2. CASE v # t
    BY <2>1, <2>2, <1>1, <1>2, <1>3, <1>4 DEF ToldOf, Settled, At
  <2>3. CASE v = t
    BY <2>1, <2>3, <1>1, <1>2, <1>3, <1>4 DEF ToldOf, Settled, At
  <2>4. QED
    BY <2>2, <2>3
<1>14. QED
  BY <1>5, <1>6, <1>7, <1>8, <1>9, <1>10, <1>11, <1>12, <1>13

\* The stop removes it.
LEMMA StopRemoves ==
  ASSUME CodeTaskInv, NEW t \in Tasks, Removes(Stop(t))
  PROVE  CodeTaskInv'
<1> USE DEF CodeTaskInv
<1>1. /\ At(Stop(t)) \in {"discarding", "removing"} /\ pc[Stop(t)].goal = t
      /\ tree' \in [Tasks -> Trees] /\ tree'[pc[Stop(t)].goal] = "none"
      /\ \A u \in Tasks : tree'[u] \in {"none", tree[u]}
      /\ pc[Stop(t)].goal \in Tasks /\ lost \subseteq lost'
      /\ lost' \subseteq Tasks \X {"task", "sweep"}
      /\ doc' = doc /\ queue' = queue /\ active' = active /\ held' = held /\ again' = again
      /\ key' = key /\ stopped' = stopped /\ asked' = asked /\ integrates' = integrates
      /\ sweep' = sweep /\ up' = up /\ starts' = starts /\ upset' = upset /\ left' = left
      /\ planned' = planned
  <2>1. pc[Stop(t)].goal \in Tasks
    BY TypedIs DEF Worktrees, Removes
  <2>2. lost' \subseteq Tasks \X {"task", "sweep"}
    BY <2>1 DEF Removes, RemoveTree, Stops, TypeOK
  <2>3. QED
    BY <2>1, <2>2, TypedIs DEF Removes, RemoveTree, Stops, Trees
<1>2. StopAt(t, "done", NoTask, "none")
  BY TypedIs, Goes DEF Removes, Places, End, Stop
<1>3. Orderly => pc[Stop(t)].goal = t /\ lost' = lost
  BY <1>1 DEF Removes, RemoveTree, Alone, Stops, Safe, SafeOf, At
<1>4. (Orderly' => Orderly) /\ (InTime' => InTime) /\ (Housed' => Housed)
  BY <1>1, UpsetsGrow
<1>5. TypeOK'
  BY <1>1, <1>2, <1>3, <1>4 DEF TypeOK, At, Positions, Goals, Marks, Writes, Words, Trees,
                                StopAt
<1>6. Worktrees'
  BY <1>1, <1>2, <1>3, <1>4 DEF Worktrees, At, StopAt
<1>7. Swept'
  BY <1>1, <1>2, <1>3, <1>4, TypedIs DEF Swept
<1>8. Stops'
  BY <1>1, <1>2, <1>3, <1>4 DEF Stops, Stopping, At, StopAt
<1>9. Runs'
  BY <1>1, <1>2, <1>3, <1>4 DEF Runs, Going, At, StopAt
<1>10. Alone'
  BY <1>1, <1>2, <1>3, <1>4 DEF Alone, Going, Stopping, At, StopAt
<1>11. Safe'
  <2> SUFFICES ASSUME Orderly', NEW v \in Tasks
               PROVE  SafeOf(v)'
    BY DEF Safe
  <2>1. Orderly /\ SafeOf(v)
    BY <1>1, <1>2, <1>3, <1>4 DEF Safe
  <2>2. QED
    BY <2>1, <1>1, <1>2, <1>3, <1>4 DEF SafeOf, At, StopAt
<1>12. Unstopped'
  BY <1>1, <1>2, <1>3, <1>4 DEF Unstopped, At, StopAt
<1>13. Told'
  <2> SUFFICES ASSUME Orderly', Housed', NEW v \in Tasks
               PROVE  ToldOf(v)'
    BY DEF Told
  <2>1. Orderly /\ Housed /\ ToldOf(v)
    BY <1>1, <1>2, <1>3, <1>4 DEF Told
  <2>2. CASE v # t
    BY <2>1, <2>2, <1>1, <1>2, <1>3, <1>4 DEF ToldOf, Settled, At, StopAt
  <2>3. CASE v = t
    BY <2>1, <2>3, <1>1, <1>2, <1>3, <1>4 DEF ToldOf, Settled, At, StopAt
  <2>4. QED
    BY <2>2, <2>3
<1>14. QED
  BY <1>5, <1>6, <1>7, <1>8, <1>9, <1>10, <1>11, <1>12, <1>13


\* What the scribe does next.
NextIs(t, what) == Head(queue) = <<t, what>>

\* The writes before a stop are done: it goes on.
LEMMA DrainFlushes ==
  ASSUME CodeTaskInv, NEW t \in Tasks, NEW what \in Words, Drain, NextIs(t, what), what = "flush"
  PROVE  CodeTaskInv'
<1> USE DEF CodeTaskInv
<1>1. /\ up
      /\ doc' = doc /\ tree' = tree /\ active' = active /\ held' = held /\ again' = again
      /\ key' = key /\ stopped' = stopped /\ asked' = asked /\ integrates' = integrates
      /\ sweep' = sweep /\ up' = up /\ starts' = starts /\ upset' = upset /\ left' = left
      /\ planned' = planned /\ lost' = lost
  BY DEF Drain, NextIs, past, Runs
<1>2. StopAt(t, "putting", NoTask, "none")
  BY TypedIs, Goes DEF Drain, NextIs, Places
<1>3. /\ queue' \in Seq(Writes)
      /\ \A v \in Tasks : v # t =>
           /\ Says(queue', v, Open) <=> Says(queue, v, Open)
           /\ Says(queue', v, Over) <=> Says(queue, v, Over)
           /\ Says(queue', v, Final) <=> Says(queue, v, Final)
           /\ Says(queue', v, Completed) <=> Says(queue, v, Completed)
           /\ Says(queue', v, Flush) <=> Says(queue, v, Flush)
           /\ Says(queue', v, Words) <=> Says(queue, v, Words)
      /\ Says(queue, t, Open) <=> Says(queue', t, Open)
      /\ Says(queue, t, Over) <=> Says(queue', t, Over)
      /\ Says(queue, t, Final) <=> Says(queue', t, Final)
      /\ Says(queue, t, Completed) <=> Says(queue', t, Completed)
      /\ Says(queue, t, Words) /\ Says(queue, t, Flush)
      /\ Once(queue, t) => ~Says(queue', t, Flush)
      /\ \A v \in Tasks : /\ Follows(queue, v) => Follows(queue', v)
                          /\ NoReturn(queue, v) => NoReturn(queue', v)
                          /\ Once(queue, v) => Once(queue', v)
  <2>1. queue \in Seq(Writes) /\ queue # <<>> /\ queue' = Tail(queue)
    BY TypedIs DEF Drain
  <2>2. Head(queue) = <<t, what>> /\ Head(queue)[1] = t /\ Head(queue)[2] = what
    BY DEF NextIs
  <2>3. /\ what \notin Open /\ what \notin Over /\ what \notin Final /\ what \notin Completed
        /\ what \in Flush /\ what \in Words /\ what = "flush"
    BY DEF Open, Over, Final, Completed, Flush, Words, Results, Statuses, Terminal
  <2>4. QED
    BY <2>1, <2>2, <2>3, SaysLess, FollowsLess
<1>4. At(Stop(t)) = "flushing" /\ ~Says(queue', t, Flush)
  BY <1>3 DEF Stops
<1>5. (Orderly' => Orderly) /\ (InTime' => InTime) /\ (Housed' => Housed)
  BY <1>1, UpsetsGrow
<1>6. TypeOK'
  BY <1>1, <1>2, <1>3, <1>4, <1>5 DEF TypeOK, At, Positions, Goals, Marks, Writes, Words,
                                      Trees, StopAt
<1>7. Worktrees'
  BY <1>1, <1>2, <1>3, <1>4, <1>5 DEF Worktrees, At, StopAt
<1>8. Swept'
  BY <1>1, <1>2, <1>3, <1>4, <1>5 DEF Swept
<1>9. Stops'
  BY <1>1, <1>2, <1>3, <1>4, <1>5 DEF Stops, Stopping, At, StopAt
<1>10. Runs'
  BY <1>1, <1>2, <1>3, <1>4, <1>5 DEF Runs, Going, At, StopAt
<1>11. Alone'
  BY <1>1, <1>2, <1>3, <1>4, <1>5 DEF Alone, Going, Stopping, At, StopAt
<1>12. Safe'
  <2> SUFFICES ASSUME Orderly', NEW v \in Tasks
               PROVE  SafeOf(v)'
    BY DEF Safe
  <2>1. Orderly /\ SafeOf(v)
    BY <1>1, <1>2, <1>3, <1>4, <1>5 DEF Safe
  <2>2. QED
    BY <2>1, <1>1, <1>2, <1>3, <1>4, <1>5 DEF SafeOf, At, StopAt
<1>13. Unstopped'
  BY <1>1, <1>2, <1>3, <1>4, <1>5 DEF Unstopped, At, StopAt
<1>14. Told'
  <2> SUFFICES ASSUME Orderly', Housed', NEW v \in Tasks
               PROVE  ToldOf(v)'
    BY DEF Told
  <2>1. Orderly /\ Housed /\ ToldOf(v)
    BY <1>1, <1>2, <1>3, <1>4, <1>5 DEF Told
  <2>2. CASE v # t
    BY <2>1, <2>2, <1>1, <1>2, <1>3, <1>4, <1>5 DEF ToldOf, Settled, At, StopAt
  <2>3. CASE v = t
    BY <2>1, <2>3, <1>1, <1>2, <1>3, <1>4, <1>5 DEF ToldOf, Settled, At, StopAt
  <2>4. QED
    BY <2>2, <2>3
<1>15. QED
  BY <1>6, <1>7, <1>8, <1>9, <1>10, <1>11, <1>12, <1>13, <1>14

\* A write is done. A stop that had read the document is refused.
LEMMA DrainKeeps ==
  ASSUME CodeTaskInv, NEW t \in Tasks, NEW what \in Words, Drain, NextIs(t, what), what # "flush"
  PROVE  CodeTaskInv'
<1> USE DEF CodeTaskInv
<1>1. /\ doc' \in [Tasks -> Statuses] /\ \A v \in Tasks \ {t} : doc'[v] = doc[v]
      /\ doc'[t] = IF doc[t] = "cancelled" THEN "cancelled" ELSE what
      /\ up
      /\ tree' = tree /\ active' = active /\ held' = held /\ again' = again /\ key' = key
      /\ stopped' = stopped /\ asked' = asked /\ integrates' = integrates /\ sweep' = sweep
      /\ up' = up /\ starts' = starts /\ upset' = upset /\ left' = left
      /\ planned' = planned /\ lost' = lost
  <2>1. doc \in [Tasks -> Statuses] /\ what \in Statuses
    BY DEF TypeOK, Words
  <2>2. QED
    BY <2>1 DEF Drain, NextIs, Patched, past, Runs
<1>2. /\ pc' \in [Agents -> Positions]
      /\ pc'[Stop(t)].at = IF At(Stop(t)) = "putting" THEN "idle" ELSE At(Stop(t))
      /\ pc'[Stop(t)].goal = IF At(Stop(t)) = "putting" THEN NoTask ELSE pc[Stop(t)].goal
      /\ \A u \in Tasks \ {t} : pc'[Stop(u)] = pc[Stop(u)]
      /\ \A u \in Tasks : pc'[Run(u)] = pc[Run(u)]
  <2>1. CASE At(Stop(t)) = "putting"
    <3>1. StopAt(t, "idle", NoTask, "none")
      BY <2>1, TypedIs, Goes DEF Drain, NextIs, Places
    <3>2. QED
      BY <2>1, <3>1 DEF StopAt
  <2>2. CASE At(Stop(t)) # "putting"
    BY <2>2, TypedIs DEF Drain, NextIs, At
  <2>3. QED
    BY <2>1, <2>2
<1>3. /\ queue' \in Seq(Writes)
      /\ Says(queue', t, Open) => Says(queue, t, Open)
      /\ Says(queue', t, Over) => Says(queue, t, Over)
      /\ Says(queue', t, Final) => Says(queue, t, Final)
      /\ Says(queue', t, Completed) => Says(queue, t, Completed)
      /\ Says(queue', t, Flush) => Says(queue, t, Flush)
      /\ Says(queue', t, Words) => Says(queue, t, Words)
      /\ \A v \in Tasks : v # t =>
           /\ Says(queue', v, Open) <=> Says(queue, v, Open)
           /\ Says(queue', v, Over) <=> Says(queue, v, Over)
           /\ Says(queue', v, Final) <=> Says(queue, v, Final)
           /\ Says(queue', v, Completed) <=> Says(queue, v, Completed)
           /\ Says(queue', v, Flush) <=> Says(queue, v, Flush)
           /\ Says(queue', v, Words) <=> Says(queue, v, Words)
      /\ Says(queue, t, Open) => Says(queue', t, Open) \/ what \in Open
      /\ Says(queue, t, Final) => Says(queue', t, Final) \/ what \in Final
      /\ what \in Open /\ Follows(queue, t) => Says(queue', t, Final)
      /\ what \in Over /\ NoReturn(queue, t) => ~Says(queue', t, Open)
      /\ what \in Over => Says(queue, t, Over)
      /\ what \in Completed => Says(queue, t, Completed)
      /\ Says(queue, t, Words)
      /\ what \in Over => what \notin Open
      /\ what \in Final => what \notin Open
      /\ "cancelled" \notin Open /\ "cancelled" \notin Over
      /\ what \in Completed <=> what = "completed"
      /\ \A v \in Tasks : /\ Follows(queue, v) => Follows(queue', v)
                          /\ NoReturn(queue, v) => NoReturn(queue', v)
                          /\ Once(queue, v) => Once(queue', v)
  <2>1. queue \in Seq(Writes) /\ queue # <<>> /\ queue' = Tail(queue)
    BY TypedIs DEF Drain
  <2>2. Head(queue) = <<t, what>> /\ Head(queue)[1] = t /\ Head(queue)[2] = what
    BY DEF NextIs
  <2>3. /\ "cancelled" \notin Open /\ "cancelled" \notin Over
        /\ what \in Over => what \notin Open
        /\ what \in Final => what \notin Open
        /\ what \in Completed <=> what = "completed"
        /\ what \notin Flush /\ what \in Words
    BY DEF Open, Over, Final, Completed, Flush, Words, Results, Statuses, Terminal
  <2>4. QED
    BY <2>1, <2>2, <2>3, SaysLess, FollowsLess
<1>4. (Orderly' => Orderly) /\ (InTime' => InTime) /\ (Housed' => Housed)
  BY <1>1, UpsetsGrow
<1>5. TypeOK'
  BY <1>1, <1>2, <1>3, <1>4 DEF TypeOK, At, Positions, Goals, Marks, Writes, Words, Trees
<1>6. Worktrees'
  BY <1>1, <1>2, <1>3, <1>4 DEF Worktrees, At
<1>7. Swept'
  BY <1>1, <1>2, <1>3, <1>4 DEF Swept
<1>8. Stops'
  BY <1>1, <1>2, <1>3, <1>4 DEF Stops, Stopping, At
<1>9. Runs'
  BY <1>1, <1>2, <1>3, <1>4 DEF Runs, Going, At
<1>10. Alone'
  BY <1>1, <1>2, <1>3, <1>4 DEF Alone, Going, Stopping, At
<1>11. Safe'
  <2> SUFFICES ASSUME Orderly', NEW v \in Tasks
               PROVE  SafeOf(v)'
    BY DEF Safe
  <2>1. Orderly /\ SafeOf(v)
    BY <1>1, <1>2, <1>3, <1>4 DEF Safe
  <2>2. QED
    BY <2>1, <1>1, <1>2, <1>3, <1>4 DEF SafeOf, At
<1>12. Unstopped'
  BY <1>1, <1>2, <1>3, <1>4 DEF Unstopped, At
<1>13. Told'
  <2> SUFFICES ASSUME Orderly', Housed', NEW v \in Tasks
               PROVE  ToldOf(v)'
    BY DEF Told
  <2>1. Orderly /\ Housed /\ ToldOf(v)
    BY <1>1, <1>2, <1>3, <1>4 DEF Told
  <2>2. CASE v # t
    BY <2>1, <2>2, <1>1, <1>2, <1>3, <1>4 DEF ToldOf, Settled, At
  <2>3. CASE v = t
    BY <2>1, <2>3, <1>1, <1>2, <1>3, <1>4 DEF ToldOf, Settled, At
  <2>4. QED
    BY <2>2, <2>3
<1>14. QED
  BY <1>5, <1>6, <1>7, <1>8, <1>9, <1>10, <1>11, <1>12, <1>13


Sweeps ==
  [phase : {"none", "scan", "list", "remove"}, spared : SUBSET Tasks, found : SUBSET Tasks]

LEMMA SweepIs ==
  /\ \A p \in {"none", "scan", "list", "remove"} : \A S, F \in SUBSET Tasks :
       /\ [phase |-> p, spared |-> S, found |-> F] \in Sweeps
       /\ [phase |-> p, spared |-> S, found |-> F].found = F
  /\ \A s \in Sweeps : s.phase \in {"none", "scan", "list", "remove"}
  BY DEF Sweeps


\* A queue that never records the task as going has nothing to follow such a record.
LEMMA QuietFollows ==
  ASSUME NEW t, ~Says(queue, t, Open)
  PROVE  Follows(queue, t)
BY DEF Says, Follows

\* A task that is over has nothing to be stopped.
LEMMA AskStopAnswered ==
  ASSUME CodeTaskInv, NEW t \in Tasks, NEW byClock \in BOOLEAN, AskStop(t, byClock),
         doc[t] \in Terminal
  PROVE  CodeTaskInv'
<1> USE DEF CodeTaskInv
<1>1. /\ asked' \in 0 .. MaxStops /\ doc[t] # "none" /\ At(Stop(t)) = "idle" /\ up
      /\ upset' \subseteq Upsets /\ Cardinality(upset') <= MaxUpsets
      /\ (Orderly' => Orderly) /\ (InTime' => InTime) /\ (Housed' => Housed)
      /\ doc[t] = "cancelled" \/ doc[t] \in Over
      /\ doc[t] \in Over => doc[t] \notin Open
      /\ doc' = doc /\ queue' = queue /\ tree' = tree /\ active' = active /\ held' = held
      /\ again' = again /\ key' = key /\ stopped' = stopped /\ integrates' = integrates
      /\ sweep' = sweep /\ up' = up /\ starts' = starts /\ left' = left
      /\ planned' = planned /\ lost' = lost
  <2>1. (At(Run(t)) \in {"applying", "removing", "settling", "tidying", "discarding"})
          \in BOOLEAN
    OBVIOUS
  <2>2. HappensIf(At(Run(t)) \in {"applying", "removing", "settling", "tidying", "discarding"},
                  "late")
    BY DEF AskStop
  <2>3. asked' \in 0 .. MaxStops
    BY DEF AskStop, TypeOK
  <2>4. /\ doc[t] = "cancelled" \/ doc[t] \in Over
        /\ doc[t] \in Over => doc[t] \notin Open
    BY DEF Terminal, Over, Open
  <2>5. QED
    BY <2>1, <2>2, <2>3, <2>4, HappensIfIs DEF AskStop
<1>2. StopAt(t, "done", NoTask, "none")
  BY TypedIs, Goes DEF AskStop, Places
<1>3. TypeOK'
  BY <1>1, <1>2 DEF TypeOK, At, Positions, Goals, Marks, Writes, Words, Trees, StopAt
<1>4. Worktrees'
  BY <1>1, <1>2 DEF Worktrees, At, StopAt
<1>5. Swept'
  BY <1>1, <1>2 DEF Swept
<1>6. Stops'
  BY <1>1, <1>2 DEF Stops, Stopping, At, StopAt
<1>7. Runs'
  BY <1>1, <1>2 DEF Runs, Going, At, StopAt
<1>8. Alone'
  BY <1>1, <1>2 DEF Alone, Going, Stopping, At, StopAt
<1>9. Safe'
  <2> SUFFICES ASSUME Orderly', NEW v \in Tasks
               PROVE  SafeOf(v)'
    BY DEF Safe
  <2>1. Orderly /\ SafeOf(v)
    BY <1>1, <1>2 DEF Safe
  <2>2. QED
    BY <2>1, <1>1, <1>2 DEF SafeOf, At, StopAt
<1>10. Unstopped'
  BY <1>1, <1>2 DEF Unstopped, At, StopAt
<1>11. Told'
  <2> SUFFICES ASSUME Orderly', Housed', NEW v \in Tasks
               PROVE  ToldOf(v)'
    BY DEF Told
  <2>1. Orderly /\ Housed /\ ToldOf(v)
    BY <1>1, <1>2 DEF Told
  <2>2. CASE v # t
    BY <2>1, <2>2, <1>1, <1>2 DEF ToldOf, Settled, At, StopAt
  <2>3. CASE v = t
    BY <2>1, <2>3, <1>1, <1>2, QuietFollows DEF ToldOf, Settled, At, StopAt
  <2>4. QED
    BY <2>2, <2>3
<1>12. QED
  BY <1>3, <1>4, <1>5, <1>6, <1>7, <1>8, <1>9, <1>10, <1>11

\* A stop is asked for.
LEMMA AskStopKeeps ==
  ASSUME CodeTaskInv, NEW t \in Tasks, NEW byClock \in BOOLEAN, AskStop(t, byClock),
         doc[t] \notin Terminal
  PROVE  CodeTaskInv'
<1> USE DEF CodeTaskInv
<1>1. /\ asked' \in 0 .. MaxStops /\ doc[t] # "none" /\ At(Stop(t)) = "idle" /\ up
      /\ upset' \subseteq Upsets /\ Cardinality(upset') <= MaxUpsets
      /\ (Orderly' => Orderly) /\ (InTime' => InTime) /\ (Housed' => Housed)
      /\ stopped' = stopped \cup {t}
      /\ integrates' \subseteq stopped'
      /\ \A u \in Tasks \ {t} : u \in integrates => u \in integrates'
      /\ InTime' => At(Run(t)) # "applying"
      /\ doc' = doc /\ queue' = queue /\ tree' = tree /\ active' = active /\ held' = held
      /\ again' = again /\ key' = key /\ sweep' = sweep /\ up' = up /\ starts' = starts
      /\ left' = left /\ planned' = planned /\ lost' = lost
  <2>1. (At(Run(t)) \in {"applying", "removing", "settling", "tidying", "discarding"})
          \in BOOLEAN
    OBVIOUS
  <2>2. HappensIf(At(Run(t)) \in {"applying", "removing", "settling", "tidying", "discarding"},
                  "late")
    BY DEF AskStop
  <2>3. asked' \in 0 .. MaxStops
    BY DEF AskStop, TypeOK
  <2>4. /\ integrates' \subseteq stopped'
        /\ \A u \in Tasks \ {t} : u \in integrates => u \in integrates'
    BY DEF AskStop, TypeOK
  <2>5. QED
    BY <2>1, <2>2, <2>3, <2>4, HappensIfIs DEF AskStop
<1>2. StopAt(t, "waiting", NoTask, "none")
  BY TypedIs, Goes DEF AskStop, Places
<1>3. TypeOK'
  BY <1>1, <1>2, TypedIs DEF TypeOK, At, Positions, Goals, Marks, Writes, Words, Trees, StopAt
<1>4. Worktrees'
  BY <1>1, <1>2 DEF Worktrees, At, StopAt
<1>5. Swept'
  BY <1>1, <1>2 DEF Swept
<1>6. Stops'
  BY <1>1, <1>2 DEF Stops, Stopping, At, StopAt
<1>7. Runs'
  BY <1>1, <1>2 DEF Runs, Going, At, StopAt
<1>8. Alone'
  BY <1>1, <1>2 DEF Alone, Going, Stopping, At, StopAt
<1>9. Safe'
  <2> SUFFICES ASSUME Orderly', NEW v \in Tasks
               PROVE  SafeOf(v)'
    BY DEF Safe
  <2>1. Orderly /\ SafeOf(v)
    BY <1>1, <1>2 DEF Safe
  <2>2. QED
    BY <2>1, <1>1, <1>2 DEF SafeOf, At, StopAt
<1>10. Unstopped'
  BY <1>1, <1>2 DEF Unstopped, At, StopAt
<1>11. Told'
  <2> SUFFICES ASSUME Orderly', Housed', NEW v \in Tasks
               PROVE  ToldOf(v)'
    BY DEF Told
  <2>1. Orderly /\ Housed /\ ToldOf(v)
    BY <1>1, <1>2 DEF Told
  <2>2. CASE v # t
    BY <2>1, <2>2, <1>1, <1>2 DEF ToldOf, Settled, At, StopAt
  <2>3. CASE v = t
    BY <2>1, <2>3, <1>1, <1>2 DEF ToldOf, Settled, At, StopAt
  <2>4. QED
    BY <2>2, <2>3
<1>12. QED
  BY <1>3, <1>4, <1>5, <1>6, <1>7, <1>8, <1>9, <1>10, <1>11

\* The harness has ended: the stop waits for the writes that were queued before.
LEMMA StopFlushesKeeps ==
  ASSUME CodeTaskInv, NEW t \in Tasks, StopFlushes(t)
  PROVE  CodeTaskInv'
<1> USE DEF CodeTaskInv
<1>1. /\ At(Stop(t)) = "waiting" /\ \A u \in Tasks : key[u] # t
      /\ doc' = doc /\ tree' = tree /\ active' = active /\ held' = held /\ again' = again
      /\ key' = key /\ stopped' = stopped /\ asked' = asked /\ integrates' = integrates
      /\ sweep' = sweep /\ up' = up /\ starts' = starts /\ upset' = upset /\ left' = left
      /\ planned' = planned /\ lost' = lost
  BY DEF StopFlushes, Post, past
<1>2. StopAt(t, "flushing", NoTask, "none")
  BY TypedIs, Goes DEF StopFlushes, Places
<1>3. /\ queue' \in Seq(Writes)
      /\ \A v \in Tasks : Says(queue', v, Open) <=> Says(queue, v, Open)
      /\ \A v \in Tasks : Says(queue', v, Over) <=> Says(queue, v, Over)
      /\ \A v \in Tasks : Says(queue', v, Final) <=> Says(queue, v, Final)
      /\ \A v \in Tasks : Says(queue', v, Completed) <=> Says(queue, v, Completed)
      /\ \A v \in Tasks : Says(queue', v, Flush) <=> Says(queue, v, Flush) \/ v = t
      /\ \A v \in Tasks : Says(queue', v, Words) <=> Says(queue, v, Words) \/ v = t
      /\ \A v \in Tasks : Follows(queue, v) => Follows(queue', v)
      /\ \A v \in Tasks : NoReturn(queue, v) => NoReturn(queue', v)
      /\ \A v \in Tasks \ {t} : Once(queue, v) => Once(queue', v)
      /\ Once(queue, t) /\ ~Says(queue, t, Flush) => Once(queue', t)
  <2>1. queue \in Seq(Writes) /\ t \in Tasks
    BY TypedIs
  <2>2. /\ "flush" \notin Open /\ "flush" \notin Over /\ "flush" \notin Final
        /\ "flush" \notin Completed /\ "flush" \in Flush /\ "flush" \in Words
    BY DEF Open, Over, Final, Results, Completed, Flush, Words, Statuses, Terminal
  <2>3. queue' = Append(queue, <<t, "flush">>)
    BY DEF StopFlushes, Post
  <2>4. QED
    BY <2>1, <2>2, <2>3, SaysMore, FollowsMore, NoReturnMore
<1>4. (Orderly' => Orderly) /\ (InTime' => InTime) /\ (Housed' => Housed)
  BY <1>1, UpsetsGrow
<1>5. TypeOK'
  BY <1>1, <1>2, <1>3, <1>4 DEF TypeOK, At, Positions, Goals, Marks, Writes, Words, Trees,
                                StopAt
<1>6. Worktrees'
  BY <1>1, <1>2, <1>3, <1>4 DEF Worktrees, At, StopAt
<1>7. Swept'
  BY <1>1, <1>2, <1>3, <1>4 DEF Swept
<1>8. Stops'
  BY <1>1, <1>2, <1>3, <1>4 DEF Stops, Stopping, At, StopAt
<1>9. Runs'
  BY <1>1, <1>2, <1>3, <1>4 DEF Runs, Going, At, StopAt
<1>10. Alone'
  BY <1>1, <1>2, <1>3, <1>4 DEF Alone, Going, Stopping, At, StopAt
<1>11. Safe'
  <2> SUFFICES ASSUME Orderly', NEW v \in Tasks
               PROVE  SafeOf(v)'
    BY DEF Safe
  <2>1. Orderly /\ SafeOf(v)
    BY <1>1, <1>2, <1>3, <1>4 DEF Safe
  <2>2. QED
    BY <2>1, <1>1, <1>2, <1>3, <1>4 DEF SafeOf, At, StopAt
<1>12. Unstopped'
  BY <1>1, <1>2, <1>3, <1>4 DEF Unstopped, At, StopAt
<1>13. Told'
  <2> SUFFICES ASSUME Orderly', Housed', NEW v \in Tasks
               PROVE  ToldOf(v)'
    BY DEF Told
  <2>1. Orderly /\ Housed /\ ToldOf(v)
    BY <1>1, <1>2, <1>3, <1>4 DEF Told
  <2>2. CASE v # t
    BY <2>1, <2>2, <1>1, <1>2, <1>3, <1>4 DEF ToldOf, Settled, At, StopAt
  <2>3. CASE v = t
    BY <2>1, <2>3, <1>1, <1>2, <1>3, <1>4 DEF ToldOf, Settled, At, StopAt, Stopping
  <2>4. QED
    BY <2>2, <2>3
<1>14. QED
  BY <1>5, <1>6, <1>7, <1>8, <1>9, <1>10, <1>11, <1>12, <1>13

\* It has not: the stop is refused.
LEMMA StopExpiresKeeps ==
  ASSUME CodeTaskInv, NEW t \in Tasks, StopExpires(t)
  PROVE  CodeTaskInv'
<1> USE DEF CodeTaskInv
<1>1. /\ At(Stop(t)) = "waiting"
      /\ upset' \subseteq Upsets /\ Cardinality(upset') <= MaxUpsets
      /\ (Orderly' => Orderly) /\ (InTime' => InTime) /\ (Housed' => Housed)
      /\ doc' = doc /\ queue' = queue /\ tree' = tree /\ active' = active /\ held' = held
      /\ again' = again /\ key' = key /\ stopped' = stopped /\ asked' = asked
      /\ integrates' = integrates /\ sweep' = sweep /\ up' = up /\ starts' = starts
      /\ left' = left /\ planned' = planned /\ lost' = lost
  <2>1. Happens("deadline")
    BY DEF StopExpires
  <2>2. /\ upset' = upset \cup {"deadline"} /\ upset' \subseteq Upsets
        /\ Cardinality(upset') <= MaxUpsets
    BY <2>1, TypedIs, HappensIs
  <2>3. QED
    BY <2>2, UpsetsGrow DEF StopExpires
<1>2. StopAt(t, "idle", NoTask, "none")
  BY TypedIs, Goes DEF StopExpires, Places
<1>3. TypeOK'
  BY <1>1, <1>2 DEF TypeOK, At, Positions, Goals, Marks, Writes, Words, Trees, StopAt
<1>4. Worktrees'
  BY <1>1, <1>2 DEF Worktrees, At, StopAt
<1>5. Swept'
  BY <1>1, <1>2 DEF Swept
<1>6. Stops'
  BY <1>1, <1>2 DEF Stops, Stopping, At, StopAt
<1>7. Runs'
  BY <1>1, <1>2 DEF Runs, Going, At, StopAt
<1>8. Alone'
  BY <1>1, <1>2 DEF Alone, Going, Stopping, At, StopAt
<1>9. Safe'
  <2> SUFFICES ASSUME Orderly', NEW v \in Tasks
               PROVE  SafeOf(v)'
    BY DEF Safe
  <2>1. Orderly /\ SafeOf(v)
    BY <1>1, <1>2 DEF Safe
  <2>2. QED
    BY <2>1, <1>1, <1>2 DEF SafeOf, At, StopAt
<1>10. Unstopped'
  BY <1>1, <1>2 DEF Unstopped, At, StopAt
<1>11. Told'
  <2> SUFFICES ASSUME Orderly', Housed', NEW v \in Tasks
               PROVE  ToldOf(v)'
    BY DEF Told
  <2>1. Orderly /\ Housed /\ ToldOf(v)
    BY <1>1, <1>2 DEF Told
  <2>2. CASE v # t
    BY <2>1, <2>2, <1>1, <1>2 DEF ToldOf, Settled, At, StopAt
  <2>3. CASE v = t
    BY <2>1, <2>3, <1>1, <1>2 DEF ToldOf, Settled, At, StopAt
  <2>4. QED
    BY <2>2, <2>3
<1>12. QED
  BY <1>3, <1>4, <1>5, <1>6, <1>7, <1>8, <1>9, <1>10, <1>11

\* The task is recorded as cancelled.
LEMMA StopPutsKeeps ==
  ASSUME CodeTaskInv, NEW t \in Tasks, StopPuts(t)
  PROVE  CodeTaskInv'
<1> USE DEF CodeTaskInv
<1>1. /\ At(Stop(t)) = "putting"
      /\ doc' \in [Tasks -> Statuses] /\ doc'[t] = "cancelled"
      /\ \A u \in Tasks \ {t} : doc'[u] = doc[u]
      /\ "cancelled" \notin Over /\ "cancelled" \notin Open
      /\ queue' = queue /\ tree' = tree /\ active' = active /\ held' = held
      /\ again' = again /\ key' = key /\ stopped' = stopped /\ asked' = asked
      /\ integrates' = integrates /\ sweep' = sweep /\ up' = up /\ starts' = starts
      /\ upset' = upset /\ left' = left /\ planned' = planned /\ lost' = lost
  <2>1. doc \in [Tasks -> Statuses] /\ "cancelled" \in Statuses
    BY DEF TypeOK, Statuses, Terminal
  <2>2. "cancelled" \notin Over /\ "cancelled" \notin Open
    BY DEF Over, Open
  <2>3. QED
    BY <2>1, <2>2 DEF StopPuts, past
<1>2. /\ pc' \in [Agents -> Positions]
      /\ pc'[Stop(t)].at \in {"applying", "tidying"} /\ pc'[Stop(t)].goal = t
      /\ pc'[Stop(t)].at = "applying" => t \in integrates
      /\ \A u \in Tasks \ {t} : pc'[Stop(u)] = pc[Stop(u)]
      /\ \A u \in Tasks : pc'[Run(u)] = pc[Run(u)]
  <2>1. CASE t \in integrates
    <3>1. StopAt(t, "applying", t, "none")
      BY <2>1, TypedIs, Goes DEF StopPuts, Places, Goals, Marks
    <3>2. QED
      BY <2>1, <3>1 DEF StopAt
  <2>2. CASE t \notin integrates
    <3>1. StopAt(t, "tidying", t, "none")
      BY <2>2, TypedIs, Goes DEF StopPuts, Places, Goals, Marks
    <3>2. QED
      BY <2>2, <3>1 DEF StopAt
  <2>3. QED
    BY <2>1, <2>2 DEF StopPuts
<1>3. (Orderly' => Orderly) /\ (InTime' => InTime) /\ (Housed' => Housed)
  BY <1>1, UpsetsGrow
<1>4. TypeOK'
  BY <1>1, <1>2, <1>3 DEF TypeOK, At, Positions, Goals, Marks, Writes, Words, Trees
<1>5. Worktrees'
  BY <1>1, <1>2, <1>3 DEF Worktrees, At
<1>6. Swept'
  BY <1>1, <1>2, <1>3 DEF Swept
<1>7. Stops'
  BY <1>1, <1>2, <1>3 DEF Stops, Stopping, At
<1>8. Runs'
  BY <1>1, <1>2, <1>3 DEF Runs, Going, At
<1>9. Alone'
  BY <1>1, <1>2, <1>3 DEF Alone, Going, Stopping, At
<1>10. Safe'
  <2> SUFFICES ASSUME Orderly', NEW v \in Tasks
               PROVE  SafeOf(v)'
    BY DEF Safe
  <2>1. Orderly /\ SafeOf(v)
    BY <1>1, <1>2, <1>3 DEF Safe
  <2>2. QED
    BY <2>1, <1>1, <1>2, <1>3 DEF SafeOf, At
<1>11. Unstopped'
  BY <1>1, <1>2, <1>3 DEF Unstopped, At
<1>12. Told'
  <2> SUFFICES ASSUME Orderly', Housed', NEW v \in Tasks
               PROVE  ToldOf(v)'
    BY DEF Told
  <2>1. Orderly /\ Housed /\ ToldOf(v)
    BY <1>1, <1>2, <1>3 DEF Told
  <2>2. CASE v # t
    BY <2>1, <2>2, <1>1, <1>2, <1>3 DEF ToldOf, Settled, At
  <2>3. CASE v = t
    BY <2>1, <2>3, <1>1, <1>2, <1>3 DEF ToldOf, Settled, At, Stopping
  <2>4. QED
    BY <2>2, <2>3
<1>13. QED
  BY <1>4, <1>5, <1>6, <1>7, <1>8, <1>9, <1>10, <1>11, <1>12

\* The stop of the clock integrates: there is nothing isolated,
LEMMA StopMergesNothing ==
  ASSUME CodeTaskInv, NEW t \in Tasks, StopMerges(t), NothingToApply(t), Goto(Stop(t), "done")
  PROVE  CodeTaskInv'
<1> USE DEF CodeTaskInv
<1>1. /\ At(Stop(t)) = "applying"
      /\ doc' = doc /\ queue' = queue /\ tree' = tree /\ active' = active /\ held' = held
      /\ again' = again /\ key' = key /\ stopped' = stopped /\ asked' = asked
      /\ integrates' = integrates /\ sweep' = sweep /\ up' = up /\ starts' = starts
      /\ upset' = upset /\ left' = left /\ planned' = planned /\ lost' = lost
  BY DEF StopMerges, NothingToApply, past
<1>2. StopAt(t, "done", NoTask, "none")
  BY TypedIs, Goes DEF StopMerges, Places
<1>3. (Orderly' => Orderly) /\ (InTime' => InTime) /\ (Housed' => Housed)
  BY <1>1, UpsetsGrow
<1>4. TypeOK'
  BY <1>1, <1>2, <1>3 DEF TypeOK, At, Positions, Goals, Marks, Writes, Words, Trees, StopAt
<1>5. Worktrees'
  BY <1>1, <1>2, <1>3 DEF Worktrees, At, StopAt
<1>6. Swept'
  BY <1>1, <1>2, <1>3 DEF Swept
<1>7. Stops'
  BY <1>1, <1>2, <1>3 DEF Stops, Stopping, At, StopAt
<1>8. Runs'
  BY <1>1, <1>2, <1>3 DEF Runs, Going, At, StopAt
<1>9. Alone'
  BY <1>1, <1>2, <1>3 DEF Alone, Going, Stopping, At, StopAt
<1>10. Safe'
  <2> SUFFICES ASSUME Orderly', NEW v \in Tasks
               PROVE  SafeOf(v)'
    BY DEF Safe
  <2>1. Orderly /\ SafeOf(v)
    BY <1>1, <1>2, <1>3 DEF Safe
  <2>2. QED
    BY <2>1, <1>1, <1>2, <1>3 DEF SafeOf, At, StopAt
<1>11. Unstopped'
  BY <1>1, <1>2, <1>3 DEF Unstopped, At, StopAt
<1>12. Told'
  <2> SUFFICES ASSUME Orderly', Housed', NEW v \in Tasks
               PROVE  ToldOf(v)'
    BY DEF Told
  <2>1. Orderly /\ Housed /\ ToldOf(v)
    BY <1>1, <1>2, <1>3 DEF Told
  <2>2. CASE v # t
    BY <2>1, <2>2, <1>1, <1>2, <1>3 DEF ToldOf, Settled, At, StopAt
  <2>3. CASE v = t
    BY <2>1, <2>3, <1>1, <1>2, <1>3 DEF ToldOf, Settled, At, StopAt
  <2>4. QED
    BY <2>2, <2>3
<1>13. QED
  BY <1>4, <1>5, <1>6, <1>7, <1>8, <1>9, <1>10, <1>11, <1>12

\* or the diff reaches the project,
LEMMA StopMergesApplies ==
  ASSUME CodeTaskInv, NEW t \in Tasks, StopMerges(t), Apply(t), Moves(Stop(t), "removing")
  PROVE  CodeTaskInv'
<1> USE DEF CodeTaskInv
<1>1. /\ At(Stop(t)) = "applying" /\ t \in held
      /\ tree'[t] # "dirty"
      /\ tree' \in [Tasks -> Trees] /\ \A u \in Tasks : tree'[u] = "none" <=> tree[u] = "none"
      /\ \A u \in Tasks : tree'[u] = "dirty" => tree[u] = "dirty"
      /\ doc' = doc /\ queue' = queue /\ active' = active /\ held' = held /\ again' = again
      /\ key' = key /\ stopped' = stopped /\ asked' = asked /\ integrates' = integrates
      /\ sweep' = sweep /\ up' = up /\ starts' = starts /\ upset' = upset /\ left' = left
      /\ planned' = planned /\ lost' = lost
  BY TypedIs DEF StopMerges, Apply, Trees, past
<1>2. StopAt(t, "removing", pc[Stop(t)].goal, pc[Stop(t)].as)
  BY TypedIs, Goes DEF StopMerges, Places
<1>3. (Orderly' => Orderly) /\ (InTime' => InTime) /\ (Housed' => Housed)
  BY <1>1, UpsetsGrow
<1>4. TypeOK'
  BY <1>1, <1>2, <1>3 DEF TypeOK, At, Positions, Goals, Marks, Writes, Words, Trees, StopAt
<1>5. Worktrees'
  BY <1>1, <1>2, <1>3 DEF Worktrees, At, StopAt, Stops
<1>6. Swept'
  BY <1>1, <1>2, <1>3, TypedIs DEF Swept
<1>7. Stops'
  BY <1>1, <1>2, <1>3 DEF Stops, Stopping, At, StopAt
<1>8. Runs'
  BY <1>1, <1>2, <1>3 DEF Runs, Going, At, StopAt
<1>9. Alone'
  BY <1>1, <1>2, <1>3 DEF Alone, Going, Stopping, At, StopAt
<1>10. Safe'
  <2> SUFFICES ASSUME Orderly', NEW v \in Tasks
               PROVE  SafeOf(v)'
    BY DEF Safe
  <2>1. Orderly /\ SafeOf(v)
    BY <1>1, <1>2, <1>3 DEF Safe
  <2>2. QED
    BY <2>1, <1>1, <1>2, <1>3 DEF SafeOf, At, StopAt
<1>11. Unstopped'
  BY <1>1, <1>2, <1>3 DEF Unstopped, At, StopAt
<1>12. Told'
  <2> SUFFICES ASSUME Orderly', Housed', NEW v \in Tasks
               PROVE  ToldOf(v)'
    BY DEF Told
  <2>1. Orderly /\ Housed /\ ToldOf(v)
    BY <1>1, <1>2, <1>3 DEF Told
  <2>2. CASE v # t
    BY <2>1, <2>2, <1>1, <1>2, <1>3 DEF ToldOf, Settled, At, StopAt
  <2>3. CASE v = t
    BY <2>1, <2>3, <1>1, <1>2, <1>3 DEF ToldOf, Settled, At, StopAt
  <2>4. QED
    BY <2>2, <2>3
<1>13. QED
  BY <1>4, <1>5, <1>6, <1>7, <1>8, <1>9, <1>10, <1>11, <1>12

\* or it is refused.
LEMMA StopMergesRefuses ==
  ASSUME CodeTaskInv, NEW t \in Tasks, StopMerges(t), NotApplied(t), Moves(Stop(t), "tidying")
  PROVE  CodeTaskInv'
<1> USE DEF CodeTaskInv
<1>1. /\ At(Stop(t)) = "applying"
      /\ doc' = doc /\ tree' = tree /\ active' = active /\ held' = held /\ again' = again
      /\ key' = key /\ stopped' = stopped /\ asked' = asked /\ integrates' = integrates
      /\ sweep' = sweep /\ up' = up /\ starts' = starts /\ upset' = upset /\ left' = left
      /\ planned' = planned /\ lost' = lost
  BY DEF StopMerges, NotApplied, Post, past
<1>2. StopAt(t, "tidying", pc[Stop(t)].goal, pc[Stop(t)].as)
  BY TypedIs, Goes DEF StopMerges, Places
<1>3. /\ queue' \in Seq(Writes)
      /\ \A v \in Tasks : Says(queue', v, Open) <=> Says(queue, v, Open)
      /\ \A v \in Tasks : Says(queue', v, Over) <=> Says(queue, v, Over)
      /\ \A v \in Tasks : Says(queue', v, Final) <=> Says(queue, v, Final) \/ v = t
      /\ \A v \in Tasks : Says(queue', v, Completed) <=> Says(queue, v, Completed)
      /\ \A v \in Tasks : Says(queue', v, Flush) <=> Says(queue, v, Flush)
      /\ \A v \in Tasks : Says(queue', v, Words) <=> Says(queue, v, Words) \/ v = t
      /\ \A v \in Tasks : Follows(queue, v) => Follows(queue', v)
      /\ Follows(queue', t)
      /\ \A v \in Tasks : NoReturn(queue, v) => NoReturn(queue', v)
      /\ \A v \in Tasks : Once(queue, v) => Once(queue', v)
  <2>1. queue \in Seq(Writes) /\ t \in Tasks
    BY TypedIs
  <2>2. /\ "paused" \notin Open /\ "paused" \notin Over /\ "paused" \in Final
        /\ "paused" \notin Completed /\ "paused" \notin Flush /\ "paused" \in Words
        /\ "paused" # "flush"
    BY DEF Open, Over, Final, Results, Completed, Flush, Words, Statuses, Terminal
  <2>3. queue' = Append(queue, <<t, "paused">>)
    BY DEF NotApplied, Post
  <2>4. QED
    BY <2>1, <2>2, <2>3, SaysMore, FollowsMore, NoReturnMore
<1>4. (Orderly' => Orderly) /\ (InTime' => InTime) /\ (Housed' => Housed)
  BY <1>1, UpsetsGrow
<1>5. TypeOK'
  BY <1>1, <1>2, <1>3, <1>4 DEF TypeOK, At, Positions, Goals, Marks, Writes, Words, Trees,
                                StopAt
<1>6. Worktrees'
  BY <1>1, <1>2, <1>3, <1>4 DEF Worktrees, At, StopAt
<1>7. Swept'
  BY <1>1, <1>2, <1>3, <1>4 DEF Swept
<1>8. Stops'
  BY <1>1, <1>2, <1>3, <1>4 DEF Stops, Stopping, At, StopAt
<1>9. Runs'
  BY <1>1, <1>2, <1>3, <1>4 DEF Runs, Going, At, StopAt
<1>10. Alone'
  BY <1>1, <1>2, <1>3, <1>4 DEF Alone, Going, Stopping, At, StopAt
<1>11. Safe'
  <2> SUFFICES ASSUME Orderly', NEW v \in Tasks
               PROVE  SafeOf(v)'
    BY DEF Safe
  <2>1. Orderly /\ SafeOf(v)
    BY <1>1, <1>2, <1>3, <1>4 DEF Safe
  <2>2. QED
    BY <2>1, <1>1, <1>2, <1>3, <1>4 DEF SafeOf, At, StopAt
<1>12. Unstopped'
  BY <1>1, <1>2, <1>3, <1>4 DEF Unstopped, At, StopAt
<1>13. Told'
  <2> SUFFICES ASSUME Orderly', Housed', NEW v \in Tasks
               PROVE  ToldOf(v)'
    BY DEF Told
  <2>1. Orderly /\ Housed /\ ToldOf(v)
    BY <1>1, <1>2, <1>3, <1>4 DEF Told
  <2>2. CASE v # t
    BY <2>1, <2>2, <1>1, <1>2, <1>3, <1>4 DEF ToldOf, Settled, At, StopAt
  <2>3. CASE v = t
    BY <2>1, <2>3, <1>1, <1>2, <1>3, <1>4 DEF ToldOf, Settled, At, StopAt, Stopping
  <2>4. QED
    BY <2>2, <2>3
<1>14. QED
  BY <1>5, <1>6, <1>7, <1>8, <1>9, <1>10, <1>11, <1>12, <1>13

\* The person leaves the session: of a task that goes, that is an upset.
LEMMA EndSessionKeeps ==
  ASSUME CodeTaskInv, EndSession
  PROVE  CodeTaskInv'
<1> USE DEF CodeTaskInv
<1>1. /\ active' = NoTask /\ left' \subseteq Tasks
      /\ upset' \subseteq Upsets /\ Cardinality(upset') <= MaxUpsets
      /\ (Orderly' => Orderly) /\ (InTime' => InTime) /\ (Housed' => Housed)
      /\ Orderly' => \A u \in Tasks : ~Going(u)
      /\ doc' = doc /\ queue' = queue /\ tree' = tree /\ held' = held /\ pc' = pc
      /\ again' = again /\ key' = key /\ stopped' = stopped /\ asked' = asked
      /\ integrates' = integrates /\ sweep' = sweep /\ up' = up /\ starts' = starts
      /\ planned' = planned /\ lost' = lost
  <2>1. AnyGoing \in BOOLEAN /\ HappensIf(AnyGoing, "switch")
    BY DEF EndSession, AnyGoing
  <2>2. left' \subseteq Tasks
    BY DEF EndSession, TypeOK
  <2>3. QED
    BY <2>1, <2>2, HappensIfIs DEF EndSession, AnyGoing
<1>2. TypeOK'
  BY <1>1 DEF TypeOK, At, Positions, Goals, Marks, Writes, Words, Trees, Goals
<1>3. Worktrees'
  BY <1>1 DEF Worktrees, At
<1>4. Swept'
  BY <1>1 DEF Swept
<1>5. Stops'
  BY <1>1 DEF Stops, Stopping, At
<1>6. Runs'
  BY <1>1 DEF Runs, Going, At
<1>7. Alone'
  BY <1>1 DEF Alone, Going, Stopping, At
<1>8. Safe'
  <2> SUFFICES ASSUME Orderly', NEW v \in Tasks
               PROVE  SafeOf(v)'
    BY DEF Safe
  <2>1. Orderly /\ SafeOf(v)
    BY <1>1 DEF Safe
  <2>2. QED
    BY <2>1, <1>1 DEF SafeOf, At
<1>9. Unstopped'
  BY <1>1 DEF Unstopped, At
<1>10. Told'
  <2> SUFFICES ASSUME Orderly', Housed', NEW v \in Tasks
               PROVE  ToldOf(v)'
    BY DEF Told
  <2>1. Orderly /\ Housed /\ ToldOf(v)
    BY <1>1 DEF Told
  <2>2. QED
    BY <2>1, <1>1 DEF ToldOf, Settled, At
<1>11. QED
  BY <1>2, <1>3, <1>4, <1>5, <1>6, <1>7, <1>8, <1>9, <1>10

\* Memory and the writes that were waiting are gone.
LEMMA ExitKeeps ==
  ASSUME CodeTaskInv, Exit
  PROVE  CodeTaskInv'
<1> USE DEF CodeTaskInv
<1>1. /\ ~up' /\ queue' = <<>> /\ active' = NoTask /\ held' = {} /\ stopped' = {} /\ asked' = 0
      /\ again' = {} /\ integrates' = {} /\ key' = [u \in Tasks |-> NoTask] /\ sweep' = Asleep
      /\ up' \in BOOLEAN
      /\ upset' \subseteq Upsets /\ Cardinality(upset') <= MaxUpsets
      /\ (Orderly' => Orderly) /\ (InTime' => InTime) /\ (Housed' => Housed)
      /\ doc' = doc /\ tree' = tree /\ starts' = starts /\ left' = left
      /\ planned' = planned /\ lost' = lost
  <2>1. (queue # <<>> \/ AnyGoing \/ \E u \in Tasks : Stopping(u)) \in BOOLEAN
    BY DEF AnyGoing
  <2>2. HappensIf(queue # <<>> \/ AnyGoing \/ \E u \in Tasks : Stopping(u), "crash")
    BY DEF Exit
  <2>3. QED
    BY <2>1, <2>2, HappensIfIs DEF Exit
<1>2. /\ pc' \in [Agents -> Positions]
      /\ \A u \in Tasks : /\ pc'[Stop(u)].at = "idle"
                          /\ pc'[Run(u)].at = IF At(Run(u)) # "idle" THEN "over" ELSE "idle"
  <2>1. pc' = [a \in Agents |-> Just(IF a[1] = "run" /\ At(a) # "idle" THEN "over" ELSE "idle")]
    BY DEF Exit
  <2>2. Just("idle") \in Positions /\ Just("over") \in Positions
    BY DEF Just, Positions, Places, Goals, Marks
  <2>3. \A u \in Tasks : Run(u)[1] = "run" /\ Stop(u)[1] # "run"
    BY DEF Run, Stop
  <2>4. pc' \in [Agents -> Positions]
    BY <2>1, <2>2
  <2>5. QED
    BY <2>1, <2>3, <2>4, AgentsAre DEF Just
<1>3. /\ \A v \in Tasks : /\ \A S : ~Says(queue', v, S)
                          /\ Follows(queue', v) /\ NoReturn(queue', v) /\ Once(queue', v)
      /\ queue' \in Seq(Writes)
  BY <1>1, NothingSaid
<1>4. TypeOK'
  BY <1>1, <1>2, <1>3 DEF TypeOK, At, Positions, Goals, Marks, Writes, Words, Trees, Asleep,
                          Goals, Sweeps
<1>5. Worktrees'
  BY <1>1, <1>2, <1>3 DEF Worktrees, At
<1>6. Swept'
  BY <1>1, <1>2, <1>3 DEF Swept, Asleep
<1>7. Stops'
  BY <1>1, <1>2, <1>3 DEF Stops, Stopping, At
<1>8. Runs'
  BY <1>1, <1>2, <1>3 DEF Runs, Going, At
<1>9. Alone'
  BY <1>1, <1>2, <1>3 DEF Alone, Going, Stopping, At
<1>10. Safe'
  <2> SUFFICES ASSUME Orderly', NEW v \in Tasks
               PROVE  SafeOf(v)'
    BY DEF Safe
  <2>1. Orderly /\ SafeOf(v)
    BY <1>1, <1>2, <1>3 DEF Safe
  <2>2. QED
    BY <2>1, <1>1, <1>2, <1>3 DEF SafeOf, At
<1>11. Unstopped'
  BY <1>1, <1>2, <1>3 DEF Unstopped, At
<1>12. Told'
  <2> SUFFICES ASSUME Orderly', Housed', NEW v \in Tasks
               PROVE  ToldOf(v)'
    BY DEF Told
  <2>1. Orderly /\ Housed /\ ToldOf(v)
    BY <1>1, <1>2, <1>3 DEF Told
  <2>2. QED
    BY <2>1, <1>1, <1>2, <1>3 DEF ToldOf, Settled, At
<1>13. QED
  BY <1>4, <1>5, <1>6, <1>7, <1>8, <1>9, <1>10, <1>11, <1>12

\* The tasks that a process left as going are settled as failed, before anything else.
LEMMA StartKeeps ==
  ASSUME CodeTaskInv, Start
  PROVE  CodeTaskInv'
<1> USE DEF CodeTaskInv
<1>1. /\ ~up /\ up' /\ up' \in BOOLEAN /\ starts' \in 0 .. MaxStarts
      /\ sweep'.found = {} /\ sweep' \in Sweeps
      /\ doc' = doc /\ tree' = tree /\ active' = active /\ held' = held /\ pc' = pc
      /\ again' = again /\ key' = key /\ stopped' = stopped /\ asked' = asked
      /\ integrates' = integrates /\ upset' = upset /\ left' = left /\ planned' = planned
      /\ lost' = lost
  <2>1. starts' \in 0 .. MaxStarts
    BY DEF Start, TypeOK
  <2>2. sweep' = [phase |-> "scan", spared |-> {}, found |-> {}]
    BY DEF Start, Asleep
  <2>3. sweep' \in Sweeps /\ sweep'.found = {}
    BY <2>2, SweepIs
  <2>4. QED
    BY <2>1, <2>3 DEF Start
<1>2. /\ queue' \in Seq(Writes)
      /\ \A v \in Tasks : Says(queue', v, Open) => FALSE
      /\ \A v \in Tasks : Says(queue', v, Over) => doc[v] \in Open
      /\ \A v \in Tasks : doc[v] \in Open => Says(queue', v, Final)
      /\ \A v \in Tasks : ~Says(queue', v, Completed) /\ ~Says(queue', v, Flush)
      /\ \A v \in Tasks : Says(queue', v, Words) => doc[v] \in Open
      /\ \A v \in Tasks : Follows(queue', v) /\ NoReturn(queue', v) /\ Once(queue', v)
      /\ "none" \notin Open /\ \A s : s \in Over => s \notin Open
  <2> DEFINE T == {u \in Tasks : doc[u] \in Interrupted}
  <2>1. queue' = SetToSeq({<<u, "failed">> : u \in T})
    BY DEF Start
  <2>2. /\ queue' \in Seq(Writes)
        /\ \A v \in Tasks : /\ \A S : Says(queue', v, S) <=> v \in T /\ "failed" \in S
                            /\ Follows(queue', v) /\ NoReturn(queue', v) /\ Once(queue', v)
    BY <2>1, FailedSaid
  <2>3. /\ "failed" \notin Open /\ "failed" \in Final /\ "failed" \notin Completed
        /\ "failed" \notin Flush /\ "none" \notin Open /\ Interrupted = Open
        /\ \A s : s \in Over => s \notin Open
    BY DEF Open, Over, Final, Completed, Flush, Results, Interrupted
  <2>4. QED
    BY <2>2, <2>3
<1>3. (Orderly' => Orderly) /\ (InTime' => InTime) /\ (Housed' => Housed)
  BY <1>1, UpsetsGrow
<1>4. TypeOK'
  BY <1>1, <1>2, <1>3 DEF TypeOK, At, Positions, Goals, Marks, Writes, Words, Trees, Sweeps
<1>5. Worktrees'
  BY <1>1, <1>2, <1>3 DEF Worktrees, At
<1>6. Swept'
  BY <1>1, <1>2, <1>3 DEF Swept
<1>7. Stops'
  BY <1>1, <1>2, <1>3 DEF Stops, Stopping, At
<1>8. Runs'
  BY <1>1, <1>2, <1>3 DEF Runs, Going, At
<1>9. Alone'
  BY <1>1, <1>2, <1>3 DEF Alone, Going, Stopping, At
<1>10. Safe'
  <2> SUFFICES ASSUME Orderly', NEW v \in Tasks
               PROVE  SafeOf(v)'
    BY DEF Safe
  <2>1. Orderly /\ SafeOf(v)
    BY <1>1, <1>2, <1>3 DEF Safe
  <2>2. QED
    BY <2>1, <1>1, <1>2, <1>3 DEF SafeOf, At
<1>11. Unstopped'
  BY <1>1, <1>2, <1>3 DEF Unstopped, At
<1>12. Told'
  <2> SUFFICES ASSUME Orderly', Housed', NEW v \in Tasks
               PROVE  ToldOf(v)'
    BY DEF Told
  <2>1. Orderly /\ Housed /\ ToldOf(v)
    BY <1>1, <1>2, <1>3 DEF Told
  <2>2. QED
    BY <2>1, <1>1, <1>2, <1>3 DEF ToldOf, Settled, At, Going, Runs
<1>13. QED
  BY <1>4, <1>5, <1>6, <1>7, <1>8, <1>9, <1>10, <1>11, <1>12

LEMMA CleanupKeeps ==
  ASSUME CodeTaskInv, Cleanup
  PROVE  CodeTaskInv'
<1> USE DEF CodeTaskInv
<1>1. /\ sweep'.found = {}
      /\ sweep' \in Sweeps
      /\ upset' \subseteq Upsets /\ Cardinality(upset') <= MaxUpsets
      /\ (Orderly' => Orderly) /\ (InTime' => InTime) /\ (Housed' => Housed)
      /\ doc' = doc /\ queue' = queue /\ tree' = tree /\ active' = active /\ held' = held
      /\ pc' = pc /\ again' = again /\ key' = key /\ stopped' = stopped /\ asked' = asked
      /\ integrates' = integrates /\ up' = up /\ starts' = starts /\ left' = left
      /\ planned' = planned /\ lost' = lost
  <2>1. Happens("cleanup")
    BY DEF Cleanup
  <2>2. /\ upset' = upset \cup {"cleanup"} /\ upset' \subseteq Upsets
        /\ Cardinality(upset') <= MaxUpsets
    BY <2>1, TypedIs, HappensIs
  <2>3. sweep' = [phase |-> "scan", spared |-> {}, found |-> {}]
    BY DEF Cleanup, Asleep
  <2>4. sweep' \in Sweeps /\ sweep'.found = {}
    BY <2>3, SweepIs
  <2>5. QED
    BY <2>2, <2>4, UpsetsGrow DEF Cleanup
<1>2. TypeOK'
  BY <1>1 DEF TypeOK, At, Positions, Goals, Marks, Writes, Words, Trees, Sweeps
<1>3. Worktrees'
  BY <1>1 DEF Worktrees, At
<1>4. Swept'
  BY <1>1 DEF Swept
<1>5. Stops'
  BY <1>1 DEF Stops, Stopping, At
<1>6. Runs'
  BY <1>1 DEF Runs, Going, At
<1>7. Alone'
  BY <1>1 DEF Alone, Going, Stopping, At
<1>8. Safe'
  <2> SUFFICES ASSUME Orderly', NEW v \in Tasks
               PROVE  SafeOf(v)'
    BY DEF Safe
  <2>1. Orderly /\ SafeOf(v)
    BY <1>1 DEF Safe
  <2>2. QED
    BY <2>1, <1>1 DEF SafeOf, At
<1>9. Unstopped'
  BY <1>1 DEF Unstopped, At
<1>10. Told'
  <2> SUFFICES ASSUME Orderly', Housed', NEW v \in Tasks
               PROVE  ToldOf(v)'
    BY DEF Told
  <2>1. Orderly /\ Housed /\ ToldOf(v)
    BY <1>1 DEF Told
  <2>2. QED
    BY <2>1, <1>1 DEF ToldOf, Settled, At
<1>11. QED
  BY <1>2, <1>3, <1>4, <1>5, <1>6, <1>7, <1>8, <1>9, <1>10

\* The sweep looks at the documents,
LEMMA SweepScansKeeps ==
  ASSUME CodeTaskInv, SweepScans
  PROVE  CodeTaskInv'
<1> USE DEF CodeTaskInv
<1>1. /\ sweep' \in Sweeps
      /\ sweep'.found = sweep.found
      /\ doc' = doc /\ queue' = queue /\ tree' = tree /\ active' = active /\ held' = held
      /\ pc' = pc /\ again' = again /\ key' = key /\ stopped' = stopped /\ asked' = asked
      /\ integrates' = integrates /\ up' = up /\ starts' = starts /\ upset' = upset
      /\ left' = left /\ planned' = planned /\ lost' = lost
  <2>1. /\ sweep = [phase |-> sweep.phase, spared |-> sweep.spared, found |-> sweep.found]
        /\ sweep.spared \subseteq Tasks /\ sweep.found \subseteq Tasks
        /\ sweep.phase \in {"none", "scan", "list", "remove"}
    BY DEF TypeOK
  <2> DEFINE S == {u \in Tasks : doc[u] \notin Terminal \cup {"paused", "none"}}
  <2>2. sweep' = [phase |-> "list", spared |-> S, found |-> sweep.found]
    BY <2>1 DEF SweepScans
  <2>3. S \in SUBSET Tasks
    OBVIOUS
  <2> HIDE DEF S
  <2>4. sweep' \in Sweeps /\ sweep'.found = sweep.found
    BY <2>1, <2>2, <2>3, SweepIs
  <2>5. QED
    BY <2>4 DEF SweepScans, past
<1>2. (Orderly' => Orderly) /\ (InTime' => InTime) /\ (Housed' => Housed)
  BY <1>1, UpsetsGrow
<1>3. TypeOK'
  BY <1>1, <1>2 DEF TypeOK, At, Positions, Goals, Marks, Writes, Words, Trees, Sweeps
<1>4. Worktrees'
  BY <1>1, <1>2 DEF Worktrees, At
<1>5. Swept'
  BY <1>1, <1>2 DEF Swept
<1>6. Stops'
  BY <1>1, <1>2 DEF Stops, Stopping, At
<1>7. Runs'
  BY <1>1, <1>2 DEF Runs, Going, At
<1>8. Alone'
  BY <1>1, <1>2 DEF Alone, Going, Stopping, At
<1>9. Safe'
  <2> SUFFICES ASSUME Orderly', NEW v \in Tasks
               PROVE  SafeOf(v)'
    BY DEF Safe
  <2>1. Orderly /\ SafeOf(v)
    BY <1>1, <1>2 DEF Safe
  <2>2. QED
    BY <2>1, <1>1, <1>2 DEF SafeOf, At
<1>10. Unstopped'
  BY <1>1, <1>2 DEF Unstopped, At
<1>11. Told'
  <2> SUFFICES ASSUME Orderly', Housed', NEW v \in Tasks
               PROVE  ToldOf(v)'
    BY DEF Told
  <2>1. Orderly /\ Housed /\ ToldOf(v)
    BY <1>1, <1>2 DEF Told
  <2>2. QED
    BY <2>1, <1>1, <1>2 DEF ToldOf, Settled, At
<1>12. QED
  BY <1>3, <1>4, <1>5, <1>6, <1>7, <1>8, <1>9, <1>10, <1>11

\* then for the worktrees that have no changes,
LEMMA SweepListsKeeps ==
  ASSUME CodeTaskInv, SweepLists
  PROVE  CodeTaskInv'
<1> USE DEF CodeTaskInv
<1>1. /\ sweep' \in Sweeps
      /\ \A u \in sweep'.found : tree[u] # "dirty"
      /\ doc' = doc /\ queue' = queue /\ tree' = tree /\ active' = active /\ held' = held
      /\ pc' = pc /\ again' = again /\ key' = key /\ stopped' = stopped /\ asked' = asked
      /\ integrates' = integrates /\ up' = up /\ starts' = starts /\ upset' = upset
      /\ left' = left /\ planned' = planned /\ lost' = lost
  <2>1. /\ sweep = [phase |-> sweep.phase, spared |-> sweep.spared, found |-> sweep.found]
        /\ sweep.spared \subseteq Tasks /\ sweep.found \subseteq Tasks
        /\ sweep.phase \in {"none", "scan", "list", "remove"}
    BY DEF TypeOK
  <2> DEFINE L == Leftover(sweep.spared)
  <2>2. \/ sweep' = [phase |-> "none", spared |-> {}, found |-> {}]
        \/ sweep' = [phase |-> "remove", spared |-> sweep.spared, found |-> L]
    BY <2>1 DEF SweepLists, Asleep
  <2>3. L \in SUBSET Tasks /\ \A u \in L : tree[u] # "dirty"
    BY DEF Leftover, HasChanges
  <2> HIDE DEF L
  <2>4. sweep' \in Sweeps /\ \A u \in sweep'.found : tree[u] # "dirty"
    BY <2>1, <2>2, <2>3, SweepIs
  <2>5. QED
    BY <2>4 DEF SweepLists, past
<1>2. (Orderly' => Orderly) /\ (InTime' => InTime) /\ (Housed' => Housed)
  BY <1>1, UpsetsGrow
<1>3. TypeOK'
  BY <1>1, <1>2 DEF TypeOK, At, Positions, Goals, Marks, Writes, Words, Trees, Sweeps
<1>4. Worktrees'
  BY <1>1, <1>2 DEF Worktrees, At
<1>5. Swept'
  BY <1>1, <1>2 DEF Swept
<1>6. Stops'
  BY <1>1, <1>2 DEF Stops, Stopping, At
<1>7. Runs'
  BY <1>1, <1>2 DEF Runs, Going, At
<1>8. Alone'
  BY <1>1, <1>2 DEF Alone, Going, Stopping, At
<1>9. Safe'
  <2> SUFFICES ASSUME Orderly', NEW v \in Tasks
               PROVE  SafeOf(v)'
    BY DEF Safe
  <2>1. Orderly /\ SafeOf(v)
    BY <1>1, <1>2 DEF Safe
  <2>2. QED
    BY <2>1, <1>1, <1>2 DEF SafeOf, At
<1>10. Unstopped'
  BY <1>1, <1>2 DEF Unstopped, At
<1>11. Told'
  <2> SUFFICES ASSUME Orderly', Housed', NEW v \in Tasks
               PROVE  ToldOf(v)'
    BY DEF Told
  <2>1. Orderly /\ Housed /\ ToldOf(v)
    BY <1>1, <1>2 DEF Told
  <2>2. QED
    BY <2>1, <1>1, <1>2 DEF ToldOf, Settled, At
<1>12. QED
  BY <1>3, <1>4, <1>5, <1>6, <1>7, <1>8, <1>9, <1>10, <1>11

\* and removes them later.
LEMMA SweepRemovesKeeps ==
  ASSUME CodeTaskInv, NEW t \in Tasks, SweepRemoves(t)
  PROVE  CodeTaskInv'
<1> USE DEF CodeTaskInv
<1>1. /\ sweep' \in Sweeps
      /\ sweep'.found \subseteq sweep.found
      /\ tree' \in [Tasks -> Trees] /\ \A u \in Tasks : tree'[u] \in {"none", tree[u]}
      /\ lost' \subseteq Tasks \X {"task", "sweep"}
      /\ \A u \in Tasks : <<u, "task">> \in lost' => <<u, "task">> \in lost
      /\ doc' = doc /\ queue' = queue /\ active' = active /\ held' = held /\ pc' = pc
      /\ again' = again /\ key' = key /\ stopped' = stopped /\ asked' = asked
      /\ integrates' = integrates /\ up' = up /\ starts' = starts /\ upset' = upset
      /\ left' = left /\ planned' = planned
  <2>1. /\ sweep = [phase |-> sweep.phase, spared |-> sweep.spared, found |-> sweep.found]
        /\ sweep.spared \subseteq Tasks /\ sweep.found \subseteq Tasks
        /\ sweep.phase \in {"none", "scan", "list", "remove"}
    BY DEF TypeOK
  <2> DEFINE F == sweep.found \ {t}
  <2>2. \/ sweep' = [phase |-> "none", spared |-> {}, found |-> {}]
        \/ sweep' = [phase |-> sweep.phase, spared |-> sweep.spared, found |-> F]
    BY <2>1 DEF SweepRemoves, Asleep
  <2>3. F \in SUBSET Tasks /\ F \subseteq sweep.found
    BY <2>1
  <2> HIDE DEF F
  <2>4. sweep' \in Sweeps /\ sweep'.found \subseteq sweep.found
    BY <2>1, <2>2, <2>3, SweepIs
  <2>5. tree' \in [Tasks -> Trees] /\ \A u \in Tasks : tree'[u] \in {"none", tree[u]}
    BY TypedIs DEF SweepRemoves, RemoveTree, Trees
  <2>6. lost' \subseteq Tasks \X {"task", "sweep"}
    BY DEF SweepRemoves, RemoveTree, TypeOK
  <2>7. QED
    BY <2>4, <2>5, <2>6 DEF SweepRemoves, past, RemoveTree
<1>2. (Orderly' => Orderly) /\ (InTime' => InTime) /\ (Housed' => Housed)
  BY <1>1, UpsetsGrow
<1>3. TypeOK'
  BY <1>1, <1>2 DEF TypeOK, At, Positions, Goals, Marks, Writes, Words, Trees, Sweeps
<1>4. Worktrees'
  BY <1>1, <1>2 DEF Worktrees, At
<1>5. Swept'
  BY <1>1, <1>2, TypedIs DEF Swept
<1>6. Stops'
  BY <1>1, <1>2 DEF Stops, Stopping, At
<1>7. Runs'
  BY <1>1, <1>2 DEF Runs, Going, At
<1>8. Alone'
  BY <1>1, <1>2 DEF Alone, Going, Stopping, At
<1>9. Safe'
  <2> SUFFICES ASSUME Orderly', NEW v \in Tasks
               PROVE  SafeOf(v)'
    BY DEF Safe
  <2>1. Orderly /\ SafeOf(v)
    BY <1>1, <1>2 DEF Safe
  <2>2. QED
    BY <2>1, <1>1, <1>2 DEF SafeOf, At
<1>10. Unstopped'
  BY <1>1, <1>2 DEF Unstopped, At
<1>11. Told'
  <2> SUFFICES ASSUME Orderly', Housed', NEW v \in Tasks
               PROVE  ToldOf(v)'
    BY DEF Told
  <2>1. Orderly /\ Housed /\ ToldOf(v)
    BY <1>1, <1>2 DEF Told
  <2>2. QED
    BY <2>1, <1>1, <1>2 DEF ToldOf, Settled, At
<1>12. QED
  BY <1>3, <1>4, <1>5, <1>6, <1>7, <1>8, <1>9, <1>10, <1>11

LEMMA NothingKeeps ==
  ASSUME CodeTaskInv, UNCHANGED vars
  PROVE  CodeTaskInv'
<1> USE DEF CodeTaskInv
<1>1. /\ TRUE
      /\ doc' = doc /\ queue' = queue /\ tree' = tree /\ active' = active /\ held' = held
      /\ pc' = pc /\ again' = again /\ key' = key /\ stopped' = stopped /\ asked' = asked
      /\ integrates' = integrates /\ sweep' = sweep /\ up' = up /\ starts' = starts
      /\ upset' = upset /\ left' = left /\ planned' = planned /\ lost' = lost
  BY DEF vars, memory, past
<1>2. (Orderly' => Orderly) /\ (InTime' => InTime) /\ (Housed' => Housed)
  BY <1>1, UpsetsGrow
<1>3. TypeOK'
  BY <1>1, <1>2 DEF TypeOK, At, Positions, Goals, Marks, Writes, Words, Trees
<1>4. Worktrees'
  BY <1>1, <1>2 DEF Worktrees, At
<1>5. Swept'
  BY <1>1, <1>2 DEF Swept
<1>6. Stops'
  BY <1>1, <1>2 DEF Stops, Stopping, At
<1>7. Runs'
  BY <1>1, <1>2 DEF Runs, Going, At
<1>8. Alone'
  BY <1>1, <1>2 DEF Alone, Going, Stopping, At
<1>9. Safe'
  <2> SUFFICES ASSUME Orderly', NEW v \in Tasks
               PROVE  SafeOf(v)'
    BY DEF Safe
  <2>1. Orderly /\ SafeOf(v)
    BY <1>1, <1>2 DEF Safe
  <2>2. QED
    BY <2>1, <1>1, <1>2 DEF SafeOf, At
<1>10. Unstopped'
  BY <1>1, <1>2 DEF Unstopped, At
<1>11. Told'
  <2> SUFFICES ASSUME Orderly', Housed', NEW v \in Tasks
               PROVE  ToldOf(v)'
    BY DEF Told
  <2>1. Orderly /\ Housed /\ ToldOf(v)
    BY <1>1, <1>2 DEF Told
  <2>2. QED
    BY <2>1, <1>1, <1>2 DEF ToldOf, Settled, At
<1>12. QED
  BY <1>3, <1>4, <1>5, <1>6, <1>7, <1>8, <1>9, <1>10, <1>11

LEMMA InitCodeTask ==
  Init => CodeTaskInv
<1> SUFFICES ASSUME Init
             PROVE  CodeTaskInv
  OBVIOUS
<1>1. /\ \A v \in Tasks : /\ \A S : ~Says(queue, v, S)
                          /\ Follows(queue, v) /\ NoReturn(queue, v) /\ Once(queue, v)
      /\ queue \in Seq(Writes)
  BY NothingSaid DEF Init
<1>2. \A v \in Tasks : At(Run(v)) = "idle" /\ At(Stop(v)) = "idle"
  BY AgentsAre DEF Init, Just, At
<1>3. /\ \A v \in Tasks : doc[v] = "none" /\ tree[v] = "none"
      /\ up = FALSE /\ stopped = {} /\ again = {} /\ lost = {} /\ sweep.found = {}
  BY DEF Init, Asleep
<1>4. "none" \notin Open /\ "none" \notin Over
  BY DEF Open, Over
<1>5. TypeOK
  <2>1. pc \in [Agents -> Positions]
    BY DEF Init, Just, Positions, Places, Goals, Marks
  <2>2. sweep \in Sweeps
    BY SweepIs DEF Init, Asleep
  <2>3. upset \subseteq Upsets /\ Cardinality(upset) <= MaxUpsets
    BY FS_EmptySet DEF Init
  <2>4. doc \in [Tasks -> Statuses]
    BY DEF Init, Statuses
  <2>5. /\ tree \in [Tasks -> {"none", "clean", "dirty", "applied"}]
        /\ key \in [Tasks -> Goals] /\ \A t \in Tasks : key[t] = NoTask
        /\ active \in Goals
    BY DEF Init, Goals
  <2>6. /\ held \subseteq Mutating /\ again \subseteq planned /\ stopped \subseteq Tasks
        /\ integrates \subseteq stopped /\ up \in BOOLEAN /\ left \cup planned \subseteq Tasks
        /\ lost \subseteq Tasks \X {"task", "sweep"}
    BY DEF Init
  <2>7. asked \in 0 .. MaxStops /\ starts \in 0 .. MaxStarts
    <3>1. asked = 0 /\ starts = 0
      BY DEF Init
    <3>2. QED
      BY <3>1
  <2>8. QED
    BY <1>1, <2>1, <2>2, <2>3, <2>4, <2>5, <2>6, <2>7
       DEF TypeOK, Positions, Goals, Marks, Writes, Words, Sweeps
<1>6. Worktrees
  BY <1>2, <1>3 DEF Worktrees
<1>7. Swept
  BY <1>3 DEF Swept
<1>8. Stops
  BY <1>1, <1>2 DEF Stops, Stopping
<1>9. Runs
  <2>1. queue = <<>>
    BY DEF Init
  <2>2. QED
    BY <1>2, <2>1 DEF Runs, Going
<1>10. Alone
  BY <1>2, <1>3 DEF Alone, Going, Stopping
<1>11. Safe
  BY <1>1, <1>2, <1>3 DEF Safe, SafeOf
<1>12. Unstopped
  BY <1>2 DEF Unstopped
<1>13. Told
  BY <1>1, <1>2, <1>3, <1>4 DEF Told, ToldOf
<1>14. QED
  BY <1>5, <1>6, <1>7, <1>8, <1>9, <1>10, <1>11, <1>12, <1>13 DEF CodeTaskInv

LEMMA RunStepKeeps ==
  ASSUME CodeTaskInv, NEW t \in Tasks, RunStep(t)
  PROVE  CodeTaskInv'
<1>1. CASE Prepare(t)
  BY <1>1, PrepareKeeps
<1>2. CASE PrepareFails(t)
  BY <1>2, PrepareFailsKeeps
<1>3. CASE StartHarness(t)
  BY <1>3, StartHarnessKeeps
<1>4. CASE Work(t)
  BY <1>4, WorkKeeps
<1>5. CASE \E outcome \in Ends : HarnessEnds(t, outcome)
  BY <1>5, HarnessEndsKeeps
<1>6. CASE HarnessThrows(t)
  BY <1>6, HarnessThrowsAway, HarnessThrowsKeeps
<1>7. CASE Merge(t)
  BY <1>7, MergeNothing, MergeApplies, MergeRefuses DEF Merge
<1>8. CASE Settle(t)
  <2>1. CASE t \notin again /\ active = NoTask
    BY <1>8, <2>1, SettleNobody
  <2>2. CASE t \in again \/ active # NoTask
    <3> DEFINE x == IF t \in again THEN t ELSE active
               r == IF pc[Run(t)].as = "held" THEN "paused" ELSE pc[Run(t)].as
    <3>1. x \in Tasks
      BY <2>2, TypedIs DEF Goals
    <3>2. QED
      BY <1>8, <3>1, SettleKeeps
  <2>3. QED
    BY <2>1, <2>2
<1>9. CASE TidyLooks(Run(t))
  BY <1>9, RunTidyLooks
<1>10. CASE Removes(Run(t))
  BY <1>10, RunRemoves
<1>11. QED
  BY <1>1, <1>2, <1>3, <1>4, <1>5, <1>6, <1>7, <1>8, <1>9, <1>10 DEF RunStep

LEMMA StopStepKeeps ==
  ASSUME CodeTaskInv, NEW t \in Tasks, StopStep(t)
  PROVE  CodeTaskInv'
<1>1. CASE StopFlushes(t)
  BY <1>1, StopFlushesKeeps
<1>2. CASE StopPuts(t)
  BY <1>2, StopPutsKeeps
<1>3. CASE StopMerges(t)
  BY <1>3, StopMergesNothing, StopMergesApplies, StopMergesRefuses DEF StopMerges
<1>4. CASE TidyLooks(Stop(t))
  BY <1>4, StopTidyLooks
<1>5. CASE Removes(Stop(t))
  BY <1>5, StopRemoves
<1>6. QED
  BY <1>1, <1>2, <1>3, <1>4, <1>5 DEF StopStep

LEMMA DrainStepKeeps ==
  ASSUME CodeTaskInv, Drain
  PROVE  CodeTaskInv'
<1> DEFINE t == Head(queue)[1]
           what == Head(queue)[2]
<1>1. Head(queue) \in Writes
  BY TypedIs, SaysLess DEF Drain
<1>2. t \in Tasks /\ what \in Words /\ NextIs(t, what)
  BY <1>1 DEF Writes, NextIs
<1> HIDE DEF t, what
<1>3. QED
  BY <1>2, DrainFlushes, DrainKeeps

LEMMA StepCodeTask ==
  CodeTaskInv /\ [Next]_vars => CodeTaskInv'
<1> SUFFICES ASSUME CodeTaskInv, [Next]_vars
             PROVE  CodeTaskInv'
  OBVIOUS
<1>1. CASE Drain
  BY <1>1, DrainStepKeeps
<1>2. CASE EndSession \/ Exit \/ Start \/ Cleanup
  BY <1>2, EndSessionKeeps, ExitKeeps, StartKeeps, CleanupKeeps
<1>3. CASE SweepStep
  BY <1>3, SweepScansKeeps, SweepListsKeeps, SweepRemovesKeeps DEF SweepStep
<1>4. ASSUME NEW t \in Tasks, Begin(t) \/ Resume(t) \/ RunStep(t)
      PROVE  CodeTaskInv'
  BY <1>4, BeginKeeps, ResumeKeeps, RunStepKeeps
<1>5. ASSUME NEW t \in Tasks, StopStep(t) \/ StopExpires(t)
      PROVE  CodeTaskInv'
  BY <1>5, StopStepKeeps, StopExpiresKeeps
<1>6. ASSUME NEW t \in Tasks, NEW byClock \in BOOLEAN, AskStop(t, byClock)
      PROVE  CodeTaskInv'
  BY <1>6, AskStopAnswered, AskStopKeeps
<1>7. CASE UNCHANGED vars
  BY <1>7, NothingKeeps
<1>8. QED
  BY <1>1, <1>2, <1>3, <1>4, <1>5, <1>6, <1>7 DEF Next

-----------------------------------------------------------------------------
(* The properties *)

\* The parts of the record: the invariant says more of the writes that still wait.
LEMMA RecordFollows ==
  CodeTaskInv => RecordIsTrue
<1> SUFFICES ASSUME CodeTaskInv
             PROVE  RecordIsTrue
  OBVIOUS
<1>1. CompletedIsApplied
  BY DEF CodeTaskInv, CompletedIsApplied, Safe, SafeOf, Orderly
<1>2. SettledWhenOver
  <2> SUFFICES ASSUME up, queue = <<>>, Without({"prepare", "overlap", "switch", "resume"}),
                      NEW t \in Tasks, At(Run(t)) = "over", ~Stopping(t),
                      ~(t \in stopped /\ At(Stop(t)) = "idle")
               PROVE  doc[t] \notin {"pending", "planning"}
    BY DEF SettledWhenOver
  <2>1. Orderly /\ Housed
    BY DEF Orderly, Housed, Without
  <2>2. ToldOf(t)
    BY <2>1 DEF CodeTaskInv, Told
  <2>3. At(Stop(t)) = "done" \/ t \notin stopped
    BY DEF Stopping
  <2>4. Settled(t)
    BY <2>2, <2>3 DEF ToldOf, Settled
  <2>5. ~Says(queue, t, Final)
    BY NothingSaid
  <2>6. QED
    BY <2>4, <2>5 DEF Settled, Open
<1>3. QED
  BY <1>1, <1>2 DEF CodeTaskInv, RecordIsTrue

\* Who writes the documents, and who touches the worktrees.
LEMMA WhatChanges ==
  ASSUME Next
  PROVE  /\ doc' = doc \/ Drain \/ \E t \in Tasks : StopPuts(t)
         /\ \/ tree' = tree /\ lost' = lost
            \/ /\ lost' = lost
               /\ \E t \in Tasks : Prepare(t) \/ Work(t) \/ Merge(t) \/ StopMerges(t)
            \/ \E a \in Agents : Removes(a)
            \/ \E t \in Tasks : SweepRemoves(t)
<1> DEFINE Documents == doc' = doc \/ Drain \/ \E t \in Tasks : StopPuts(t)
           Touched == \/ tree' = tree /\ lost' = lost
                     \/ /\ lost' = lost
                        /\ \E t \in Tasks : Prepare(t) \/ Work(t) \/ Merge(t) \/ StopMerges(t)
                     \/ \E a \in Agents : Removes(a)
                     \/ \E t \in Tasks : SweepRemoves(t)
<1>1. CASE Drain \/ EndSession \/ Exit \/ Start \/ Cleanup
  BY <1>1 DEF Drain, EndSession, Exit, Start, Cleanup, past
<1>2. CASE SweepStep
  BY <1>2 DEF SweepStep, SweepScans, SweepLists, SweepRemoves, past
<1>3. ASSUME NEW t \in Tasks, Begin(t) \/ Resume(t) \/ StopExpires(t)
      PROVE  Documents /\ Touched
  BY <1>3 DEF Begin, Resume, StopExpires
<1>4. ASSUME NEW t \in Tasks, RunStep(t)
      PROVE  Documents /\ Touched
  <2>1. CASE Prepare(t) \/ Work(t) \/ Merge(t)
    BY <2>1 DEF Prepare, Work, Merge, past
  <2>2. CASE PrepareFails(t) \/ StartHarness(t) \/ HarnessThrows(t) \/ Settle(t)
    BY <2>2 DEF PrepareFails, StartHarness, HarnessThrows, Settle, past
  <2>3. CASE \E outcome \in Ends : HarnessEnds(t, outcome)
    BY <2>3 DEF HarnessEnds, past
  <2>4. CASE TidyLooks(Run(t))
    BY <2>4 DEF TidyLooks, past
  <2>5. CASE Removes(Run(t))
    BY <2>5, AgentsAre DEF Removes
  <2>6. QED
    BY <1>4, <2>1, <2>2, <2>3, <2>4, <2>5 DEF RunStep
<1>5. ASSUME NEW t \in Tasks, StopStep(t)
      PROVE  Documents /\ Touched
  <2>1. CASE StopFlushes(t) \/ StopMerges(t)
    BY <2>1 DEF StopFlushes, StopMerges, past
  <2>2. CASE StopPuts(t)
    BY <2>2 DEF StopPuts, past
  <2>3. CASE TidyLooks(Stop(t))
    BY <2>3 DEF TidyLooks, past
  <2>4. CASE Removes(Stop(t))
    BY <2>4, AgentsAre DEF Removes
  <2>5. QED
    BY <1>5, <2>1, <2>2, <2>3, <2>4 DEF StopStep
<1>6. ASSUME NEW t \in Tasks, NEW byClock \in BOOLEAN, AskStop(t, byClock)
      PROVE  Documents /\ Touched
  BY <1>6 DEF AskStop
<1>7. QED
  BY <1>1, <1>2, <1>3, <1>4, <1>5, <1>6 DEF Next

LEMMA CancelledStep ==
  ASSUME CodeTaskInv, Next, NEW t \in Tasks, doc[t] = "cancelled"
  PROVE  doc'[t] = "cancelled"
<1>1. doc \in [Tasks -> Statuses]
  BY DEF CodeTaskInv, TypeOK
<1>2. CASE Drain
  BY <1>1, <1>2 DEF Drain, Patched
<1>3. CASE \E u \in Tasks : StopPuts(u)
  BY <1>1, <1>3 DEF StopPuts
<1>4. QED
  BY <1>2, <1>3, WhatChanges

LEMMA SweepStepIs ==
  ASSUME CodeTaskInv, Next, NEW t \in Tasks, <<t, "sweep">> \in lost', <<t, "sweep">> \notin lost
  PROVE  t \in held
<1>1. CASE \E a \in Agents : Removes(a)
  BY <1>1 DEF Removes, RemoveTree
<1>2. CASE \E u \in Tasks : SweepRemoves(u)
  <2>1. PICK u \in Tasks : SweepRemoves(u)
    BY <1>2
  <2>2. u = t /\ tree[t] = "dirty" /\ t \in sweep.found
    BY <2>1 DEF SweepRemoves, RemoveTree
  <2>3. QED
    BY <2>2 DEF CodeTaskInv, Swept
<1>3. QED
  BY <1>1, <1>2, WhatChanges

LEMMA ApplyStep ==
  ASSUME CodeTaskInv, Next, Orderly, InTime, NEW t \in stopped \ integrates,
         tree[t] = "dirty", tree'[t] = "applied"
  PROVE  FALSE
<1>1. t \in Tasks /\ tree \in [Tasks -> Trees]
  BY TypedIs
<1>2. ASSUME NEW u \in Tasks, Merge(u)
      PROVE  FALSE
  <2>1. At(Run(u)) = "applying" /\ pc[Run(u)].goal = u /\ u \notin stopped
    BY <1>2 DEF CodeTaskInv, Alone, Unstopped, Merge
  <2>2. tree'[t] = tree[t]
    BY <1>1, <1>2, <2>1 DEF Merge, NothingToApply, Apply, NotApplied
  <2>3. QED
    BY <2>2
<1>3. ASSUME NEW u \in Tasks, StopMerges(u)
      PROVE  FALSE
  <2>1. u \in integrates
    BY <1>3 DEF CodeTaskInv, Stops, StopMerges
  <2>2. tree'[t] = tree[t]
    BY <1>1, <1>3, <2>1 DEF StopMerges, NothingToApply, Apply, NotApplied
  <2>3. QED
    BY <2>2
<1>4. ASSUME NEW u \in Tasks, Prepare(u) \/ Work(u)
      PROVE  FALSE
  BY <1>1, <1>4 DEF Prepare, Work
<1>5. CASE (\E a \in Agents : Removes(a)) \/ \E u \in Tasks : SweepRemoves(u)
  BY <1>1, <1>5 DEF Removes, SweepRemoves, RemoveTree
<1>6. QED
  BY <1>2, <1>3, <1>4, <1>5, WhatChanges

-----------------------------------------------------------------------------
(* The theorems *)

\* The inductive invariant: what every behaviour of the coordinator, its stops, its sessions and
\* its processes keeps true (coordinator-manager.ts, scribe, workspace-manager.ts).
THEOREM CodeTaskCorrect ==
  Spec => []CodeTaskInv
<1>1. QED
  BY InitCodeTask, StepCodeTask, PTL DEF Spec

\* What is recorded of a task is so, for any number of tasks, stops and processes: a task that is
\* recorded as completed has no work that did not reach the project, and one that is over is not
\* recorded as going when the scribe has nothing left to write (runTask, cancelTask, the scribe).
THEOREM TheRecordIsTrue ==
  Spec => []RecordIsTrue
<1>1. QED
  BY CodeTaskCorrect, RecordFollows, PTL

\* Work that did not reach the project is destroyed by nobody: neither by cleanupTaskWorkspace of
\* a run or of a stop, nor by the sweep of leftovers for the work of an earlier process.
THEOREM WorkIsNeverLost ==
  Spec => NoWorkLost
<1>1. CodeTaskInv /\ CodeTaskInv' /\ [Next]_vars => [WorkIsKept' /\ SweepKeepsOldWork]_vars
  <2> SUFFICES ASSUME CodeTaskInv, CodeTaskInv', Next
               PROVE  WorkIsKept' /\ SweepKeepsOldWork
    OBVIOUS
  <2>1. WorkIsKept'
    BY DEF CodeTaskInv, WorkIsKept, Safe, SafeOf, Orderly
  <2>2. SweepKeepsOldWork
    BY SweepStepIs DEF SweepKeepsOldWork
  <2>3. QED
    BY <2>1, <2>2
<1>2. QED
  BY <1>1, CodeTaskCorrect, PTL DEF Spec, NoWorkLost

\* A task that was recorded as cancelled is never recorded as anything else, by no write that was
\* queued before, no run that ends later and no later process (updateTaskStatus, the scribe).
THEOREM CancelledForGood ==
  Spec => CancelledStays
<1>1. CodeTaskInv /\ [Next]_vars =>
        [\A t \in Tasks : doc[t] = "cancelled" => doc'[t] = "cancelled"]_vars
  BY CancelledStep
<1>2. QED
  BY <1>1, CodeTaskCorrect, PTL DEF Spec, CancelledStays

\* The work of a task that a person stopped in time does not reach the project (cancelTask against
\* integrateTaskWorkspace of the run that it stops).
THEOREM StoppedStaysOut ==
  Spec => StoppedIsNotApplied
<1>1. CodeTaskInv /\ [Next]_vars =>
        [Without({"late", "overlap", "switch", "resume"}) =>
           \A t \in stopped \ integrates : ~(tree[t] = "dirty" /\ tree'[t] = "applied")]_vars
  <2> SUFFICES ASSUME CodeTaskInv, Next, Without({"late", "overlap", "switch", "resume"}),
                      NEW t \in stopped \ integrates, tree[t] = "dirty", tree'[t] = "applied"
               PROVE  FALSE
    OBVIOUS
  <2>1. Orderly /\ InTime
    BY DEF Orderly, InTime, Without
  <2>2. QED
    BY <2>1, ApplyStep
<1>2. QED
  BY <1>1, CodeTaskCorrect, PTL DEF Spec, StoppedIsNotApplied
=============================================================================
