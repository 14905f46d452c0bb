---------------------------- MODULE ToolApproval ----------------------------
(***************************************************************************)
(* How a tool call, or a gate of the harness, is put to a person and how   *)
(* the answer comes back: agent/tool-approval.ts, with the two things that *)
(* ask, the terminal UI (tui-launcher.ts) and the Telegram bot             *)
(* (channels/telegram.ts).  A request is a promise that is resolved by an  *)
(* answer, by the abort of its run, by the end of the UI, and on Telegram  *)
(* also by a timer, by a message that could not be sent and by the stop of *)
(* the bot.  A refused call is remembered for its task, so that the same   *)
(* call is refused again without asking.                                   *)
(*                                                                         *)
(* The code between two awaits runs to its end, so each action here is     *)
(* the whole of one callback.                                              *)
(*                                                                         *)
(* Init, Next, vars, Spec and TypeOK bear the name of the approval, so     *)
(* that a module can speak of it and of another component at once.         *)
(***************************************************************************)
EXTENDS Naturals, Sequences, SequencesExt, FiniteSets

CONSTANTS
  Requests,     \* calls of requestToolApproval; a request is its own id
  Calls,        \* scope, tool and detail of a call: the key of its refusals
  DeclinedMax,  \* DECLINED_MAX
  MaxRestarts   \* bound: starts and stops of the UI and of the bot

Askers == {"tui", "telegram"}
None   == "none"

ASSUME ApprovalAssumption ==
  /\ IsFiniteSet(Requests) /\ None \notin Calls
  /\ DeclinedMax \in Nat \ {0} /\ MaxRestarts \in Nat

VARIABLES
  registered,  \* askers that are registered
  chat,        \* the bot is paired: it knows whom to write to
  pending,     \* requests whose promise is open, and their finish function
  result,      \* request -> what its promise resolved to
  call,        \* request -> the call it asks for
  asker,       \* request -> who was asked
  aborted,     \* requests whose run was aborted
  declined,    \* the refused calls, oldest first
  entries,     \* toolApprovals of the bot: requests with a timer
  sending,     \* requests whose Telegram message is on its way
  shown,       \* requests a person can see: a modal of the UI, or a message
  pressed,     \* request -> answers a person gave to it
  restarts,    \* starts and stops so far
  last         \* history: the call refused last, since the UI ended

approvalVars ==
  <<registered, chat, pending, result, call, asker, aborted, declined, entries,
    sending, shown, pressed, restarts, last>>

ApprovalTypeOK ==
  /\ registered \subseteq Askers /\ chat \in BOOLEAN
  /\ pending \subseteq Requests
  /\ result \in [Requests -> {"unasked", "waiting", "yes", "no"}]
  /\ call \in [Requests -> Calls \cup {None}]
  /\ asker \in [Requests -> Askers \cup {None}]
  /\ aborted \subseteq Requests
  /\ declined \in Seq(Calls) /\ Len(declined) <= DeclinedMax
  /\ IsInjective(declined)
  /\ entries \subseteq Requests /\ sending \subseteq Requests
  /\ shown \subseteq Requests
  /\ pressed \in [Requests -> SUBSET {"yes", "no"}]
  /\ restarts \in 0..MaxRestarts /\ last \in Calls \cup {None}

ApprovalInit ==
  /\ registered = {} /\ chat \in BOOLEAN
  /\ pending = {}
  /\ result = [r \in Requests |-> "unasked"]
  /\ call = [r \in Requests |-> None]
  /\ asker = [r \in Requests |-> None]
  /\ aborted = {}
  /\ declined = << >>
  /\ entries = {} /\ sending = {} /\ shown = {}
  /\ pressed = [r \in Requests |-> {}]
  /\ restarts = 0 /\ last = None

-----------------------------------------------------------------------------
(* The memory of refused calls, and finish. *)

\* A Set keeps the order of insertion; the oldest leaves when it is full.
Added(memory, k) == IF Contains(memory, k) THEN memory ELSE Append(memory, k)
EvictedLate(memory) == IF Len(memory) > DeclinedMax THEN Tail(memory) ELSE memory
Evicted(memory) == IF Len(memory) >= DeclinedMax THEN Tail(memory) ELSE memory
AddThenEvict(memory, k) == Evicted(Added(memory, k))
Remembered(memory, k) == Added(Evicted(memory), k)

\* finish(answer) of the requests in S: they wait no more.
Finish(S, answer) ==
  /\ pending' = pending \ S
  /\ result' = [r \in Requests |-> IF r \in S THEN answer ELSE result[r]]

\* A refusal is remembered unless the run was aborted.
Refusal(k) == declined' = Remembered(declined, k) /\ last' = k

\* resolveToolApproval: an id that is no longer waiting is left alone.
Resolve(r, answer) ==
  \/ /\ r \in pending
     /\ Finish({r}, answer)
     /\ IF answer = "no" /\ r \notin aborted THEN Refusal(call[r])
                                            ELSE UNCHANGED <<declined, last>>
  \/ r \notin pending /\ UNCHANGED <<pending, result, declined, last>>

-----------------------------------------------------------------------------
(* Asking. *)

\* The asker of the channel of the run, or else the UI.
AskerFor(channel) ==
  IF channel = "telegram" /\ "telegram" \in registered THEN "telegram"
  ELSE IF "tui" \in registered THEN "tui" ELSE None

\* requestToolApproval, with the asker's callback, which runs before it returns.
Refuse(r) ==
  /\ result' = [result EXCEPT ![r] = "no"]
  /\ UNCHANGED <<pending, asker, declined, entries, sending, shown, last>>

AskTui(r) ==
  /\ pending' = pending \cup {r}
  /\ result' = [result EXCEPT ![r] = "waiting"]
  /\ asker' = [asker EXCEPT ![r] = "tui"]
  /\ shown' = shown \cup {r}
  /\ UNCHANGED <<declined, entries, sending, last>>

AnswerWithoutChatLikePhases == "yes"   \* what sendApprovalRequest does
AnswerWithoutChat == "no"

\* askToolApproval: without a chat the request is refused on the spot.
AskTelegram(r, k) ==
  /\ asker' = [asker EXCEPT ![r] = "telegram"]
  /\ IF chat
     THEN /\ pending' = pending \cup {r}
          /\ result' = [result EXCEPT ![r] = "waiting"]
          /\ entries' = entries \cup {r}
          /\ sending' = sending \cup {r}
          /\ UNCHANGED <<declined, last>>
     ELSE /\ result' = [result EXCEPT ![r] = AnswerWithoutChat]
          /\ Refusal(k)
          /\ UNCHANGED <<pending, entries, sending>>
  /\ UNCHANGED shown

\* Which requests are put to a person at all.
KnownRefusal(k) == Contains(declined, k)

Request(r, k, channel) ==
  /\ result[r] = "unasked"
  /\ call' = [call EXCEPT ![r] = k]
  /\ IF AskerFor(channel) = None \/ r \in aborted \/ KnownRefusal(k)
     THEN Refuse(r)
     ELSE IF AskerFor(channel) = "tui" THEN AskTui(r) ELSE AskTelegram(r, k)
  /\ UNCHANGED <<registered, chat, aborted, pressed, restarts>>

-----------------------------------------------------------------------------
(* Answers. *)

\* The signal of the run: a listener while the request waits, a check before.
Abort(r) ==
  /\ r \notin aborted
  /\ aborted' = aborted \cup {r}
  /\ IF r \in pending THEN Finish({r}, "no") ELSE UNCHANGED <<pending, result>>
  /\ UNCHANGED <<registered, chat, call, asker, declined, entries, sending, shown,
                 pressed, restarts, last>>

\* The person answers the modal of the UI: it may be one that waits no more.
AnswerTui(r, answer) ==
  /\ r \in shown /\ asker[r] = "tui" /\ "tui" \in registered
  /\ Resolve(r, answer)
  /\ pressed' = [pressed EXCEPT ![r] = @ \cup {answer}]
  /\ shown' = shown \ {r}
  /\ UNCHANGED <<registered, chat, call, asker, aborted, entries, sending, restarts>>

\* The message got to the chat, with its buttons.
Delivered(r) ==
  /\ r \in sending
  /\ sending' = sending \ {r}
  /\ shown' = shown \cup {r}
  /\ UNCHANGED <<registered, chat, pending, result, call, asker, aborted, declined,
                 entries, pressed, restarts, last>>

\* The message could not be sent.
Undelivered(r) ==
  /\ r \in sending
  /\ sending' = sending \ {r}
  /\ Resolve(r, "no")
  /\ entries' = entries \ {r}
  /\ UNCHANGED <<registered, chat, call, asker, aborted, shown, pressed, restarts>>

\* A button of a message, also of one that was answered before.
Press(r, answer) ==
  /\ r \in shown /\ asker[r] = "telegram" /\ "telegram" \in registered
  /\ Resolve(r, answer)
  /\ pressed' = [pressed EXCEPT ![r] = @ \cup {answer}]
  /\ entries' = entries \ {r}
  /\ UNCHANGED <<registered, chat, call, asker, aborted, sending, shown, restarts>>

\* Nobody answered for thirty minutes.
ExpiredOnceShown(r) == r \in entries /\ r \in shown
Expired(r) == r \in entries
Timeout(r) ==
  /\ Expired(r)
  /\ Resolve(r, "no")
  /\ entries' = entries \ {r}
  /\ UNCHANGED <<registered, chat, call, asker, aborted, sending, shown, pressed, restarts>>

-----------------------------------------------------------------------------
(* The askers come and go. *)

Restart ==
  /\ restarts < MaxRestarts
  /\ restarts' = restarts + 1
  /\ UNCHANGED <<chat, call, asker, aborted, pressed>>

Register(a) ==
  /\ a \notin registered
  /\ registered' = registered \cup {a}
  /\ Restart
  /\ UNCHANGED <<pending, result, declined, entries, sending, shown, last>>

\* The UI process ended: everything that waits is refused, whoever was asked,
\* and the refusals are forgotten.
NobodyWaits(waiting) == {}
RefusedByExit(waiting) == waiting
TuiExit ==
  /\ "tui" \in registered
  /\ registered' = registered \ {"tui"}
  /\ Restart
  /\ Finish(RefusedByExit(pending), "no")
  /\ declined' = << >> /\ last' = None
  /\ shown' = {r \in shown : asker[r] # "tui"}
  /\ UNCHANGED <<entries, sending>>

\* The memory after each of the refusals in order.
Memories(order) ==
  LET memory[i \in 0 .. Len(order)] ==
        IF i = 0 THEN declined ELSE Remembered(memory[i - 1], call[order[i]])
  IN  memory

\* stop of the bot: what it had asked is refused. The order is that of asking;
\* the model does not keep it and takes any.
TelegramStop ==
  /\ "telegram" \in registered
  /\ registered' = registered \ {"telegram"}
  /\ Restart
  /\ Finish(entries \cap pending, "no")
  /\ \E order \in SetToSeqs((entries \cap pending) \ aborted) :
       /\ declined' = Memories(order)[Len(order)]
       /\ last' = IF order = << >> THEN last ELSE call[Last(order)]
  /\ entries' = {}
  /\ UNCHANGED <<sending, shown>>

Answer(r) ==
  \E a \in {"yes", "no"} : AnswerTui(r, a) \/ Press(r, a)

ApprovalNext ==
  \/ \E r \in Requests :
       \/ \E k \in Calls, channel \in {"console", "telegram"} : Request(r, k, channel)
       \/ Abort(r) \/ Answer(r) \/ Delivered(r) \/ Undelivered(r) \/ Timeout(r)
  \/ \E a \in Askers : Register(a)
  \/ TuiExit \/ TelegramStop

ApprovalSpec == ApprovalInit /\ [][ApprovalNext]_approvalVars

\* Timers fire; a person need not answer, and a message may be for ever on
\* its way.
FairApprovalSpec == ApprovalSpec /\ \A r \in Requests : WF_approvalVars(Timeout(r))

-----------------------------------------------------------------------------
(* Properties. *)

\* A request that waits can still be answered: the UI that shows it is there,
\* or the bot holds its timer. A start, stop or exit of either asker, and a
\* message that fails to be sent, never leave a run waiting on nobody.
PendingIsReachable ==
  \A r \in pending :
    \/ asker[r] = "tui" /\ "tui" \in registered /\ r \in shown
    \/ asker[r] = "telegram" /\ "telegram" \in registered /\ r \in entries

\* A call is carried out only if a person said yes to that very request: every
\* way in which a request ends without an answer ends it with a refusal.
ApprovedByPerson ==
  \A r \in Requests : result[r] = "yes" => "yes" \in pressed[r]

\* The call refused last is not put to anybody again, however full the memory
\* of refusals is and in whatever order twins of the call were answered.
RefusedIsNotAskedAgain ==
  [][\A r \in Requests :
       (result[r] = "unasked" /\ result'[r] = "waiting") => call'[r] # last]_approvalVars

\* A request put to the bot ends, whether or not its message is delivered and
\* whether or not anybody looks at the phone.
TelegramEnds ==
  \A r \in Requests :
    (asker[r] = "telegram" /\ result[r] = "waiting") ~> (result[r] \in {"yes", "no"})
=============================================================================
