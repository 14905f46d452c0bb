------------------------------- MODULE McpServers -------------------------------
(* One MCP server between its row in the database, the persons who edit the row or switch the
   server, the pass that hot reload makes over the rows every two seconds, and the manager,
   which applies the configurations it is handed one after the other. *)
EXTENDS McpConnections, Sequences

CONSTANT MaxChanges   \* bound of the model: changes that persons make

ASSUME McpServersAssumption == Closers = {"chain", "person", "end"} /\ MaxChanges \in Nat

VARIABLES
  row,        \* the row: configuration, enabled, and what it shows of the server
  latest,     \* the version of the row that the pass read for its write is still there
  config,     \* the configuration of the manager
  queue,      \* configurations that wait for the one before, with who waits for each
  chain,      \* the one that is applied: where it is, and the attempt it waits for
  sync,       \* the pass of hot reload: where it is, and what it has read
  person,     \* where the request of a person is
  known,      \* the last whole pass saw the server enabled
  ending,     \* where the end of the process is
  shelf,      \* the tools of the server are stored for search
  \* history
  halted,     \* a person disconnected the object that the manager has
  seen,       \* nothing happened since the pass that is going, or the last one, began
  changes,
  upset       \* what happened of the kinds below

\* Two disconnections of the server at once; another server was switched on with the
\* configuration as it was; the row was deleted before a whole pass took note of the server, or
\* while a pass or a request was under way; a request reached the manager after the last
\* disconnection of all.
Upsets == {"overlap", "other", "hasty", "late"}
Without(events) == upset \cap events = {}

requests == <<queue, chain, sync, person, ending>>
stored == <<row, latest, known, shelf>>
history == <<halted, changes, upset>>
vars == <<manager, requests, stored, config, history, seen>>

NoRow == [cfg |-> None, on |-> FALSE, status |-> "none"]
Resting == [at |-> "idle", who |-> "none", cfg |-> None, on |-> NoOne]
Out == [at |-> "idle", row |-> NoRow, cfg |-> None, shown |-> "none"]

Wanted(r) == IF r.on THEN r.cfg ELSE None
\* What is shown of the server: its status, and whether it lists tools.
Shown == IF ~held THEN "disconnected"
         ELSE IF state.status = "connected" /\ state.tools # NoOne THEN "listed"
         ELSE state.status

Init ==
  /\ \E c \in Configs, on \in BOOLEAN :
       row = [cfg |-> c, on |-> on, status |-> "disconnected"]
  /\ config = Wanted(row) /\ InitManager(Wanted(row))
  /\ latest = FALSE /\ queue = <<>> /\ chain = Resting /\ sync = Out /\ person = "idle" /\ ending = "no"
  /\ known = FALSE /\ shelf = FALSE /\ halted = FALSE /\ seen = FALSE /\ changes = 0 /\ upset = {}

AtWork == queue # <<>> \/ chain # Resting
Disconnect(d) ==
  /\ DisconnectServer(d)
  /\ upset' = upset \cup (IF held /\ \E e \in Closers : closing[e] # NotClosing THEN {"overlap"} ELSE {})
                   \cup (IF d = "end" /\ AtWork THEN {"late"} ELSE {})

-----------------------------------------------------------------------------
(* The chain of reconciliations *)

Push(who, cfg) == queue' = Append(queue, [who |-> who, cfg |-> cfg])

Answer ==
  LET who == IF chain.at = "idle" THEN Head(queue).who ELSE chain.who IN
  /\ chain' = Resting
  /\ sync' = IF who = "sync" THEN [sync EXCEPT !.at = "applied"] ELSE sync
  /\ person' = IF who = "person" THEN "applied" ELSE person
ChainAt(place, on) ==
  /\ chain' = [at |-> place, who |-> Head(queue).who, cfg |-> Head(queue).cfg, on |-> on]
  /\ UNCHANGED <<sync, person>>

\* reconcileConfig begins: it removes a server, disconnects one whose configuration changed,
\* adds one and connects it, or finds nothing to do.
Reconcile ==
  /\ chain = Resting /\ queue # <<>>
  /\ LET goal == Head(queue).cfg IN
     /\ config' = goal
     /\ \/ /\ IF held THEN goal = state.cfg ELSE goal = None
           /\ Answer
           /\ UNCHANGED <<manager, halted, upset>>
        \/ /\ held /\ goal # state.cfg
           /\ Disconnect("chain")
           /\ ChainAt("closing", NoOne)
           /\ UNCHANGED halted
        \/ /\ ~held /\ goal # None
           /\ held' = TRUE /\ gen' = gen + 1
           /\ ConnectServer(NewObject(goal))
           /\ halted' = FALSE
           /\ ChainAt("waiting", connecting')
           /\ UNCHANGED <<revision, retry, closing, cut, upset>>
  /\ queue' = Tail(queue) /\ UNCHANGED ending
  /\ seen' = (seen /\ Head(queue).who = "sync")
  /\ UNCHANGED <<stored, changes>>

\* After the disconnection.
Proceed ==
  /\ chain.at = "closing" /\ closing["chain"] = NotClosing
  /\ IF chain.cfg = None
     THEN /\ held' = FALSE /\ state' = NewObject(None)
          /\ Answer
          /\ UNCHANGED <<connecting, attempt, client, gen>>
     ELSE /\ UNCHANGED <<held, gen>>
          /\ ConnectServer([state EXCEPT !.cfg = chain.cfg])
          /\ chain' = [chain EXCEPT !.at = "waiting", !.on = connecting']
          /\ UNCHANGED <<sync, person>>
  /\ halted' = FALSE
  /\ seen' = (seen /\ chain.who = "sync")
  /\ UNCHANGED <<revision, retry, closing, cut, queue, ending, stored, config, changes, upset>>

Reconciled ==
  /\ chain.at = "waiting" /\ (chain.on # NoOne => ~Going(chain.on))
  /\ Answer
  /\ UNCHANGED <<manager, queue, ending, stored, config, history, seen>>

-----------------------------------------------------------------------------
(* syncMCPServers *)

\* A server that is not among the rows keeps the configuration it has, unless a pass knew it.
Scan ==
  /\ sync.at = "idle" /\ ending \in {"no", "first"}
  /\ sync' = [at |-> "scanned", row |-> row, shown |-> "none",
              cfg |-> IF row # NoRow THEN Wanted(row) ELSE IF known THEN None ELSE config]
  /\ seen' = TRUE
  /\ UNCHANGED <<manager, queue, chain, person, ending, stored, config, history>>

Apply ==
  /\ sync.at = "scanned"
  /\ Push("sync", sync.cfg)
  /\ sync' = [sync EXCEPT !.at = "waiting"]
  /\ UNCHANGED <<manager, chain, person, ending, stored, config, history, seen>>

Outdated(shown) == sync.row # NoRow /\ sync.row.status # shown
ReadRow ==
  /\ sync.at = "applied"
  /\ LET shown == IF sync.row.on THEN Shown ELSE "disconnected"
         writes == Outdated(shown) /\ row # NoRow /\ row.on = sync.row.on IN
     /\ sync' = IF writes THEN [sync EXCEPT !.at = "putting", !.shown = shown, !.row = row]
                ELSE [sync EXCEPT !.at = "shelving", !.shown = shown]
     /\ latest' = writes
  /\ UNCHANGED <<manager, queue, chain, person, ending, row, known, shelf, config, history, seen>>

\* put with expectedVersion: when it is refused, the pass is over.
Regardless == TRUE
Accepted == latest
PutRow ==
  /\ sync.at = "putting"
  /\ row' = IF Accepted THEN [sync.row EXCEPT !.status = sync.shown] ELSE row
  /\ sync' = IF Accepted THEN [sync EXCEPT !.at = "shelving"] ELSE Out
  /\ latest' = FALSE
  /\ UNCHANGED <<manager, queue, chain, person, ending, known, shelf, config, history, seen>>

NewShelf == IF sync.row # NoRow THEN sync.shown = "listed" ELSE shelf /\ ~known
Shelve ==
  /\ sync.at = "shelving"
  /\ shelf' = NewShelf
  /\ known' = sync.row.on
  /\ sync' = Out
  /\ UNCHANGED <<manager, queue, chain, person, ending, row, latest, config, history, seen>>

-----------------------------------------------------------------------------
(* Persons *)

Change(r) ==
  /\ changes < MaxChanges /\ changes' = changes + 1
  /\ row' = r /\ latest' = FALSE

\* The row only: handleCreateMcpServer, handleUpdateMcpServer, handleToggleMcpServer,
\* handleDeleteMcpServer.
EditRow ==
  /\ \/ /\ row = NoRow
        /\ \E c \in Configs : Change([cfg |-> c, on |-> TRUE, status |-> "disconnected"])
        /\ UNCHANGED upset
     \/ /\ row # NoRow
        /\ \E c \in Configs, on \in BOOLEAN : Change([row EXCEPT !.cfg = c, !.on = on]) /\ row' # row
        /\ UNCHANGED upset
     \/ /\ row # NoRow /\ Change(NoRow)
        /\ upset' = IF known /\ sync = Out /\ person = "idle" /\ ~AtWork
                     THEN upset ELSE upset \cup {"hasty"}
  /\ UNCHANGED <<manager, requests, known, shelf, config, halted>>

\* POST /api/mcp/servers/:id: the row first, then the manager, then the row again.
Switch(on) ==
  /\ person = "idle" /\ row # NoRow
  /\ Change([row EXCEPT !.on = on])
  /\ person' = IF on THEN "asking" ELSE "stopping"
  /\ UNCHANGED <<manager, queue, chain, sync, ending, known, shelf, config, halted, upset>>

Ask ==
  /\ person = "asking"
  /\ IF row = NoRow THEN person' = "idle" /\ UNCHANGED queue
     ELSE person' = "waiting" /\ Push("person", Wanted(row))
  /\ upset' = IF ending = "last" THEN upset \cup {"late"} ELSE upset
  /\ UNCHANGED <<manager, chain, sync, ending, stored, config, halted, changes>>

Stop ==
  /\ person = "stopping"
  /\ Disconnect("person")
  /\ person' = "closing"
  /\ halted' = (halted \/ held)
  /\ UNCHANGED <<queue, chain, sync, ending, stored, config, changes>>

\* The second write of the row may lose its race; nobody notices.
Tell ==
  /\ \/ person = "applied"
     \/ person = "closing" /\ closing["person"] = NotClosing
  /\ person' = "idle"
  /\ \/ UNCHANGED <<row, latest>>
     \/ /\ row # NoRow /\ latest' = FALSE
        /\ row' = [row EXCEPT !.status =
                    IF person = "closing" THEN "disconnected"
                    ELSE IF held /\ state.tools # NoOne THEN "listed" ELSE "connected"]
  /\ UNCHANGED <<manager, queue, chain, sync, ending, known, shelf, config, history>>

\* The switch of another server hands in the configuration it found, with this server in it.
OtherSwitch ==
  /\ changes < MaxChanges /\ changes' = changes + 1 /\ ending # "last"
  /\ upset' = upset \cup {"other"}
  /\ Push("other", config)
  /\ UNCHANGED <<manager, chain, sync, person, ending, stored, config, halted>>

-----------------------------------------------------------------------------
(* SIGTERM: all servers are disconnected, hot reload is stopped, and once more *)

\* disconnectAll waits for the attempts it found, too.
DisconnectAll(place) ==
  /\ Disconnect("end")
  /\ ending' = place
  /\ halted' = (halted \/ held)
  /\ UNCHANGED <<queue, chain, sync, person, stored, config>>
PassOver == sync = Out
AllDisconnected == closing["end"] = NotClosing /\ \A a \in cut : ~Going(a)

Terminate ==
  /\ ending = "no" /\ changes < MaxChanges /\ changes' = changes + 1
  /\ DisconnectAll("first")

StopHotReload ==
  /\ \/ ending = "first" /\ AllDisconnected /\ ending' = "stopped"
     \/ ending = "last" /\ AllDisconnected /\ ending' = "over"
  /\ UNCHANGED <<manager, queue, chain, sync, person, stored, config, history>>

DisconnectAgain ==
  /\ ending = "stopped" /\ PassOver
  /\ DisconnectAll("last")
  /\ UNCHANGED changes

EndStep == Terminate \/ StopHotReload \/ DisconnectAgain
Exit == ending = "over" /\ UNCHANGED vars

-----------------------------------------------------------------------------

SyncStep == Scan \/ Apply \/ ReadRow \/ PutRow \/ Shelve
ChainStep == Reconcile \/ Proceed \/ Reconciled
PersonStep == EditRow \/ (\E on \in BOOLEAN : Switch(on)) \/ Ask \/ Stop \/ Tell \/ OtherSwitch
ManagerStep ==
  /\ \/ \E a \in Attempts : AttemptStep(a) \/ TransportCloses(a)
     \/ RetryFires
     \/ \E d \in Closers : Closed(d)
  /\ UNCHANGED <<requests, stored, config, history>>

Next ==
  \/ ending # "over" /\ (SyncStep \/ ChainStep)
  \/ ending # "over" /\ (PersonStep \/ ManagerStep \/ EndStep) /\ seen' = FALSE
  \/ Exit
Spec == Init /\ [][Next]_vars

-----------------------------------------------------------------------------
(* Properties *)

Statuses == {"disconnected", "connecting", "connected", "error"}

\* Every variable stays in its range, and the attempt that a call would join is going.
TypeOK ==
  /\ held \in BOOLEAN /\ gen \in Nat /\ revision \in Nat
  /\ state \in [status : Statuses, client : Attempts \cup {NoOne},
                tools : Attempts \cup {NoOne}, cfg : Configs \cup {None}]
  /\ connecting # NoOne => connecting \in Attempts /\ Going(connecting)
  /\ retry \in [gen : Nat, rev : Nat]
  /\ \A a \in Attempts : attempt[a].at \in {"idle", "opening", "failing", "listing", "done"}
  /\ client \in [Attempts -> {"none", "open", "closing", "closed"}]
  /\ closing \in [Closers -> [gen : Nat, client : Attempts \cup {NoOne}]]
  /\ cut \subseteq Attempts /\ upset \subseteq Upsets

\* Nothing is going on, and nothing happened since the last pass began.
Synced ==
  /\ sync = Out /\ person = "idle" /\ ~AtWork /\ seen
  /\ \A a \in Attempts : ~Going(a)
  /\ \A d \in Closers : closing[d] = NotClosing
Served == held /\ (state.status = "connected" \/ retry # NoRetry)

\* A client that is connected is the one the manager keeps for the server, so that whoever
\* disconnects it closes it, as long as two disconnections do not overlap.
NoLostClient ==
  Without({"overlap"}) =>
    \A a \in Attempts : attempt[a].at = "done" => held /\ state.client = a

\* The tools that are shown are those of the client that is there, as long as two
\* disconnections do not overlap: not what a client listed that has been closed.
OwnTools ==
  held /\ state.tools # NoOne /\ Without({"overlap"}) => state.tools = state.client

\* An attempt during which somebody disconnected the server does not connect it again.
LatePublishesNothing ==
  [][\A a \in cut : state'.status = "connected" /\ state'.client = a => state.status = "connected"]_vars

\* When all has settled, a server that is enabled is connected, or its next attempt is
\* planned, unless a person had disconnected it or two disconnections overlapped.
EnabledIsServed ==
  Synced /\ row.on /\ ~halted /\ Without({"overlap"}) => Served

\* When all has settled, a server that is disabled or deleted is not in the manager, nor are
\* its tools stored. A deleted one stays for good if it was deleted before a whole pass saw
\* it enabled or in the middle of one, or if the switch of another server brought it back.
GoneIsGone ==
  Synced /\ ~row.on /\ (row = NoRow => Without({"hasty", "other"})) => ~held /\ ~shelf

\* When all has settled, the row tells what the manager tells, whoever wrote it last.
RowAgrees ==
  Synced /\ row # NoRow => row.status = Shown

\* What a person wrote into the row stays until a person writes again: the pass, which writes
\* a row it read before, never takes a configuration or a switch back.
PersonsDecide ==
  [][changes' = changes => row'.cfg = row.cfg /\ row'.on = row.on]_vars

\* At the end of the process no client is left open, unless a request reached the manager late
\* or two disconnections overlapped.
EndLeavesNothing ==
  ending = "over" /\ Without({"overlap", "late"}) =>
    \A a \in Attempts : client[a] \notin {"open", "closing"}

\* No client and no tool outlives the place the manager has for it (connectOnce,
\* disconnectServer, disconnectAll).
NothingLeaks == NoLostClient /\ OwnTools /\ EndLeavesNothing

\* When all has settled the manager, the row and the stored tools agree (syncMCPServers,
\* reconcileConfig, scheduleReconnect).
SettledAgrees == TypeOK /\ EnabledIsServed /\ GoneIsGone /\ RowAgrees
=============================================================================
