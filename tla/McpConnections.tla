----------------------------- MODULE McpConnections -----------------------------
(* MCPClientManager, for one server by its name: the state object kept for it in `servers`,
   the attempts to connect it, the disconnections, and the timer of the next attempt. Nothing
   here is locked: an attempt that went on while the server was disconnected finds that out by
   the object and the revision it began with. *)
EXTENDS Naturals, FiniteSets

CONSTANTS
  Attempts,       \* names for the attempts, and their clients, that are alive at once
  Closers,        \* those who disconnect
  Configs         \* configurations of the server

None == "none"    \* no configuration: the server is not there, or is not enabled
NoOne == 0        \* no client, no attempt
NoRetry == [gen |-> 0, rev |-> 0]
NotClosing == [gen |-> 0, client |-> NoOne]
Idle == [at |-> "idle", gen |-> 0, rev |-> 0]

ASSUME McpConnectionsAssumption ==
  Attempts \subseteq Nat \ {NoOne} /\ IsFiniteSet(Attempts) /\ None \notin Configs

VARIABLES
  held,        \* `servers` has an object for the name
  gen,         \* which object that is, or was
  state,       \* the object: its status, client, configuration, and whose tools it shows
  revision,
  connecting,  \* the attempt that a further call joins
  retry,       \* the timer of the next attempt, with what it checks when it fires
  attempt,     \* each attempt: where it is, the object and the revision it began with
  client,      \* the client of each attempt
  closing,     \* each disconnection that waits for a client to close
  \* history
  cut          \* attempts that were going when somebody disconnected the server

manager == <<held, gen, state, revision, connecting, retry, attempt, client, closing, cut>>

NewObject(cfg) ==
  [status |-> "disconnected", client |-> NoOne, tools |-> NoOne, cfg |-> cfg]
Down(s) == [s EXCEPT !.status = "disconnected", !.client = NoOne, !.tools = NoOne]
Broken(s) == [s EXCEPT !.status = "error", !.client = NoOne]
Torn(s) == [Broken(s) EXCEPT !.tools = NoOne]

Going(a) == attempt[a].at \in {"opening", "failing", "listing"}
HasObject(a) == held /\ attempt[a].gen = gen
IsCurrent(a) == HasObject(a) /\ attempt[a].rev = revision

Free(a) == attempt[a] = Idle /\ \A d \in Closers : closing[d].client # a

\* initialize has made the first attempt; that it failed is where a retry begins as well.
InitManager(cfg) ==
  /\ held = (cfg # None) /\ gen = IF cfg = None THEN 0 ELSE 1
  /\ state = [NewObject(cfg) EXCEPT !.status = IF cfg = None THEN "disconnected" ELSE "error"]
  /\ retry = IF cfg = None THEN NoRetry ELSE [gen |-> 1, rev |-> 0]
  /\ revision = 0 /\ connecting = NoOne
  /\ attempt = [a \in Attempts |-> Idle] /\ client = [a \in Attempts |-> "none"]
  /\ closing = [d \in Closers |-> NotClosing] /\ cut = {}

-----------------------------------------------------------------------------
(* Attempts *)

\* connectServer on the object s: it joins the attempt that is going, does nothing on a
\* connected server, and begins an attempt otherwise.
ConnectServer(s) ==
  IF connecting # NoOne \/ s.status = "connected"
  THEN state' = s /\ UNCHANGED <<connecting, attempt, client>>
  ELSE \E a \in Attempts :
         /\ Free(a) /\ \A b \in Attempts : Free(b) => a <= b
         /\ attempt' = [attempt EXCEPT ![a] = [at |-> "opening", gen |-> gen', rev |-> revision]]
         /\ client' = [client EXCEPT ![a] = "open"]
         /\ connecting' = a
         /\ state' = [s EXCEPT !.status = "connecting", !.client = a]

Leaves(a) ==
  connecting' = IF connecting = a THEN NoOne ELSE connecting

NoReconnect(a) == UNCHANGED retry
ScheduleReconnect(a) ==
  retry' = IF retry = NoRetry THEN [gen |-> attempt[a].gen, rev |-> attempt[a].rev] ELSE retry

\* What becomes of the attempt, and of its client, when the client is closed: what waits for
\* an answer of the server gets an error.
Drop(a) ==
  /\ attempt' = [attempt EXCEPT ![a] = IF @.at = "opening" THEN [@ EXCEPT !.at = "failing"] ELSE Idle]
  /\ client' = [client EXCEPT ![a] = IF attempt[a].at = "opening" THEN "closed" ELSE "none"]
  /\ cut' = IF attempt[a].at = "opening" THEN cut ELSE cut \ {a}

\* The server answered: an attempt that is not current any more closes its client.
Connected(a) ==
  /\ attempt[a].at = "opening" /\ client[a] # "closed"
  /\ IF IsCurrent(a)
     THEN /\ state' = [state EXCEPT !.status = "connected", !.client = a]
          /\ retry' = NoRetry
          /\ attempt' = [attempt EXCEPT ![a].at = "listing"]
          /\ UNCHANGED <<connecting, client, cut>>
     ELSE /\ attempt' = [attempt EXCEPT ![a] = Idle]
          /\ client' = [client EXCEPT ![a] = "none"]
          /\ cut' = cut \ {a}
          /\ Leaves(a)
          /\ UNCHANGED <<state, retry>>
  /\ UNCHANGED <<held, gen, revision, closing>>

ConnectFails(a) ==
  /\ attempt[a].at = "opening" /\ client[a] = "open"
  /\ Drop(a)
  /\ UNCHANGED <<held, gen, state, revision, connecting, retry, closing>>

\* The end of the catch, after it has closed the client and the transport.
Failed(a) ==
  /\ attempt[a].at = "failing"
  /\ attempt' = [attempt EXCEPT ![a] = Idle]
  /\ client' = [client EXCEPT ![a] = "none"]
  /\ cut' = cut \ {a}
  /\ Leaves(a)
  /\ IF IsCurrent(a)
     THEN state' = Broken(state) /\ ScheduleReconnect(a)
     ELSE UNCHANGED <<state, retry>>
  /\ UNCHANGED <<held, gen, revision, closing>>

\* discoverCapabilities: it writes into the object it was given, and does not look at the
\* revision; a server without tools leaves the object as it is.
Listed(a) ==
  /\ attempt[a].at = "listing"
  /\ attempt' = [attempt EXCEPT ![a].at = "done"]
  /\ Leaves(a)
  /\ \/ state' = IF HasObject(a) THEN [state EXCEPT !.tools = a] ELSE state
     \/ UNCHANGED state
  /\ UNCHANGED <<held, gen, revision, retry, client, closing, cut>>

\* onclose, when the transport closes by itself. The listing that waits for it ends, too.
TransportCloses(a) ==
  /\ attempt[a].at \in {"listing", "done"} /\ client[a] = "open"
  /\ Drop(a) /\ Leaves(a)
  /\ IF IsCurrent(a) /\ state.status = "connected"
     THEN state' = Torn(state) /\ ScheduleReconnect(a)
     ELSE UNCHANGED <<state, retry>>
  /\ UNCHANGED <<held, gen, revision, closing>>

RetryFires ==
  /\ retry # NoRetry /\ retry' = NoRetry
  /\ UNCHANGED <<held, gen, revision, closing, cut>>
  /\ IF held /\ retry.gen = gen /\ retry.rev = revision
     THEN ConnectServer(state)
     ELSE UNCHANGED <<state, connecting, attempt, client>>

-----------------------------------------------------------------------------
(* Disconnections *)

NothingToClose == NoOne
ToClose == state.client

\* disconnectServer until its await: with no client to close it ends here. Who finds the
\* client closing already may be done before the one who closes it.
DisconnectServer(d) ==
  IF ~held THEN UNCHANGED manager
  ELSE /\ revision' = revision + 1 /\ retry' = NoRetry /\ connecting' = NoOne
       /\ cut' = cut \cup {a \in Attempts : Going(a)}
       /\ IF ToClose = NoOne
          THEN state' = Down(state) /\ UNCHANGED <<client, closing>>
          ELSE LET c == ToClose
                   first == client[c] = "open" IN
               /\ client' = [client EXCEPT ![c] = IF first THEN "closing" ELSE @]
               /\ closing' = [closing EXCEPT ![d] =
                               [gen |-> gen, client |-> IF first THEN c ELSE NoOne]]
               /\ UNCHANGED state
       /\ UNCHANGED <<held, gen, attempt>>

\* The rest of it. The attempt whose client this is began before: its onclose does nothing.
Closed(d) ==
  /\ closing[d] # NotClosing
  /\ closing' = [closing EXCEPT ![d] = NotClosing]
  /\ IF closing[d].client = NoOne THEN UNCHANGED <<attempt, client, cut>> ELSE Drop(closing[d].client)
  /\ state' = IF held /\ closing[d].gen = gen THEN Down(state) ELSE state
  /\ UNCHANGED <<held, gen, revision, connecting, retry>>

AttemptStep(a) == Connected(a) \/ ConnectFails(a) \/ Failed(a) \/ Listed(a)
=============================================================================
