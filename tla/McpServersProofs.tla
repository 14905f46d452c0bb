--------------------------- MODULE McpServersProofs ---------------------------
(* That an attempt which was cut short publishes nothing, that the pass of hot reload takes no
   decision of a person back, that no client is left over, and that the manager, the row and the
   stored tools agree when all has settled, for any number of attempts, configurations and
   changes.

   The first is the order of revisions: every disconnection begins a new one, and an attempt
   keeps the one it began with (Revisions). The second is the versioned put: a version that
   is still there when the pass writes is that of the row the pass has read (LatestIsRead).
   The third says where each client is kept until it is closed (ClientInv), and that who has
   disconnected the server finds it so until somebody connects it anew (Halted). The last
   follows a pass from what it read to what it left (PassIsTrue), a deleted row to the pass
   that took the server away (DeletedStays), and an object from whoever is to connect it next
   (Tended). *)
EXTENDS McpServers, TLAPS

Places == {"idle", "opening", "failing", "listing", "done"}
Clients == Attempts \cup {NoOne}

\* An attempt that was cut short is of an earlier revision, and nobody has begun again under
\* its name.
Revisions ==
  /\ revision \in Nat /\ gen \in Nat
  /\ attempt \in [Attempts -> [at : Places, gen : Nat, rev : Nat]]
  /\ cut \subseteq Attempts
  /\ \A a \in Attempts : attempt[a].rev <= revision
  /\ \A a \in cut : attempt[a].at # "idle" /\ attempt[a].rev < revision

IsObject(s) ==
  /\ s = [status |-> s.status, client |-> s.client, tools |-> s.tools, cfg |-> s.cfg]
  /\ s.client \in Clients

\* The clients that are known to the manager are those of attempts.
KnownClients ==
  /\ IsObject(state)
  /\ closing \in [Closers -> [gen : Nat, client : Clients]]

ManagerInv == Revisions /\ KnownClients

IsRow(r) == r = [cfg |-> r.cfg, on |-> r.on, status |-> r.status]
IsPass(s) == s = [at |-> s.at, row |-> s.row, cfg |-> s.cfg, shown |-> s.shown]

LatestIsRead ==
  /\ changes \in Nat /\ IsRow(row) /\ IsPass(sync)
  /\ latest /\ sync.at = "putting" => sync.row = row

-----------------------------------------------------------------------------
(* The order of revisions *)

LEMMA AttemptGoesOn ==
  ASSUME Revisions, NEW a \in Attempts, NEW place \in Places \ {"idle"},
         attempt' = [attempt EXCEPT ![a].at = place], cut' = cut,
         revision' = revision, gen' = gen
  PROVE  Revisions'
BY DEF Revisions

LEMMA AttemptEnds ==
  ASSUME Revisions, NEW a \in Attempts, attempt' = [attempt EXCEPT ![a] = Idle],
         cut' = cut \ {a}, revision' = revision, gen' = gen
  PROVE  Revisions'
BY DEF Revisions, Idle, Places

LEMMA DropKeeps ==
  ASSUME Revisions, NEW a \in Attempts, Drop(a), revision' = revision, gen' = gen
  PROVE  Revisions'
<1>1. CASE attempt[a].at = "opening"
  <2>1. attempt' = [attempt EXCEPT ![a].at = "failing"] /\ cut' = cut
    BY <1>1 DEF Drop, Revisions
  <2> QED BY <2>1, AttemptGoesOn DEF Places
<1>2. CASE attempt[a].at # "opening"
  <2>1. attempt' = [attempt EXCEPT ![a] = Idle] /\ cut' = cut \ {a}
    BY <1>2 DEF Drop, Revisions
  <2> QED BY <2>1, AttemptEnds
<1> QED BY <1>1, <1>2

LEMMA ConnectKeeps ==
  ASSUME Revisions, NEW s, IsObject(s), ConnectServer(s),
         revision' = revision, cut' = cut, gen' \in Nat
  PROVE  Revisions' /\ IsObject(state')
<1>1. CASE connecting # NoOne \/ s.status = "connected"
  BY <1>1 DEF ConnectServer, Revisions
<1>2. CASE ~(connecting # NoOne \/ s.status = "connected")
  <2>1. PICK a \in Attempts :
          /\ Free(a)
          /\ attempt' = [attempt EXCEPT
                           ![a] = [at |-> "opening", gen |-> gen', rev |-> revision]]
          /\ state' = [s EXCEPT !.status = "connecting", !.client = a]
    BY <1>2 DEF ConnectServer
  <2>2. a \notin cut BY <2>1 DEF Free, Idle, Revisions
  <2>3. Revisions' BY <2>1, <2>2 DEF Revisions, Places
  <2>4. IsObject(state') BY <2>1 DEF IsObject, Clients
  <2> QED BY <2>3, <2>4
<1> QED BY <1>1, <1>2

LEMMA DisconnectKeeps ==
  ASSUME ManagerInv, NEW d \in Closers, DisconnectServer(d)
  PROVE  ManagerInv'
<1>1. CASE ~held
  BY <1>1 DEF DisconnectServer, manager, ManagerInv, Revisions, KnownClients
<1>2. CASE held
  <2>1. /\ revision' = revision + 1 /\ attempt' = attempt /\ gen' = gen
        /\ cut' = cut \cup {a \in Attempts : Going(a)}
    BY <1>2 DEF DisconnectServer
  <2>2. Revisions' BY <2>1 DEF ManagerInv, Revisions, Going
  <2>3. KnownClients'
    <3>1. CASE ToClose = NoOne
      <4>1. state' = Down(state) /\ closing' = closing
        BY <1>2, <3>1 DEF DisconnectServer
      <4> QED BY <4>1 DEF ManagerInv, KnownClients, IsObject, Down, Clients
    <3>2. CASE ToClose # NoOne
      <4>1. PICK c \in Clients :
              state' = state /\ closing' = [closing EXCEPT ![d] = [gen |-> gen, client |-> c]]
        BY <1>2, <3>2 DEF DisconnectServer, ToClose, ManagerInv, KnownClients, IsObject, Clients
      <4> QED BY <4>1 DEF ManagerInv, Revisions, KnownClients
    <3> QED BY <3>1, <3>2
  <2> QED BY <2>2, <2>3 DEF ManagerInv
<1> QED BY <1>1, <1>2

-----------------------------------------------------------------------------
(* What the manager does by itself *)

LEMMA AttemptStepKeeps ==
  ASSUME ManagerInv, NEW a \in Attempts, AttemptStep(a) \/ TransportCloses(a)
  PROVE  ManagerInv'
<1>1. closing' = closing /\ gen' = gen /\ revision' = revision
  BY DEF AttemptStep, Connected, ConnectFails, Failed, Listed, TransportCloses
<1>2. IsObject(state) BY DEF ManagerInv, KnownClients
<1>3. IsObject(state')
  BY <1>2
     DEF AttemptStep, Connected, ConnectFails, Failed, Listed, TransportCloses,
         IsObject, Clients, Broken, Torn
<1>4. Revisions'
  <2>1. CASE Connected(a)
    <3>1. CASE IsCurrent(a)
      <4>1. attempt' = [attempt EXCEPT ![a].at = "listing"] /\ cut' = cut
        BY <2>1, <3>1 DEF Connected
      <4> QED BY <1>1, <4>1, AttemptGoesOn DEF ManagerInv, Places
    <3>2. CASE ~IsCurrent(a)
      <4>1. attempt' = [attempt EXCEPT ![a] = Idle] /\ cut' = cut \ {a}
        BY <2>1, <3>2 DEF Connected
      <4> QED BY <1>1, <4>1, AttemptEnds DEF ManagerInv
    <3> QED BY <3>1, <3>2
  <2>2. CASE ConnectFails(a) \/ TransportCloses(a)
    BY <1>1, <2>2, DropKeeps DEF ConnectFails, TransportCloses, ManagerInv
  <2>3. CASE Failed(a)
    <3>1. attempt' = [attempt EXCEPT ![a] = Idle] /\ cut' = cut \ {a} BY <2>3 DEF Failed
    <3> QED BY <1>1, <3>1, AttemptEnds DEF ManagerInv
  <2>4. CASE Listed(a)
    <3>1. attempt' = [attempt EXCEPT ![a].at = "done"] /\ cut' = cut BY <2>4 DEF Listed
    <3> QED BY <1>1, <3>1, AttemptGoesOn DEF ManagerInv, Places
  <2> QED BY <2>1, <2>2, <2>3, <2>4 DEF AttemptStep
<1> QED BY <1>1, <1>3, <1>4 DEF ManagerInv, KnownClients

LEMMA RetryKeeps == ASSUME ManagerInv, RetryFires PROVE ManagerInv'
<1>1. closing' = closing /\ gen' = gen /\ gen \in Nat /\ revision' = revision /\ cut' = cut
  BY DEF RetryFires, ManagerInv, Revisions
<1>2. CASE ConnectServer(state)
  BY <1>1, <1>2, ConnectKeeps DEF ManagerInv, KnownClients
<1>3. CASE state' = state /\ attempt' = attempt
  BY <1>1, <1>3 DEF ManagerInv, Revisions, KnownClients
<1> QED BY <1>2, <1>3 DEF RetryFires

LEMMA ClosedKeeps == ASSUME ManagerInv, NEW d \in Closers, Closed(d) PROVE ManagerInv'
<1>1. gen' = gen /\ revision' = revision /\ closing' = [closing EXCEPT ![d] = NotClosing]
  BY DEF Closed
<1>2. state' \in {state, Down(state)} BY DEF Closed
<1>3. KnownClients'
  BY <1>1, <1>2 DEF ManagerInv, KnownClients, IsObject, Down, Clients, NotClosing
<1>4. CASE closing[d].client = NoOne
  BY <1>1, <1>3, <1>4 DEF Closed, ManagerInv, Revisions
<1>5. CASE closing[d].client # NoOne
  <2>1. closing[d].client \in Attempts /\ Drop(closing[d].client)
    BY <1>5 DEF Closed, ManagerInv, KnownClients, Clients
  <2> QED BY <1>1, <1>3, <2>1, DropKeeps DEF ManagerInv
<1> QED BY <1>4, <1>5

-----------------------------------------------------------------------------
(* Every step *)

LEMMA InitMcp == Init => ManagerInv /\ LatestIsRead
<1> SUFFICES ASSUME Init PROVE ManagerInv /\ LatestIsRead OBVIOUS
<1>1. PICK cfg : InitManager(cfg) BY DEF Init
<1>2. Revisions BY <1>1 DEF InitManager, Revisions, Idle, Places
<1>3. KnownClients
  BY <1>1 DEF InitManager, KnownClients, IsObject, NewObject, Clients, NotClosing
<1>4. LatestIsRead BY DEF Init, LatestIsRead, IsRow, IsPass, Out
<1> QED BY <1>2, <1>3, <1>4 DEF ManagerInv

LEMMA ReconcileKeeps == ASSUME ManagerInv, Reconcile PROVE ManagerInv'
<1>1. CASE UNCHANGED manager
  BY <1>1 DEF manager, ManagerInv, Revisions, KnownClients
<1>2. CASE Disconnect("chain")
  BY <1>2, DisconnectKeeps, McpServersAssumption DEF Disconnect
<1>3. ASSUME NEW goal, ConnectServer(NewObject(goal)), gen' = gen + 1,
             UNCHANGED <<revision, closing, cut>>
      PROVE  ManagerInv'
  <2>1. IsObject(NewObject(goal)) BY DEF IsObject, NewObject, Clients
  <2>2. Revisions /\ gen' \in Nat BY <1>3 DEF ManagerInv, Revisions
  <2>3. Revisions' /\ IsObject(state') BY <1>3, <2>1, <2>2, ConnectKeeps
  <2> QED BY <1>3, <2>3 DEF ManagerInv, KnownClients
<1> QED BY <1>1, <1>2, <1>3 DEF Reconcile

LEMMA ProceedKeeps == ASSUME ManagerInv, Proceed PROVE ManagerInv'
<1>1. revision' = revision /\ closing' = closing /\ cut' = cut BY DEF Proceed
<1>2. CASE chain.cfg = None
  <2>1. attempt' = attempt /\ gen' = gen /\ state' = NewObject(None) BY <1>2 DEF Proceed
  <2> QED
    BY <1>1, <2>1 DEF ManagerInv, Revisions, KnownClients, IsObject, NewObject, Clients
<1>3. CASE chain.cfg # None
  <2> DEFINE s == [state EXCEPT !.cfg = chain.cfg]
  <2>1. ConnectServer(s) /\ gen' = gen BY <1>3 DEF Proceed
  <2>2. IsObject(s) BY DEF ManagerInv, KnownClients, IsObject
  <2>3. Revisions /\ gen' \in Nat BY <2>1 DEF ManagerInv, Revisions
  <2> HIDE DEF s
  <2>4. Revisions' /\ IsObject(state') BY <1>1, <2>1, <2>2, <2>3, ConnectKeeps
  <2> QED BY <1>1, <2>4 DEF ManagerInv, KnownClients
<1> QED BY <1>2, <1>3

\* Steps that leave the manager alone.
LEMMA OthersLeaveManager ==
  ASSUME \/ SyncStep \/ Reconciled \/ EditRow \/ (\E on \in BOOLEAN : Switch(on))
         \/ Ask \/ Tell \/ OtherSwitch \/ StopHotReload \/ Exit
  PROVE  UNCHANGED manager
<1>1. CASE SyncStep BY <1>1 DEF SyncStep, Scan, Apply, ReadRow, PutRow, Shelve
<1>2. CASE Reconciled BY <1>2 DEF Reconciled
<1>3. CASE EditRow \/ \E on \in BOOLEAN : Switch(on) BY <1>3 DEF EditRow, Switch
<1>4. CASE Ask \/ Tell \/ OtherSwitch BY <1>4 DEF Ask, Tell, OtherSwitch
<1>5. CASE StopHotReload BY <1>5 DEF StopHotReload
<1>6. CASE Exit BY <1>6 DEF Exit, vars
<1> QED BY <1>1, <1>2, <1>3, <1>4, <1>5, <1>6

LEMMA NextManagerInv == ManagerInv /\ [Next]_vars => ManagerInv'
<1> SUFFICES ASSUME ManagerInv, [Next]_vars PROVE ManagerInv' OBVIOUS
<1>1. CASE UNCHANGED manager BY <1>1 DEF manager, ManagerInv, Revisions, KnownClients
<1>2. CASE UNCHANGED vars BY <1>1, <1>2 DEF vars
<1>3. CASE Reconcile \/ Proceed BY <1>3, ReconcileKeeps, ProceedKeeps
<1>4. CASE Stop \/ Terminate \/ DisconnectAgain
  <2>1. PICK d \in Closers : DisconnectServer(d)
    BY <1>4, McpServersAssumption DEF Stop, Terminate, DisconnectAgain, DisconnectAll, Disconnect
  <2> QED BY <2>1, DisconnectKeeps
<1>5. CASE ManagerStep
  BY <1>5, AttemptStepKeeps, RetryKeeps, ClosedKeeps DEF ManagerStep
<1> QED BY <1>1, <1>2, <1>3, <1>4, <1>5, OthersLeaveManager
     DEF Next, ChainStep, PersonStep, EndStep

\* Whoever writes the row makes another version of it, and only the pass writes what it read.
LEMMA NextLatestIsRead == LatestIsRead /\ [Next]_vars => LatestIsRead'
<1> SUFFICES ASSUME LatestIsRead, [Next]_vars PROVE LatestIsRead' OBVIOUS
<1> USE DEF LatestIsRead
<1>1. CASE UNCHANGED vars
  BY <1>1 DEF vars, requests, stored, history
<1>2. CASE SyncStep
  <2>1. changes' = changes
    BY <1>2 DEF SyncStep, Scan, Apply, ReadRow, PutRow, Shelve, history
  <2>2. CASE Scan BY <2>1, <2>2 DEF Scan, stored, IsPass
  <2>3. CASE Apply BY <2>1, <2>3 DEF Apply, stored, IsPass
  <2>4. CASE ReadRow
    <3>1. row' = row BY <2>4 DEF ReadRow
    <3>2. IsPass(sync') BY <2>4 DEF ReadRow, IsPass
    <3>3. latest' /\ sync'.at = "putting" => sync'.row = row BY <2>4 DEF ReadRow, IsPass
    <3> QED BY <2>1, <3>1, <3>2, <3>3
  <2>5. CASE PutRow
    <3>1. sync.at = "putting" /\ latest' = FALSE BY <2>5 DEF PutRow
    <3>2. IsPass(sync') BY <2>5 DEF PutRow, IsPass, Out
    <3>3. IsRow(row') BY <2>5, <3>1 DEF PutRow, Accepted, IsRow
    <3> QED BY <2>1, <3>1, <3>2, <3>3
  <2>6. CASE Shelve BY <2>1, <2>6 DEF Shelve, Out, IsPass
  <2> QED BY <1>2, <2>2, <2>3, <2>4, <2>5, <2>6 DEF SyncStep
<1>3. CASE ChainStep
  <2>1. UNCHANGED stored /\ changes' = changes
    BY <1>3 DEF ChainStep, Reconcile, Proceed, Reconciled, history
  <2>2. sync' = sync \/ sync' = [sync EXCEPT !.at = "applied"]
    BY <1>3 DEF ChainStep, Reconcile, Proceed, Reconciled, Answer, ChainAt
  <2>3. IsPass(sync') /\ (sync'.at = "putting" => sync' = sync) BY <2>2 DEF IsPass
  <2> QED BY <2>1, <2>3 DEF stored
<1>4. CASE EditRow \/ \E on \in BOOLEAN : Switch(on)
  <2>1. latest' = FALSE /\ changes' = changes + 1 /\ sync' = sync
    BY <1>4 DEF EditRow, Switch, Change, requests
  <2>2. IsRow(row') BY <1>4 DEF EditRow, Switch, Change, IsRow, NoRow
  <2> QED BY <2>1, <2>2
<1>5. CASE Tell
  <2>1. sync' = sync /\ changes' = changes /\ (latest' = FALSE \/ UNCHANGED <<row, latest>>)
    BY <1>5 DEF Tell, history
  <2>2. IsRow(row') BY <1>5 DEF Tell, IsRow
  <2> QED BY <2>1, <2>2
<1>6. CASE Ask \/ Stop \/ OtherSwitch \/ ManagerStep \/ EndStep
  <2>1. UNCHANGED stored /\ sync' = sync
    <3>1. CASE Ask \/ Stop \/ OtherSwitch BY <3>1 DEF Ask, Stop, OtherSwitch, stored
    <3>2. CASE ManagerStep BY <3>2 DEF ManagerStep, requests
    <3>3. CASE EndStep
      BY <3>3 DEF EndStep, Terminate, StopHotReload, DisconnectAgain, DisconnectAll
    <3> QED BY <1>6, <3>1, <3>2, <3>3
  <2>2. changes' \in {changes, changes + 1}
    <3>1. CASE Ask \/ Stop \/ OtherSwitch BY <3>1 DEF Ask, Stop, OtherSwitch
    <3>2. CASE ManagerStep BY <3>2 DEF ManagerStep, history
    <3>3. CASE EndStep
      BY <3>3 DEF EndStep, Terminate, StopHotReload, DisconnectAgain, DisconnectAll, history
    <3> QED BY <1>6, <3>1, <3>2, <3>3
  <2> QED BY <2>1, <2>2 DEF stored
<1>7. CASE Exit BY <1>1, <1>7 DEF Exit
<1> QED BY <1>1, <1>2, <1>3, <1>4, <1>5, <1>6, <1>7 DEF Next, PersonStep

\* The order of revisions, the clients of the manager and the version that the pass has read,
\* in every state.
THEOREM ServersInvariant == Spec => [](ManagerInv /\ LatestIsRead)
<1> QED BY InitMcp, NextManagerInv, NextLatestIsRead, PTL DEF Spec

-----------------------------------------------------------------------------
(* What is promised *)

\* An attempt during which the server was disconnected never connects it.
THEOREM LateAttemptsPublishNothing == Spec => LatePublishesNothing
<1>1. ManagerInv /\ [Next]_vars =>
        [\A a \in cut : state'.status = "connected" /\ state'.client = a
                       => state.status = "connected"]_vars
  <2> SUFFICES ASSUME ManagerInv, Next, NEW a \in cut,
                      state'.status = "connected", state'.client = a
               PROVE  state.status = "connected"
    OBVIOUS
  <2>1. a \in Attempts /\ attempt[a].rev # revision /\ IsObject(state)
    BY DEF ManagerInv, Revisions, KnownClients
  <2>2. CASE UNCHANGED manager BY <2>2 DEF manager
  <2>3. ASSUME NEW s, IsObject(s), ConnectServer(s), s.status = state.status \/ s.status = "disconnected"
        PROVE  state.status = "connected"
    BY <2>3 DEF ConnectServer, IsObject
  <2>4. ASSUME NEW d \in Closers, DisconnectServer(d) PROVE state.status = "connected"
    BY <2>1, <2>4 DEF DisconnectServer, manager, Down, IsObject
  <2>5. CASE Reconcile
    <3>1. ASSUME NEW goal, ConnectServer(NewObject(goal)) PROVE state.status = "connected"
      <4>1. IsObject(NewObject(goal)) /\ NewObject(goal).status = "disconnected"
        BY DEF IsObject, NewObject, Clients
      <4> QED BY <2>3, <3>1, <4>1
    <3> QED BY <2>2, <2>4, <2>5, <3>1, McpServersAssumption DEF Reconcile, Disconnect
  <2>6. CASE Proceed
    <3>1. CASE chain.cfg = None BY <2>6, <3>1 DEF Proceed, NewObject
    <3>2. CASE chain.cfg # None
      <4>1. /\ ConnectServer([state EXCEPT !.cfg = chain.cfg])
            /\ IsObject([state EXCEPT !.cfg = chain.cfg])
            /\ [state EXCEPT !.cfg = chain.cfg].status = state.status
        BY <2>1, <2>6, <3>2 DEF Proceed, IsObject
      <4> QED BY <2>3, <4>1
    <3> QED BY <3>1, <3>2
  <2>7. CASE Stop \/ Terminate \/ DisconnectAgain
    BY <2>4, <2>7, McpServersAssumption
       DEF Stop, Terminate, DisconnectAgain, DisconnectAll, Disconnect
  <2>8. CASE RetryFires BY <2>1, <2>3, <2>8 DEF RetryFires
  <2>9. ASSUME NEW d \in Closers, Closed(d) PROVE state.status = "connected"
    BY <2>1, <2>9 DEF Closed, Down, IsObject
  <2>10. ASSUME NEW b \in Attempts, AttemptStep(b) \/ TransportCloses(b)
         PROVE  state.status = "connected"
    <3>1. CASE Connected(b)
      <4>1. CASE IsCurrent(b)
        <5>1. state'.client = b BY <2>1, <3>1, <4>1 DEF Connected, IsObject
        <5> QED BY <2>1, <4>1, <5>1 DEF IsCurrent
      <4>2. CASE ~IsCurrent(b) BY <3>1, <4>2 DEF Connected
      <4> QED BY <4>1, <4>2
    <3>2. CASE ConnectFails(b) \/ Failed(b) \/ Listed(b) \/ TransportCloses(b)
      BY <2>1, <3>2 DEF ConnectFails, Failed, Listed, TransportCloses, IsObject, Broken, Torn
    <3> QED BY <2>10, <3>1, <3>2 DEF AttemptStep
  <2> QED
    BY <2>2, <2>5, <2>6, <2>7, <2>8, <2>9, <2>10, OthersLeaveManager
       DEF Next, ChainStep, PersonStep, EndStep, ManagerStep
<1> QED BY <1>1, ServersInvariant, PTL DEF Spec, LatePublishesNothing

\* Where no person writes, the configuration and the switch in the row stay what they are.
THEOREM PersonsAlwaysDecide == Spec => PersonsDecide
<1>1. LatestIsRead /\ [Next]_vars =>
        [changes' = changes => row'.cfg = row.cfg /\ row'.on = row.on]_vars
  <2> SUFFICES ASSUME LatestIsRead, Next, changes' = changes, row' # row
               PROVE  row'.cfg = row.cfg /\ row'.on = row.on
    OBVIOUS
  <2> USE DEF LatestIsRead
  <2>1. CASE SyncStep
    <3>1. CASE Scan \/ Apply \/ ReadRow \/ Shelve
      BY <3>1 DEF Scan, Apply, ReadRow, Shelve, stored
    <3>2. CASE PutRow BY <3>2 DEF PutRow, Accepted, IsRow
    <3> QED BY <2>1, <3>1, <3>2 DEF SyncStep
  <2>2. CASE ChainStep BY <2>2 DEF ChainStep, Reconcile, Proceed, Reconciled, stored
  <2>3. CASE EditRow \/ \E on \in BOOLEAN : Switch(on)
    <3>1. changes' = changes + 1 BY <2>3 DEF EditRow, Switch, Change
    <3> QED BY <3>1
  <2>4. CASE Tell BY <2>4 DEF Tell, IsRow
  <2>5. CASE Ask \/ Stop \/ OtherSwitch BY <2>5 DEF Ask, Stop, OtherSwitch, stored
  <2>6. CASE ManagerStep BY <2>6 DEF ManagerStep, stored
  <2>7. CASE EndStep
    BY <2>7 DEF EndStep, Terminate, StopHotReload, DisconnectAgain, DisconnectAll, stored
  <2>8. CASE Exit BY <2>8 DEF Exit, vars, stored
  <2> QED BY <2>1, <2>2, <2>3, <2>4, <2>5, <2>6, <2>7, <2>8 DEF Next, PersonStep
<1> QED BY <1>1, ServersInvariant, PTL DEF Spec, PersonsDecide

-----------------------------------------------------------------------------
(* Clients. As long as two disconnections do not overlap, an attempt is current, or cut off
   by the one disconnection that is going, or one that is listed in cut. *)

Alone == Without({"overlap"})
Current(a) == attempt[a].at # "idle" /\ IsCurrent(a)
Serving(a) == attempt[a].at \in {"listing", "done"}
Pending(d) == closing[d] # NotClosing
Quiet == retry = NoRetry /\ connecting = NoOne /\ \A a \in Attempts : ~Current(a)

Objects ==
  /\ held => gen > 0
  /\ \A a \in Attempts : attempt[a].gen <= gen
  /\ client \in [Attempts -> {"none", "open", "closing", "closed"}]

\* A disconnection that waits for a client is the only one, and nobody connects meanwhile.
ClosingIsQuiet ==
  /\ \A d, e \in Closers : Pending(d) /\ Pending(e) => d = e
  /\ \A d \in Closers : Pending(d) => held /\ closing[d].gen = gen /\ Quiet

\* A client that lists or is connected is that of the object, until it is closed.
ServingIsHeld ==
  \A a \in Attempts : Serving(a) =>
    /\ HasObject(a) /\ state.client = a /\ state.status = "connected"
    /\ \/ IsCurrent(a) /\ client[a] = "open"
       \/ client[a] = "closing" /\ \E d \in Closers : closing[d].client = a

\* An attempt that has not been cut short is the one that others join.
TryingIsHeld ==
  \A a \in Attempts : Current(a) /\ ~Serving(a) =>
    /\ connecting = a /\ state.client = a /\ state.status = "connecting"
    /\ attempt[a].at = "opening" => client[a] = "open"

ConnectingIsCurrent ==
  connecting # NoOne => connecting \in Attempts /\ Current(connecting) /\ Going(connecting)

ToolsAreOwn == state.tools # NoOne => state.status = "connected" /\ state.tools = state.client
LateIsCut == \A a \in Attempts : Going(a) /\ ~IsCurrent(a) => a \in cut

ClientsAreKnown ==
  \A a \in Attempts :
    /\ client[a] = "open" => attempt[a].at \in {"opening", "listing", "done"}
    /\ client[a] = "closing" => \E d \in Closers : closing[d].client = a

ClientInv ==
  Objects /\ ClosingIsQuiet /\ ServingIsHeld /\ TryingIsHeld /\ ConnectingIsCurrent
    /\ ToolsAreOwn /\ LateIsCut /\ ClientsAreKnown

\* Who has disconnected the server finds it so until somebody connects it anew.
Halted(d) ==
  held => Quiet /\ (\/ Pending(d)
                    \/ /\ state.client = NoOne /\ state.status = "disconnected"
                       /\ \A e \in Closers : ~Pending(e))

LEMMA InitClients == Init => ClientInv
<1> SUFFICES ASSUME Init PROVE ClientInv OBVIOUS
<1>1. PICK cfg : InitManager(cfg) BY DEF Init
<1>2. \A a \in Attempts : attempt[a] = Idle /\ client[a] = "none" BY <1>1 DEF InitManager
<1>3. \A d \in Closers : closing[d] = NotClosing BY <1>1 DEF InitManager
<1>4. Objects
  <2>1. /\ held <=> cfg # None
        /\ gen = IF cfg = None THEN 0 ELSE 1
        /\ client = [a \in Attempts |-> "none"]
    BY <1>1 DEF InitManager
  <2> QED BY <1>2, <2>1 DEF Objects, Idle
<1>5. state.tools = NoOne /\ connecting = NoOne BY <1>1 DEF InitManager, NewObject
<1> QED BY <1>2, <1>3, <1>4, <1>5
        DEF ClientInv, ClosingIsQuiet, Pending, ServingIsHeld, Serving, TryingIsHeld, Current,
            ConnectingIsCurrent, ToolsAreOwn, LateIsCut, Going, ClientsAreKnown, Idle

\* No disconnection is going, nor an attempt that is current for the object there will be.
Ready ==
  /\ connecting = NoOne
  /\ \A d \in Closers : ~Pending(d)
  /\ \A a \in Attempts : ~Serving(a) /\ ~Current(a)
  /\ \A a \in Attempts : attempt[a].at # "idle" => ~(attempt[a].gen = gen' /\ attempt[a].rev = revision)

LEMMA ConnectClients ==
  ASSUME ManagerInv, ClientInv, Ready, held', gen' \in Nat, gen <= gen', gen' > 0,
         UNCHANGED <<revision, closing, cut>>,
         NEW s, s.tools = NoOne, s.status # "connected", IsObject(s), ConnectServer(s)
  PROVE  ClientInv'
<1>1. PICK a \in Attempts :
        /\ Free(a)
        /\ attempt' = [attempt EXCEPT ![a] = [at |-> "opening", gen |-> gen', rev |-> revision]]
        /\ client' = [client EXCEPT ![a] = "open"] /\ connecting' = a
        /\ state' = [s EXCEPT !.status = "connecting", !.client = a]
  BY DEF ConnectServer, Ready
<1>2. /\ attempt \in [Attempts -> [at : Places, gen : Nat, rev : Nat]]
      /\ client \in [Attempts -> {"none", "open", "closing", "closed"}] /\ gen \in Nat
  BY DEF ManagerInv, Revisions, ClientInv, Objects
<1>3. /\ attempt'[a] = [at |-> "opening", gen |-> gen', rev |-> revision] /\ client'[a] = "open"
      /\ \A b \in Attempts : b # a => attempt'[b] = attempt[b] /\ client'[b] = client[b]
  BY <1>1, <1>2
<1>4. /\ state'.client = a /\ state'.status = "connecting" /\ state'.tools = NoOne
  BY <1>1 DEF IsObject
<1>5. \A b \in Attempts : Current(b)' => b = a
  BY <1>3 DEF Current, IsCurrent, HasObject, Ready
<1>6. Objects'
  BY <1>1, <1>2, <1>3 DEF ClientInv, Objects
<1>7. ClosingIsQuiet' BY DEF ClosingIsQuiet, Pending, Ready
<1>8. ServingIsHeld' BY <1>3 DEF ServingIsHeld, Serving, Ready
<1>9. TryingIsHeld' BY <1>1, <1>3, <1>4, <1>5 DEF TryingIsHeld
<1>10. ConnectingIsCurrent'
  BY <1>1, <1>3 DEF ConnectingIsCurrent, Current, IsCurrent, HasObject, Going
<1>11. ToolsAreOwn' BY <1>4 DEF ToolsAreOwn
<1>12. LateIsCut'
  BY <1>3 DEF ClientInv, LateIsCut, Going, IsCurrent, HasObject, Ready, Current
<1>13. ClientsAreKnown' BY <1>3 DEF ClientInv, ClientsAreKnown
<1> QED BY <1>6, <1>7, <1>8, <1>9, <1>10, <1>11, <1>12, <1>13 DEF ClientInv

\* A disconnection, when no other is going.
LEMMA DisconnectClients ==
  ASSUME ManagerInv, ClientInv, NEW d \in Closers, DisconnectServer(d),
         held, \A e \in Closers : ~Pending(e)
  PROVE  ClientInv' /\ held' /\ Halted(d)'
<1>1. /\ revision' = revision + 1 /\ retry' = NoRetry /\ connecting' = NoOne
      /\ cut' = cut \cup {a \in Attempts : Going(a)}
      /\ held' = held /\ gen' = gen /\ attempt' = attempt
  BY DEF DisconnectServer
<1>2. /\ attempt \in [Attempts -> [at : Places, gen : Nat, rev : Nat]] /\ revision \in Nat
      /\ \A a \in Attempts : attempt[a].rev <= revision
      /\ client \in [Attempts -> {"none", "open", "closing", "closed"}] /\ gen \in Nat
      /\ closing \in [Closers -> [gen : Nat, client : Clients]] /\ IsObject(state)
      /\ gen > 0
  BY DEF ManagerInv, Revisions, KnownClients, ClientInv, Objects
<1>3. \A a \in Attempts : ~IsCurrent(a)' BY <1>1, <1>2 DEF IsCurrent
<1>4. Quiet' BY <1>1, <1>3 DEF Quiet, Current
<1>5. TryingIsHeld' /\ ConnectingIsCurrent' BY <1>1, <1>3 DEF TryingIsHeld, ConnectingIsCurrent, Current
<1>6. LateIsCut' BY <1>1 DEF LateIsCut, Going
<1>7. CASE state.client = NoOne
  <2>1. state' = Down(state) /\ client' = client /\ closing' = closing
    BY <1>7 DEF DisconnectServer, ToClose
  <2>2. state'.client = NoOne /\ state'.status = "disconnected" /\ state'.tools = NoOne
    BY <1>2, <2>1 DEF Down, IsObject
  <2>3. \A a \in Attempts : ~Serving(a)
    BY <1>7, McpConnectionsAssumption DEF ClientInv, ServingIsHeld
  <2>4. Objects' /\ ClosingIsQuiet' /\ ServingIsHeld' /\ ToolsAreOwn' /\ ClientsAreKnown'
    BY <1>1, <2>1, <2>2, <2>3
       DEF ClientInv, Objects, ClosingIsQuiet, Pending, ServingIsHeld, Serving, ToolsAreOwn,
           ClientsAreKnown
  <2> QED BY <1>1, <1>4, <1>5, <1>6, <2>1, <2>2, <2>4 DEF ClientInv, Halted, Pending
<1>8. CASE state.client # NoOne
  <2> DEFINE c == state.client
             first == client[c] = "open"
             p == [gen |-> gen, client |-> IF first THEN c ELSE NoOne]
  <2>1. /\ client' = [client EXCEPT ![c] = IF first THEN "closing" ELSE @]
        /\ closing' = [closing EXCEPT ![d] = p] /\ state' = state
    BY <1>8 DEF DisconnectServer, ToClose
  <2>2. c \in Attempts BY <1>2, <1>8 DEF IsObject, Clients
  <2>3. /\ closing'[d] = p /\ \A e \in Closers : e # d => closing'[e] = closing[e]
        /\ p # NotClosing /\ p.gen = gen
    BY <1>2, <2>1 DEF NotClosing
  <2>4. /\ client' \in [Attempts -> {"none", "open", "closing", "closed"}]
        /\ \A a \in Attempts : client'[a] = IF a = c /\ first THEN "closing" ELSE client[a]
    BY <1>2, <2>1, <2>2
  <2>5. first => p.client = c BY <2>2
  <2>6. Objects' BY <1>1, <1>2, <2>4 DEF ClientInv, Objects
  <2>7. ClosingIsQuiet' BY <1>1, <1>4, <2>3 DEF ClosingIsQuiet, Pending
  <2>8. ServingIsHeld'
    <3> SUFFICES ASSUME NEW a \in Attempts, Serving(a)'
                 PROVE  /\ HasObject(a)' /\ state'.client = a /\ state'.status = "connected"
                        /\ client'[a] = "closing" /\ \E e \in Closers : closing'[e].client = a
      BY DEF ServingIsHeld
    <3>1. Serving(a) BY <1>1 DEF Serving
    <3>2. /\ HasObject(a) /\ c = a /\ state.status = "connected"
          /\ client[a] = "open" \/ \E e \in Closers : closing[e].client = a
      BY <3>1 DEF ClientInv, ServingIsHeld
    <3>3. a # NoOne BY McpConnectionsAssumption
    <3>4. client[a] = "open" BY <3>2, <3>3 DEF Pending, NotClosing
    <3> QED BY <1>1, <2>1, <2>3, <2>4, <2>5, <3>2, <3>4 DEF HasObject
  <2>9. ToolsAreOwn' BY <2>1 DEF ClientInv, ToolsAreOwn
  <2>10. ClientsAreKnown'
    <3>1. \A a \in Attempts : \A e \in Closers : closing[e].client # a
      BY McpConnectionsAssumption DEF Pending, NotClosing
    <3> QED BY <1>1, <2>3, <2>4, <2>5, <3>1 DEF ClientInv, ClientsAreKnown
  <2> QED BY <1>1, <1>4, <1>5, <1>6, <2>3, <2>6, <2>7, <2>8, <2>9, <2>10
          DEF ClientInv, Halted, Pending
<1> QED BY <1>7, <1>8

\* An attempt that was cut off ends, and its client with it.
LEMMA LateEnds ==
  ASSUME ManagerInv, ClientInv, NEW a \in Attempts, ~IsCurrent(a), ~Serving(a),
         attempt' = [attempt EXCEPT ![a] = Idle], client' = [client EXCEPT ![a] = "none"],
         cut' = cut \ {a}, UNCHANGED <<held, gen, revision, closing, state, retry, connecting>>
  PROVE  ClientInv' /\ \A d \in Closers : Halted(d) => Halted(d)'
<1>1. /\ attempt \in [Attempts -> [at : Places, gen : Nat, rev : Nat]] /\ gen \in Nat
      /\ client \in [Attempts -> {"none", "open", "closing", "closed"}]
  BY DEF ManagerInv, Revisions, ClientInv, Objects
<1>2. /\ attempt'[a] = Idle /\ client'[a] = "none" /\ attempt'[a].at = "idle" /\ attempt'[a].gen = 0
      /\ \A b \in Attempts : b # a => attempt'[b] = attempt[b] /\ client'[b] = client[b]
  BY <1>1 DEF Idle
<1>3. \A b \in Attempts : Current(b)' <=> Current(b)
  BY <1>2 DEF Current, IsCurrent, HasObject
<1>4. \A b \in Attempts : Serving(b)' <=> Serving(b) BY <1>2 DEF Serving
<1>5. Quiet' <=> Quiet BY <1>3 DEF Quiet
<1>6. Objects' BY <1>1, <1>2 DEF ClientInv, Objects
<1>7. ClosingIsQuiet' BY <1>5 DEF ClientInv, ClosingIsQuiet, Pending
<1>8. ServingIsHeld'
  BY <1>2, <1>4 DEF ClientInv, ServingIsHeld, HasObject, IsCurrent
<1>9. TryingIsHeld' BY <1>2, <1>3, <1>4 DEF ClientInv, TryingIsHeld, Current
<1>10. ConnectingIsCurrent'
  BY <1>2, <1>3 DEF ClientInv, ConnectingIsCurrent, Current, Going
<1>11. ToolsAreOwn' BY DEF ClientInv, ToolsAreOwn
<1>12. LateIsCut' BY <1>2 DEF ClientInv, LateIsCut, Going, IsCurrent, HasObject
<1>13. ClientsAreKnown' BY <1>2 DEF ClientInv, ClientsAreKnown
<1>14. \A d \in Closers : Halted(d) => Halted(d)' BY <1>5 DEF Halted, Pending
<1> QED BY <1>6, <1>7, <1>8, <1>9, <1>10, <1>11, <1>12, <1>13, <1>14 DEF ClientInv

LEMMA ConnectedClients ==
  ASSUME ManagerInv, ClientInv, NEW a \in Attempts, Connected(a)
  PROVE  ClientInv' /\ \A d \in Closers : Halted(d) => Halted(d)'
<1>1. /\ attempt \in [Attempts -> [at : Places, gen : Nat, rev : Nat]] /\ gen \in Nat
      /\ client \in [Attempts -> {"none", "open", "closing", "closed"}]
      /\ attempt[a].at = "opening" /\ a # NoOne /\ IsObject(state)
  BY McpConnectionsAssumption
     DEF ManagerInv, Revisions, KnownClients, ClientInv, Objects, Connected
<1>2. UNCHANGED <<held, gen, revision, closing>> BY DEF Connected
<1>3. CASE IsCurrent(a)
  <2>1. /\ state' = [state EXCEPT !.status = "connected", !.client = a] /\ retry' = NoRetry
        /\ attempt' = [attempt EXCEPT ![a].at = "listing"]
        /\ UNCHANGED <<connecting, client, cut>>
    BY <1>3 DEF Connected
  <2>2. Current(a) /\ ~Serving(a) BY <1>1, <1>3 DEF Current, Serving
  <2>3. /\ connecting = a /\ state.client = a /\ state.status = "connecting" /\ client[a] = "open"
        /\ state.tools = NoOne
    BY <1>1, <2>2 DEF ClientInv, TryingIsHeld, ToolsAreOwn
  <2>4. state'.client = a /\ state'.status = "connected" /\ state'.tools = NoOne
    BY <1>1, <2>1, <2>3 DEF IsObject
  <2>5. /\ attempt'[a].at = "listing" /\ attempt'[a].gen = attempt[a].gen
        /\ attempt'[a].rev = attempt[a].rev
        /\ \A b \in Attempts : b # a => attempt'[b] = attempt[b]
    BY <1>1, <2>1
  <2>6. \A b \in Attempts : b # a => ~Serving(b) /\ ~Current(b)
    BY <2>3 DEF ClientInv, ServingIsHeld, TryingIsHeld
  <2>7. \A d \in Closers : ~Pending(d) BY <2>2 DEF ClientInv, ClosingIsQuiet, Quiet
  <2>8. IsCurrent(a)' /\ HasObject(a)' BY <1>2, <1>3, <2>5 DEF IsCurrent, HasObject
  <2>9. Objects' BY <1>2, <2>1, <2>5 DEF ClientInv, Objects
  <2>10. ClosingIsQuiet' BY <1>2, <2>7 DEF ClosingIsQuiet, Pending
  <2>11. ServingIsHeld' BY <2>1, <2>3, <2>4, <2>5, <2>6, <2>8 DEF ServingIsHeld, Serving
  <2>12. TryingIsHeld'
    BY <1>2, <2>5, <2>6 DEF TryingIsHeld, Current, Serving, IsCurrent, HasObject
  <2>13. ConnectingIsCurrent'
    BY <2>1, <2>3, <2>5, <2>8 DEF ConnectingIsCurrent, Current, Going
  <2>14. ToolsAreOwn' BY <2>4 DEF ToolsAreOwn
  <2>15. LateIsCut'
    BY <1>2, <2>1, <2>5, <2>8 DEF ClientInv, LateIsCut, Going, IsCurrent, HasObject
  <2>16. ClientsAreKnown' BY <1>2, <2>1, <2>5 DEF ClientInv, ClientsAreKnown
  <2>17. \A d \in Closers : ~Halted(d) BY <1>3, <2>2 DEF Halted, Quiet, IsCurrent, HasObject
  <2> QED BY <2>9, <2>10, <2>11, <2>12, <2>13, <2>14, <2>15, <2>16, <2>17 DEF ClientInv
<1>4. CASE ~IsCurrent(a)
  <2>1. /\ attempt' = [attempt EXCEPT ![a] = Idle] /\ client' = [client EXCEPT ![a] = "none"]
        /\ cut' = cut \ {a} /\ Leaves(a) /\ UNCHANGED <<state, retry>>
    BY <1>4 DEF Connected
  <2>2. connecting' = connecting
    BY <1>4, <2>1 DEF Leaves, ClientInv, ConnectingIsCurrent, Current
  <2>3. ~Serving(a) BY <1>1 DEF Serving
  <2> QED BY <1>2, <1>4, <2>1, <2>2, <2>3, LateEnds
<1> QED BY <1>3, <1>4

LEMMA ConnectFailsClients ==
  ASSUME ManagerInv, ClientInv, NEW a \in Attempts, ConnectFails(a)
  PROVE  ClientInv' /\ \A d \in Closers : Halted(d) => Halted(d)'
<1>1. /\ attempt \in [Attempts -> [at : Places, gen : Nat, rev : Nat]] /\ gen \in Nat
      /\ client \in [Attempts -> {"none", "open", "closing", "closed"}]
      /\ attempt[a].at = "opening"
  BY DEF ManagerInv, Revisions, ClientInv, Objects, ConnectFails
<1>2. /\ attempt' = [attempt EXCEPT ![a].at = "failing"] /\ client' = [client EXCEPT ![a] = "closed"]
      /\ UNCHANGED <<cut, held, gen, state, revision, connecting, retry, closing>>
  BY <1>1 DEF ConnectFails, Drop
<1>3. /\ attempt'[a].at = "failing" /\ attempt'[a].gen = attempt[a].gen
      /\ attempt'[a].rev = attempt[a].rev /\ client'[a] = "closed"
      /\ \A b \in Attempts : b # a => attempt'[b] = attempt[b] /\ client'[b] = client[b]
  BY <1>1, <1>2
<1>4. \A b \in Attempts : Current(b)' <=> Current(b)
  BY <1>1, <1>2, <1>3 DEF Current, IsCurrent, HasObject
<1>5. \A b \in Attempts : Serving(b)' <=> Serving(b) BY <1>1, <1>3 DEF Serving
<1>6. Quiet' <=> Quiet BY <1>2, <1>4 DEF Quiet
<1>7. Objects' BY <1>1, <1>2, <1>3 DEF ClientInv, Objects
<1>8. ClosingIsQuiet' BY <1>2, <1>6 DEF ClientInv, ClosingIsQuiet, Pending
<1>9. ServingIsHeld'
  BY <1>1, <1>2, <1>3, <1>5 DEF ClientInv, ServingIsHeld, HasObject, IsCurrent, Serving
<1>10. TryingIsHeld' BY <1>2, <1>3, <1>4, <1>5 DEF ClientInv, TryingIsHeld
<1>11. ConnectingIsCurrent'
  BY <1>1, <1>2, <1>3, <1>4 DEF ClientInv, ConnectingIsCurrent, Going
<1>12. ToolsAreOwn' BY <1>2 DEF ClientInv, ToolsAreOwn
<1>13. LateIsCut' BY <1>1, <1>2, <1>3 DEF ClientInv, LateIsCut, Going, IsCurrent, HasObject
<1>14. ClientsAreKnown' BY <1>2, <1>3 DEF ClientInv, ClientsAreKnown
<1>15. \A d \in Closers : Halted(d) => Halted(d)' BY <1>2, <1>6 DEF Halted, Pending
<1> QED BY <1>7, <1>8, <1>9, <1>10, <1>11, <1>12, <1>13, <1>14, <1>15 DEF ClientInv

\* An attempt that is current ends, and leaves the object without a client.
LEMMA CurrentEnds ==
  ASSUME ManagerInv, ClientInv, NEW a \in Attempts, Current(a), state.client = a,
         attempt' = [attempt EXCEPT ![a] = Idle], client' = [client EXCEPT ![a] = "none"],
         cut' = cut \ {a}, UNCHANGED <<held, gen, revision, closing>>, Leaves(a),
         state'.client = NoOne, state'.tools = NoOne
  PROVE  ClientInv' /\ \A d \in Closers : Halted(d) => Halted(d)'
<1>1. /\ attempt \in [Attempts -> [at : Places, gen : Nat, rev : Nat]] /\ gen \in Nat
      /\ client \in [Attempts -> {"none", "open", "closing", "closed"}]
  BY DEF ManagerInv, Revisions, ClientInv, Objects
<1>2. /\ attempt'[a] = Idle /\ client'[a] = "none" /\ attempt'[a].at = "idle" /\ attempt'[a].gen = 0
      /\ \A b \in Attempts : b # a => attempt'[b] = attempt[b] /\ client'[b] = client[b]
  BY <1>1 DEF Idle
<1>3. \A b \in Attempts : b # a => ~Serving(b) /\ ~Current(b)
  BY DEF ClientInv, ServingIsHeld, TryingIsHeld
<1>4. \A d \in Closers : ~Pending(d) BY DEF ClientInv, ClosingIsQuiet, Quiet
<1>5. \A b \in Attempts : ~Serving(b)' /\ ~Current(b)'
  BY <1>2, <1>3 DEF Serving, Current, IsCurrent, HasObject
<1>6. connecting' = NoOne
  BY <1>3, McpConnectionsAssumption DEF ClientInv, ConnectingIsCurrent, Leaves
<1>7. Objects' BY <1>1, <1>2 DEF ClientInv, Objects
<1>8. ClosingIsQuiet' BY <1>4 DEF ClosingIsQuiet, Pending
<1>9. ServingIsHeld' /\ TryingIsHeld' BY <1>5 DEF ServingIsHeld, TryingIsHeld
<1>10. ConnectingIsCurrent' /\ ToolsAreOwn' BY <1>6 DEF ConnectingIsCurrent, ToolsAreOwn
<1>11. LateIsCut' BY <1>2 DEF ClientInv, LateIsCut, Going, IsCurrent, HasObject
<1>12. ClientsAreKnown' BY <1>2 DEF ClientInv, ClientsAreKnown
<1>13. \A d \in Closers : ~Halted(d) BY DEF Halted, Quiet, Current, IsCurrent, HasObject
<1> QED BY <1>7, <1>8, <1>9, <1>10, <1>11, <1>12, <1>13 DEF ClientInv

LEMMA FailedClients ==
  ASSUME ManagerInv, ClientInv, NEW a \in Attempts, Failed(a)
  PROVE  ClientInv' /\ \A d \in Closers : Halted(d) => Halted(d)'
<1>1. /\ attempt[a].at = "failing" /\ IsObject(state) /\ ~Serving(a)
      /\ attempt' = [attempt EXCEPT ![a] = Idle] /\ client' = [client EXCEPT ![a] = "none"]
      /\ cut' = cut \ {a} /\ Leaves(a) /\ UNCHANGED <<held, gen, revision, closing>>
  BY DEF Failed, Serving, ManagerInv, KnownClients
<1>2. CASE IsCurrent(a)
  <2>1. Current(a) BY <1>1, <1>2 DEF Current
  <2>2. state.client = a /\ state.tools = NoOne
    BY <1>1, <2>1 DEF ClientInv, TryingIsHeld, ToolsAreOwn
  <2>3. state' = Broken(state) BY <1>2 DEF Failed
  <2>4. state'.client = NoOne /\ state'.tools = NoOne BY <1>1, <2>2, <2>3 DEF Broken, IsObject
  <2> QED BY <1>1, <2>1, <2>2, <2>4, CurrentEnds
<1>3. CASE ~IsCurrent(a)
  <2>1. UNCHANGED <<state, retry>> BY <1>3 DEF Failed
  <2>2. connecting' = connecting
    BY <1>1, <1>3 DEF Leaves, ClientInv, ConnectingIsCurrent, Current
  <2> QED BY <1>1, <1>3, <2>1, <2>2, LateEnds
<1> QED BY <1>2, <1>3

LEMMA TransportClients ==
  ASSUME ManagerInv, ClientInv, NEW a \in Attempts, TransportCloses(a)
  PROVE  ClientInv' /\ \A d \in Closers : Halted(d) => Halted(d)'
<1>1. /\ Serving(a) /\ attempt[a].at # "opening" /\ client[a] = "open" /\ IsObject(state)
      /\ attempt \in [Attempts -> [at : Places, gen : Nat, rev : Nat]]
  BY DEF TransportCloses, Serving, ManagerInv, Revisions, KnownClients
<1>2. /\ attempt' = [attempt EXCEPT ![a] = Idle] /\ client' = [client EXCEPT ![a] = "none"]
      /\ cut' = cut \ {a} /\ Leaves(a) /\ UNCHANGED <<held, gen, revision, closing>>
  BY <1>1 DEF TransportCloses, Drop
<1>3. IsCurrent(a) /\ state.client = a /\ state.status = "connected"
  BY <1>1 DEF ClientInv, ServingIsHeld
<1>4. Current(a) BY <1>1, <1>3 DEF Current, Serving
<1>5. state' = Torn(state) BY <1>3 DEF TransportCloses
<1>6. state'.client = NoOne /\ state'.tools = NoOne BY <1>1, <1>5 DEF Torn, Broken, IsObject
<1> QED BY <1>2, <1>3, <1>4, <1>6, CurrentEnds

LEMMA ListedClients ==
  ASSUME ManagerInv, ClientInv, NEW a \in Attempts, Listed(a)
  PROVE  ClientInv' /\ \A d \in Closers : Halted(d) => Halted(d)'
<1>1. /\ attempt \in [Attempts -> [at : Places, gen : Nat, rev : Nat]] /\ gen \in Nat
      /\ client \in [Attempts -> {"none", "open", "closing", "closed"}]
      /\ attempt[a].at = "listing" /\ Serving(a) /\ IsObject(state) /\ a # NoOne
  BY McpConnectionsAssumption
     DEF ManagerInv, Revisions, KnownClients, ClientInv, Objects, Listed, Serving
<1>2. /\ attempt' = [attempt EXCEPT ![a].at = "done"] /\ Leaves(a)
      /\ UNCHANGED <<held, gen, revision, retry, client, closing, cut>>
      /\ state' = state \/ state' = [state EXCEPT !.tools = a]
  BY DEF Listed
<1>3. /\ attempt'[a].at = "done" /\ attempt'[a].gen = attempt[a].gen
      /\ attempt'[a].rev = attempt[a].rev
      /\ \A b \in Attempts : b # a => attempt'[b] = attempt[b]
  BY <1>1, <1>2
<1>4. /\ state'.client = state.client /\ state'.status = state.status
      /\ state'.tools \in {state.tools, a}
  BY <1>1, <1>2 DEF IsObject
<1>5. \A b \in Attempts : Current(b)' <=> Current(b)
  BY <1>1, <1>2, <1>3 DEF Current, IsCurrent, HasObject
<1>6. \A b \in Attempts : Serving(b)' <=> Serving(b) BY <1>1, <1>3 DEF Serving
<1>7. state.client = a /\ state.status = "connected" BY <1>1 DEF ClientInv, ServingIsHeld
<1>8. Quiet => Quiet' BY <1>2, <1>5 DEF Quiet, Leaves
<1>9. Objects' BY <1>1, <1>2, <1>3 DEF ClientInv, Objects
<1>10. ClosingIsQuiet' BY <1>2, <1>8 DEF ClientInv, ClosingIsQuiet, Pending
<1>11. ServingIsHeld'
  BY <1>2, <1>3, <1>4, <1>6 DEF ClientInv, ServingIsHeld, HasObject, IsCurrent
<1>12. TryingIsHeld'
  BY <1>1, <1>2, <1>3, <1>4, <1>5, <1>6 DEF ClientInv, TryingIsHeld, Leaves
<1>13. ConnectingIsCurrent'
  BY <1>2, <1>3, <1>5 DEF ClientInv, ConnectingIsCurrent, Leaves, Going
<1>14. ToolsAreOwn' BY <1>4, <1>7 DEF ClientInv, ToolsAreOwn
<1>15. LateIsCut' BY <1>1, <1>2, <1>3 DEF ClientInv, LateIsCut, Going, IsCurrent, HasObject
<1>16. ClientsAreKnown' BY <1>2, <1>3 DEF ClientInv, ClientsAreKnown
<1>17. \A d \in Closers : Halted(d) => Halted(d)' BY <1>2, <1>4, <1>8 DEF Halted, Pending
<1> QED BY <1>9, <1>10, <1>11, <1>12, <1>13, <1>14, <1>15, <1>16, <1>17 DEF ClientInv

\* The client is closed: its disconnection was the only one.
LEMMA ClosedClients ==
  ASSUME ManagerInv, ClientInv, NEW d \in Closers, Closed(d)
  PROVE  ClientInv' /\ \A e \in Closers : Halted(e) => Halted(e)'
<1>1. /\ attempt \in [Attempts -> [at : Places, gen : Nat, rev : Nat]] /\ gen \in Nat
      /\ client \in [Attempts -> {"none", "open", "closing", "closed"}]
      /\ closing \in [Closers -> [gen : Nat, client : Clients]] /\ IsObject(state)
  BY DEF ManagerInv, Revisions, KnownClients, ClientInv, Objects
<1>2. /\ held /\ closing[d].gen = gen /\ Quiet
      /\ \A e \in Closers : e # d => closing[e] = NotClosing
  BY DEF ClientInv, ClosingIsQuiet, Pending, Closed
<1>3. /\ closing' = [closing EXCEPT ![d] = NotClosing] /\ state' = Down(state)
      /\ UNCHANGED <<held, gen, revision, connecting, retry>>
  BY <1>2 DEF Closed
<1>4. \A e \in Closers : ~Pending(e)' BY <1>1, <1>2, <1>3 DEF Pending
<1>5. state'.client = NoOne /\ state'.status = "disconnected" /\ state'.tools = NoOne
  BY <1>1, <1>3 DEF Down, IsObject
<1>6. \A b \in Attempts, e \in Closers : closing[e].client = b => e = d
  BY <1>2, McpConnectionsAssumption DEF NotClosing
<1>7. \A b \in Attempts :
        /\ closing[d].client # b => attempt'[b] = attempt[b] /\ client'[b] = client[b]
        /\ closing[d].client = b =>
             /\ client'[b] \in {"closed", "none"}
             /\ \/ /\ attempt[b].at = "opening" /\ attempt'[b].at = "failing"
                   /\ attempt'[b].gen = attempt[b].gen /\ attempt'[b].rev = attempt[b].rev
                \/ attempt'[b].at = "idle" /\ attempt'[b].gen = 0
  <2>1. CASE closing[d].client = NoOne
    BY <2>1, McpConnectionsAssumption DEF Closed
  <2>2. CASE closing[d].client # NoOne
    <3>1. closing[d].client \in Attempts /\ Drop(closing[d].client)
      BY <1>1, <2>2 DEF Closed, Clients
    <3> QED BY <1>1, <3>1 DEF Drop, Idle
  <2> QED BY <2>1, <2>2
<1>8. cut' \in {cut, cut \ {closing[d].client}}
      /\ (cut' # cut => attempt[closing[d].client].at # "opening" /\ closing[d].client \in Attempts)
  <2>1. CASE closing[d].client = NoOne BY <2>1 DEF Closed
  <2>2. CASE closing[d].client # NoOne
    BY <1>1, <2>2 DEF Closed, Drop, Clients
  <2> QED BY <2>1, <2>2
<1>9. \A b \in Attempts : ~Current(b)'
  BY <1>1, <1>2, <1>3, <1>7 DEF Quiet, Current, IsCurrent, HasObject
<1>10. \A b \in Attempts : ~Serving(b)'
  <2>1. \A b \in Attempts : Serving(b) => closing[d].client = b
    BY <1>2, <1>6 DEF ClientInv, ServingIsHeld, Quiet, Current, Serving
  <2> QED BY <1>1, <1>7, <2>1 DEF Serving
<1>11. Quiet' BY <1>2, <1>3, <1>9 DEF Quiet
<1>12. Objects'
  <2>1. client' \in [Attempts -> {"none", "open", "closing", "closed"}]
    <3>1. CASE closing[d].client = NoOne BY <1>1, <3>1 DEF Closed
    <3>2. CASE closing[d].client # NoOne BY <1>1, <3>2 DEF Closed, Drop, Clients
    <3> QED BY <3>1, <3>2
  <2>2. \A b \in Attempts : attempt'[b].gen <= gen
    BY <1>1, <1>7 DEF ClientInv, Objects
  <2> QED BY <1>3, <2>1, <2>2 DEF ClientInv, Objects
<1>13. ClosingIsQuiet' BY <1>4 DEF ClosingIsQuiet
<1>14. ServingIsHeld' /\ TryingIsHeld' BY <1>9, <1>10 DEF ServingIsHeld, TryingIsHeld
<1>15. ConnectingIsCurrent' /\ ToolsAreOwn'
  BY <1>5, <1>11 DEF ConnectingIsCurrent, ToolsAreOwn, Quiet
<1>16. LateIsCut'
  <2>1. \A b \in Attempts : Going(b)' => Going(b) /\ b \in cut'
    <3> SUFFICES ASSUME NEW b \in Attempts, Going(b)' PROVE Going(b) /\ b \in cut' OBVIOUS
    <3>1. Going(b) BY <1>7 DEF Going
    <3>2. b \in cut
      BY <1>2, <3>1 DEF ClientInv, LateIsCut, Quiet, Current, Going
    <3>3. closing[d].client = b => attempt[b].at = "opening" BY <1>7 DEF Going
    <3> QED BY <1>8, <3>1, <3>2, <3>3
  <2> QED BY <2>1 DEF LateIsCut
<1>17. ClientsAreKnown'
  <2>1. \A b \in Attempts : client[b] # "closing" \/ closing[d].client = b
    BY <1>6 DEF ClientInv, ClientsAreKnown
  <2> QED BY <1>7, <2>1 DEF ClientInv, ClientsAreKnown
<1>18. \A e \in Closers : Halted(e)' BY <1>4, <1>5, <1>11 DEF Halted
<1> QED BY <1>12, <1>13, <1>14, <1>15, <1>16, <1>17, <1>18 DEF ClientInv

LEMMA RetryClients ==
  ASSUME ManagerInv, ClientInv, RetryFires
  PROVE  ClientInv' /\ \A d \in Closers : Halted(d) => Halted(d)'
<1>1. /\ retry # NoRetry /\ UNCHANGED <<held, gen, revision, closing, cut>>
      /\ IsObject(state) /\ gen \in Nat
  BY DEF RetryFires, ManagerInv, Revisions, KnownClients
<1>2. \A d \in Closers : ~Pending(d) BY <1>1 DEF ClientInv, ClosingIsQuiet, Quiet
<1>3. \A d \in Closers : Halted(d) => Halted(d)' BY <1>1 DEF Halted, Quiet
<1>4. CASE UNCHANGED <<state, connecting, attempt, client>>
  <2>1. /\ \A a \in Attempts : Current(a)' <=> Current(a)
        /\ \A a \in Attempts : Serving(a)' <=> Serving(a)
    BY <1>1, <1>4 DEF Current, Serving, IsCurrent, HasObject
  <2>2. ClosingIsQuiet' BY <1>1, <1>2 DEF ClosingIsQuiet, Pending
  <2>3. ServingIsHeld'
    BY <1>1, <1>4, <2>1 DEF ClientInv, ServingIsHeld, HasObject, IsCurrent
  <2>4. TryingIsHeld' BY <1>1, <1>4, <2>1 DEF ClientInv, TryingIsHeld
  <2>5. Objects' /\ ConnectingIsCurrent' /\ ToolsAreOwn' /\ LateIsCut' /\ ClientsAreKnown'
    BY <1>1, <1>4, <2>1
       DEF ClientInv, Objects, ConnectingIsCurrent, ToolsAreOwn, LateIsCut, ClientsAreKnown, Going,
           IsCurrent, HasObject
  <2> QED BY <1>3, <2>2, <2>3, <2>4, <2>5 DEF ClientInv
<1>5. CASE ~UNCHANGED <<state, connecting, attempt, client>>
  <2>1. held /\ ConnectServer(state) BY <1>5 DEF RetryFires
  <2>2. connecting = NoOne /\ state.status # "connected" BY <1>5, <2>1 DEF ConnectServer
  <2>3. \A a \in Attempts : ~Serving(a) /\ ~Current(a)
    BY <2>2, McpConnectionsAssumption DEF ClientInv, ServingIsHeld, TryingIsHeld
  <2>4. Ready
    BY <1>1, <1>2, <2>1, <2>2, <2>3 DEF Ready, Current, IsCurrent, HasObject
  <2>5. state.tools = NoOne BY <2>2 DEF ClientInv, ToolsAreOwn
  <2>6. gen > 0 /\ held' /\ gen' = gen BY <1>1, <2>1 DEF ClientInv, Objects
  <2> QED BY <1>1, <1>3, <2>1, <2>2, <2>4, <2>5, <2>6, ConnectClients
<1> QED BY <1>4, <1>5

\* The object is made, and connected.
LEMMA AddClients ==
  ASSUME ManagerInv, ClientInv, ~held, held', gen' = gen + 1, NEW goal,
         ConnectServer(NewObject(goal)), UNCHANGED <<revision, closing, cut>>
  PROVE  ClientInv'
<1>1. gen \in Nat /\ \A a \in Attempts : attempt[a].gen \in Nat /\ attempt[a].gen <= gen
  BY DEF ManagerInv, Revisions, ClientInv, Objects
<1>2. /\ connecting = NoOne /\ \A d \in Closers : ~Pending(d)
      /\ \A a \in Attempts : ~Serving(a) /\ ~Current(a)
  BY DEF ClientInv, ConnectingIsCurrent, Current, IsCurrent, HasObject, ClosingIsQuiet,
         ServingIsHeld
<1>3. Ready BY <1>1, <1>2 DEF Ready
<1>4. /\ IsObject(NewObject(goal)) /\ NewObject(goal).tools = NoOne
      /\ NewObject(goal).status # "connected"
  BY DEF NewObject, IsObject, Clients
<1> QED BY <1>1, <1>3, <1>4, ConnectClients

\* After its disconnection the object is removed, or connected with its new configuration.
LEMMA ProceedClients ==
  ASSUME ManagerInv, ClientInv, Proceed, held, Halted("chain")
  PROVE  ClientInv'
<1>1. /\ state.client = NoOne /\ state.status = "disconnected" /\ Quiet
      /\ \A d \in Closers : ~Pending(d)
  BY DEF Proceed, Halted, Pending
<1>2. state.tools = NoOne /\ \A a \in Attempts : ~Serving(a) /\ ~Current(a)
  BY <1>1, McpConnectionsAssumption DEF ClientInv, ToolsAreOwn, ServingIsHeld, Quiet
<1>3. /\ UNCHANGED <<revision, retry, closing, cut>> /\ gen \in Nat /\ IsObject(state)
      /\ connecting = NoOne /\ gen > 0
  BY <1>1 DEF Proceed, ManagerInv, Revisions, KnownClients, Quiet, ClientInv, Objects
<1>4. CASE chain.cfg = None
  <2>1. held' = FALSE /\ state' = NewObject(None) /\ UNCHANGED <<connecting, attempt, client, gen>>
    BY <1>4 DEF Proceed
  <2>2. state'.tools = NoOne BY <2>1 DEF NewObject
  <2>3. \A a \in Attempts : ~Serving(a)' /\ ~Current(a)'
    BY <1>2, <2>1 DEF Serving, Current, IsCurrent, HasObject
  <2>4. Objects' BY <2>1 DEF ClientInv, Objects
  <2>5. ClosingIsQuiet' BY <1>1, <1>3 DEF ClosingIsQuiet, Pending
  <2>6. ServingIsHeld' /\ TryingIsHeld' BY <2>3 DEF ServingIsHeld, TryingIsHeld
  <2>7. ConnectingIsCurrent' /\ ToolsAreOwn'
    BY <1>3, <2>1, <2>2 DEF ConnectingIsCurrent, ToolsAreOwn
  <2>8. LateIsCut' BY <1>2, <1>3, <2>1 DEF ClientInv, LateIsCut, Going, Current
  <2>9. ClientsAreKnown' BY <1>3, <2>1 DEF ClientInv, ClientsAreKnown
  <2> QED BY <2>4, <2>5, <2>6, <2>7, <2>8, <2>9 DEF ClientInv
<1>5. CASE chain.cfg # None
  <2> DEFINE s == [state EXCEPT !.cfg = chain.cfg]
  <2>1. ConnectServer(s) /\ held' = held /\ gen' = gen BY <1>5 DEF Proceed
  <2>2. s.tools = NoOne /\ s.status # "connected" /\ IsObject(s)
    BY <1>1, <1>2, <1>3 DEF IsObject
  <2>3. Ready
    BY <1>1, <1>2, <1>3, <2>1 DEF Ready, Current, IsCurrent, HasObject
  <2> HIDE DEF s
  <2> QED BY <1>3, <2>1, <2>2, <2>3, ConnectClients
<1> QED BY <1>4, <1>5

\* Who is disconnected once more stays so.
LEMMA DisconnectHalted ==
  ASSUME ManagerInv, ClientInv, NEW d \in Closers, DisconnectServer(d), NEW e \in Closers, Halted(e),
         held => \A f \in Closers : ~Pending(f)
  PROVE  Halted(e)'
<1>1. CASE ~held BY <1>1 DEF DisconnectServer, manager, Halted
<1>2. CASE held
  <2>1. /\ state.client = NoOne /\ Quiet /\ IsObject(state)
        /\ attempt \in [Attempts -> [at : Places, gen : Nat, rev : Nat]] /\ revision \in Nat
        /\ \A a \in Attempts : attempt[a].rev <= revision
    BY <1>2 DEF Halted, ManagerInv, Revisions, KnownClients
  <2>2. /\ state' = Down(state) /\ closing' = closing /\ attempt' = attempt
        /\ revision' = revision + 1 /\ retry' = NoRetry /\ connecting' = NoOne
    BY <1>2, <2>1 DEF DisconnectServer, ToClose
  <2>3. state'.client = NoOne /\ state'.status = "disconnected" BY <2>1, <2>2 DEF Down, IsObject
  <2>4. Quiet' BY <2>1, <2>2 DEF Quiet, Current, IsCurrent
  <2>5. \A f \in Closers : ~Pending(f)' BY <1>2, <2>2 DEF Pending
  <2> QED BY <2>3, <2>4, <2>5 DEF Halted
<1> QED BY <1>1, <1>2

\* What a reconciliation that waits for the disconnection finds after it.
IsPlace(c) == c = [at |-> c.at, who |-> c.who, cfg |-> c.cfg, on |-> c.on]
ChainStage == IsPlace(chain) /\ (chain.at = "closing" => held /\ Halted("chain"))

\* After the last disconnection of all nothing is left that could connect the server.
EndStage ==
  ending \in {"last", "over"} /\ Without({"late"}) =>
    queue = <<>> /\ chain = Resting /\ sync = Out /\ Halted("end")

OverStage == ending = "over" => AllDisconnected

ConnectionInv == Alone => ClientInv /\ ChainStage /\ EndStage /\ OverStage

LEMMA SameClients ==
  ASSUME UNCHANGED manager
  PROVE  /\ ClientInv => ClientInv'
         /\ \A d \in Closers : Halted(d) => Halted(d)'
         /\ AllDisconnected => AllDisconnected'
BY DEF manager, ClientInv, Objects, ClosingIsQuiet, ServingIsHeld, TryingIsHeld, ConnectingIsCurrent,
       ToolsAreOwn, LateIsCut, ClientsAreKnown, Quiet, Pending, Serving, Current, IsCurrent,
       HasObject, Going, Halted, AllDisconnected

\* The manager goes on by itself.
LEMMA ManagerConnections ==
  ASSUME ManagerInv, ClientInv, ChainStage, EndStage, ending # "over", ManagerStep
  PROVE  ClientInv' /\ ChainStage' /\ EndStage' /\ OverStage'
<1>1. UNCHANGED <<queue, chain, sync, ending, upset>> /\ held' = held
  BY DEF ManagerStep, requests, history, AttemptStep, Connected, ConnectFails, Failed, Listed,
         TransportCloses, RetryFires, Closed
<1>2. ClientInv' /\ \A d \in Closers : Halted(d) => Halted(d)'
  BY ConnectedClients, ConnectFailsClients, FailedClients, ListedClients, TransportClients,
     RetryClients, ClosedClients
     DEF ManagerStep, AttemptStep
<1>3. "chain" \in Closers /\ "end" \in Closers BY McpServersAssumption
<1> QED BY <1>1, <1>2, <1>3 DEF ChainStage, EndStage, OverStage, Without

\* Somebody disconnects the server, beside no other disconnection.
LEMMA DisconnectConnections ==
  ASSUME ManagerInv, ClientInv, NEW d \in Closers, Disconnect(d), Alone'
  PROVE  /\ ClientInv' /\ held' = held /\ Halted(d)'
         /\ \A e \in Closers : Halted(e) => Halted(e)'
         /\ upset \subseteq upset'
<1>1. held => \A e \in Closers : ~Pending(e)
  BY DEF Disconnect, Alone, Without, Pending
<1>2. DisconnectServer(d) /\ upset \subseteq upset' BY DEF Disconnect
<1>3. held' = held BY <1>2 DEF DisconnectServer, manager
<1>4. ClientInv' /\ Halted(d)'
  <2>1. CASE held BY <1>1, <1>2, <2>1, DisconnectClients
  <2>2. CASE ~held
    <3>1. UNCHANGED manager BY <1>2, <2>2 DEF DisconnectServer
    <3>2. ClientInv' BY <3>1, SameClients
    <3> QED BY <1>3, <2>2, <3>2 DEF Halted
  <2> QED BY <2>1, <2>2
<1> QED BY <1>1, <1>2, <1>3, <1>4, DisconnectHalted

LEMMA ReconcileConnections ==
  ASSUME ManagerInv, ClientInv, ChainStage, EndStage, Alone', ending # "over", Reconcile
  PROVE  ClientInv' /\ ChainStage' /\ EndStage' /\ OverStage' /\ upset \subseteq upset'
<1>1. "chain" \in Closers BY McpServersAssumption
<1>2. /\ chain = Resting /\ queue # <<>> /\ ending' = ending
      /\ chain.at = "idle"
  BY DEF Reconcile, Resting
<1>3. OverStage' BY <1>2 DEF OverStage
<1>4. ASSUME upset \subseteq upset' PROVE EndStage'
  BY <1>2, <1>4 DEF EndStage, Without
<1>5. CASE UNCHANGED manager /\ Answer /\ UNCHANGED <<halted, upset>>
  <2>1. chain' = Resting BY <1>5 DEF Answer
  <2>2. ChainStage' BY <2>1 DEF ChainStage, IsPlace, Resting
  <2> QED BY <1>3, <1>4, <1>5, <2>2, SameClients
<1>6. CASE held /\ Disconnect("chain") /\ ChainAt("closing", NoOne)
  <2>1. ClientInv' /\ held' = held /\ Halted("chain")' /\ upset \subseteq upset'
    BY <1>1, <1>6, DisconnectConnections
  <2>2. ChainStage' BY <1>6, <2>1 DEF ChainStage, IsPlace, ChainAt
  <2> QED BY <1>3, <1>4, <2>1, <2>2
<1>7. ASSUME NEW goal, ~held, held', gen' = gen + 1, ConnectServer(NewObject(goal)),
             ChainAt("waiting", connecting'), UNCHANGED <<revision, closing, cut, upset>>
      PROVE  ClientInv' /\ ChainStage' /\ EndStage' /\ OverStage' /\ upset \subseteq upset'
  <2>1. ClientInv' BY <1>7, AddClients
  <2>2. ChainStage' BY <1>7 DEF ChainStage, IsPlace, ChainAt
  <2> QED BY <1>3, <1>4, <1>7, <2>1, <2>2
<1> QED BY <1>5, <1>6, <1>7 DEF Reconcile

LEMMA ProceedConnections ==
  ASSUME ManagerInv, ClientInv, ChainStage, EndStage, ending # "over", Proceed
  PROVE  ClientInv' /\ ChainStage' /\ EndStage' /\ OverStage' /\ upset' = upset
<1>1. chain.at = "closing" /\ ending' = ending /\ upset' = upset BY DEF Proceed
<1>2. held /\ Halted("chain") BY <1>1 DEF ChainStage
<1>3. ClientInv' BY <1>2, ProceedClients
<1>4. ChainStage'
  <2>1. chain' = Resting \/ chain' = [chain EXCEPT !.at = "waiting", !.on = connecting']
    BY DEF Proceed, Answer
  <2>2. IsPlace(chain)' /\ chain'.at # "closing"
    <3>1. CASE chain' = Resting BY <3>1 DEF Resting, IsPlace
    <3>2. CASE chain' = [chain EXCEPT !.at = "waiting", !.on = connecting']
      BY <3>2 DEF ChainStage, IsPlace
    <3> QED BY <2>1, <3>1, <3>2
  <2> QED BY <2>2 DEF ChainStage
<1>5. EndStage'
  BY <1>1 DEF EndStage, Without, Resting
<1>6. OverStage' BY <1>1 DEF OverStage
<1> QED BY <1>1, <1>3, <1>4, <1>5, <1>6

\* Steps of the pass, of persons and of the end that leave the manager and the chain alone,
\* or find the reconciliation done.
LEMMA QuietConnections ==
  ASSUME ClientInv, ChainStage, EndStage, ending # "over",
         SyncStep \/ Reconciled \/ EditRow \/ (\E on \in BOOLEAN : Switch(on))
           \/ Ask \/ Tell \/ OtherSwitch \/ StopHotReload
  PROVE  ClientInv' /\ ChainStage' /\ EndStage' /\ OverStage' /\ upset \subseteq upset'
<1>1. UNCHANGED manager /\ held' = held BY OthersLeaveManager DEF manager
<1>2. /\ ClientInv' /\ \A d \in Closers : Halted(d) => Halted(d)'
      /\ AllDisconnected => AllDisconnected'
  BY <1>1, SameClients
<1>3. "chain" \in Closers /\ "end" \in Closers BY McpServersAssumption
<1>4. ASSUME chain' = chain PROVE ChainStage' BY <1>1, <1>2, <1>3, <1>4 DEF ChainStage
<1>5. CASE SyncStep
  <2>1. UNCHANGED <<chain, ending, upset>>
    BY <1>5 DEF SyncStep, Scan, Apply, ReadRow, PutRow, Shelve, history
  <2>2. ending \in {"no", "first"} \/ sync.at # "idle"
    BY <1>5 DEF SyncStep, Scan, Apply, ReadRow, PutRow, Shelve
  <2>3. EndStage' BY <2>1, <2>2 DEF EndStage, Without, Out
  <2>4. OverStage' BY <2>1 DEF OverStage
  <2> QED BY <1>2, <1>4, <2>1, <2>3, <2>4
<1>6. CASE Reconciled
  <2>1. chain' = Resting /\ UNCHANGED <<queue, ending, upset>> /\ chain.at = "waiting"
    BY <1>6 DEF Reconciled, Answer, history
  <2>2. ChainStage' BY <2>1 DEF ChainStage, IsPlace, Resting
  <2>3. EndStage' BY <2>1 DEF EndStage, Without, Resting
  <2>4. OverStage' BY <2>1 DEF OverStage
  <2> QED BY <1>2, <2>1, <2>2, <2>3, <2>4
<1>7. CASE EditRow \/ (\E on \in BOOLEAN : Switch(on)) \/ Tell
  <2>1. UNCHANGED <<queue, chain, sync, ending>> /\ upset \subseteq upset'
    BY <1>7 DEF EditRow, Switch, Tell, requests, history
  <2>2. EndStage' BY <1>1, <1>2, <1>3, <2>1 DEF EndStage, Without
  <2>3. OverStage' BY <2>1 DEF OverStage
  <2> QED BY <1>2, <1>4, <2>1, <2>2, <2>3
<1>8. CASE Ask \/ OtherSwitch
  <2>1. UNCHANGED <<chain, ending>> /\ upset \subseteq upset'
    BY <1>8 DEF Ask, OtherSwitch
  <2>2. ending = "last" => "late" \in upset' BY <1>8 DEF Ask, OtherSwitch
  <2>3. EndStage' BY <2>1, <2>2 DEF EndStage, Without
  <2>4. OverStage' BY <2>1 DEF OverStage
  <2> QED BY <1>2, <1>4, <2>1, <2>3, <2>4
<1>9. CASE StopHotReload
  <2>1. UNCHANGED <<queue, chain, sync, upset>> /\ AllDisconnected
        /\ \/ ending = "first" /\ ending' = "stopped"
           \/ ending = "last" /\ ending' = "over"
    BY <1>9 DEF StopHotReload, history
  <2>2. EndStage' BY <1>2, <1>3, <2>1 DEF EndStage, Without
  <2>3. OverStage' BY <1>2, <2>1 DEF OverStage
  <2> QED BY <1>2, <1>4, <2>1, <2>2, <2>3
<1> QED BY <1>5, <1>6, <1>7, <1>8, <1>9

\* A person or the end of the process disconnects the server.
LEMMA HaltConnections ==
  ASSUME ManagerInv, ClientInv, ChainStage, EndStage, ending # "over", Alone',
         Stop \/ Terminate \/ DisconnectAgain
  PROVE  ClientInv' /\ ChainStage' /\ EndStage' /\ OverStage' /\ upset \subseteq upset'
<1>1. \A d \in {"chain", "person", "end"} : d \in Closers BY McpServersAssumption
<1>2. UNCHANGED <<queue, chain, sync>>
  BY DEF Stop, Terminate, DisconnectAgain, DisconnectAll
<1>3. PICK d \in {"person", "end"} : Disconnect(d) /\ (DisconnectAgain => d = "end")
  BY DEF Stop, Terminate, DisconnectAgain, DisconnectAll
<1>4. /\ ClientInv' /\ held' = held /\ Halted(d)' /\ upset \subseteq upset'
      /\ \A e \in Closers : Halted(e) => Halted(e)'
  BY <1>1, <1>3, DisconnectConnections
<1>5. ChainStage' BY <1>1, <1>2, <1>4 DEF ChainStage
<1>6. EndStage'
  <2>1. CASE Stop
    <3>1. ending' = ending BY <2>1 DEF Stop
    <3> QED BY <1>1, <1>2, <1>4, <3>1 DEF EndStage, Without
  <2>2. CASE Terminate
    <3>1. ending' = "first" BY <2>2 DEF Terminate, DisconnectAll
    <3> QED BY <3>1 DEF EndStage
  <2>3. CASE DisconnectAgain
    <3>1. sync = Out /\ Disconnect("end") /\ Halted("end")'
      BY <1>3, <1>4, <2>3 DEF DisconnectAgain, PassOver, DisconnectAll
    <3>2. AtWork => "late" \in upset' BY <3>1 DEF Disconnect
    <3> QED BY <1>2, <3>1, <3>2 DEF EndStage, Without, AtWork
  <2> QED BY <2>1, <2>2, <2>3
<1>7. OverStage'
  <2>1. ending' # "over" BY DEF Stop, Terminate, DisconnectAgain, DisconnectAll
  <2> QED BY <2>1 DEF OverStage
<1> QED BY <1>4, <1>5, <1>6, <1>7

LEMMA InitConnections == Init => ConnectionInv
<1> SUFFICES ASSUME Init PROVE ConnectionInv OBVIOUS
<1>1. chain = Resting /\ ending = "no" BY DEF Init
<1>2. ChainStage BY <1>1 DEF ChainStage, IsPlace, Resting
<1>3. EndStage /\ OverStage BY <1>1 DEF EndStage, OverStage
<1> QED BY <1>2, <1>3, InitClients DEF ConnectionInv

LEMMA UpsetStays == [Next]_vars => upset \subseteq upset'
<1> SUFFICES ASSUME [Next]_vars PROVE upset \subseteq upset' OBVIOUS
<1>1. CASE UNCHANGED vars BY <1>1 DEF vars, history
<1>2. CASE SyncStep \/ Proceed \/ Reconciled \/ ManagerStep \/ Tell \/ StopHotReload
  BY <1>2 DEF SyncStep, Scan, Apply, ReadRow, PutRow, Shelve, Proceed, Reconciled, ManagerStep,
              Tell, StopHotReload, history
<1>3. CASE Reconcile \/ Stop \/ Terminate \/ DisconnectAgain
  BY <1>3 DEF Reconcile, Stop, Terminate, DisconnectAgain, DisconnectAll, Disconnect
<1>4. CASE EditRow \/ (\E on \in BOOLEAN : Switch(on)) \/ Ask \/ OtherSwitch
  BY <1>4 DEF EditRow, Switch, Ask, OtherSwitch
<1> QED BY <1>1, <1>2, <1>3, <1>4 DEF Next, ChainStep, PersonStep, EndStep, Exit

LEMMA NextConnectionInv == ManagerInv /\ ConnectionInv /\ [Next]_vars => ConnectionInv'
<1> SUFFICES ASSUME ManagerInv, ConnectionInv, [Next]_vars, Alone'
             PROVE  ClientInv' /\ ChainStage' /\ EndStage' /\ OverStage'
  BY DEF ConnectionInv
<1>1. upset \subseteq upset' BY UpsetStays
<1>2. ClientInv /\ ChainStage /\ EndStage /\ OverStage
  BY <1>1 DEF ConnectionInv, Alone, Without
<1>3. CASE UNCHANGED vars
  <2>1. UNCHANGED manager /\ UNCHANGED <<queue, chain, sync, ending, upset>> /\ held' = held
    BY <1>3 DEF vars, requests, history, manager
  <2>2. /\ ClientInv' /\ \A d \in Closers : Halted(d) => Halted(d)'
        /\ AllDisconnected => AllDisconnected'
    BY <1>2, <2>1, SameClients
  <2>3. "chain" \in Closers /\ "end" \in Closers BY McpServersAssumption
  <2> QED BY <1>2, <2>1, <2>2, <2>3 DEF ChainStage, EndStage, OverStage, Without
<1>4. CASE ending # "over" /\ Next
  <2>1. CASE ManagerStep BY <1>2, <1>4, <2>1, ManagerConnections
  <2>2. CASE Reconcile BY <1>2, <1>4, <2>2, ReconcileConnections
  <2>3. CASE Proceed BY <1>2, <1>4, <2>3, ProceedConnections
  <2>4. CASE Stop \/ Terminate \/ DisconnectAgain BY <1>2, <1>4, <2>4, HaltConnections
  <2>5. CASE SyncStep \/ Reconciled \/ EditRow \/ (\E on \in BOOLEAN : Switch(on))
               \/ Ask \/ Tell \/ OtherSwitch \/ StopHotReload
    BY <1>2, <1>4, <2>5, QuietConnections
  <2> QED BY <1>3, <1>4, <2>1, <2>2, <2>3, <2>4, <2>5
       DEF Next, ChainStep, PersonStep, EndStep, Exit
<1> QED BY <1>3, <1>4 DEF Next, Exit

\* The clients, the reconciliations and the end of the process are where the manager has them,
\* as long as two disconnections do not overlap.
THEOREM ClientsInvariant == Spec => []ConnectionInv
<1>1. Spec => []ManagerInv BY ServersInvariant, PTL
<1> QED BY <1>1, InitConnections, NextConnectionInv, PTL DEF Spec

\* A client that serves is the one the manager keeps; the tools are those of the client that
\* is there; and after the end no client is left.
THEOREM NothingEverLeaks == Spec => []NothingLeaks
<1>1. ManagerInv /\ ConnectionInv => NothingLeaks
  <2> SUFFICES ASSUME ManagerInv, ConnectionInv PROVE NothingLeaks OBVIOUS
  <2>1. Alone => ClientInv /\ EndStage /\ OverStage BY DEF ConnectionInv
  <2>2. NoLostClient
    BY <2>1 DEF NoLostClient, Alone, ClientInv, ServingIsHeld, Serving, HasObject
  <2>3. OwnTools BY <2>1 DEF OwnTools, Alone, ClientInv, ToolsAreOwn
  <2>4. EndLeavesNothing
    <3> SUFFICES ASSUME ending = "over", Alone, Without({"late"}), NEW a \in Attempts,
                        client[a] \in {"open", "closing"}
                 PROVE  FALSE
      BY DEF EndLeavesNothing, Alone, Without
    <3>1. ClientInv /\ Halted("end") /\ AllDisconnected BY <2>1 DEF EndStage, OverStage
    <3>2. "end" \in Closers /\ ~Pending("end") /\ a # NoOne
      BY <3>1, McpServersAssumption, McpConnectionsAssumption DEF AllDisconnected, Pending
    <3>3. \A d \in Closers : ~Pending(d)
      BY <3>1, <3>2 DEF Halted, ClientInv, ClosingIsQuiet
    <3>4. client[a] = "open" BY <3>1, <3>2, <3>3
      DEF ClientInv, ClientsAreKnown, Pending, NotClosing
    <3>5. attempt[a].at \in {"opening", "listing", "done"}
      BY <3>1, <3>4 DEF ClientInv, ClientsAreKnown
    <3>6. ~Serving(a)
      <4>1. Serving(a) => held /\ Current(a)
        BY <3>1, <3>4 DEF ClientInv, ServingIsHeld, HasObject, Current, Serving
      <4> QED BY <3>1, <4>1 DEF Halted, Quiet
    <3>7. Going(a) /\ a \notin cut BY <3>1, <3>5, <3>6 DEF AllDisconnected, Serving, Going
    <3>8. Current(a) /\ held
      BY <3>1, <3>7 DEF ClientInv, LateIsCut, Current, IsCurrent, HasObject, Going
    <3> QED BY <3>1, <3>8 DEF Halted, Quiet
  <2> QED BY <2>2, <2>3, <2>4 DEF NothingLeaks
<1> QED BY <1>1, ServersInvariant, ClientsInvariant, PTL

-----------------------------------------------------------------------------
(* What the manager, the row and the stored tools say when all has settled. *)

Goals == Configs \cup {None}
Jobs == [who : {"sync", "person", "other"}, cfg : Goals]
Shows == Statuses \cup {"listed"}
Rows == {NoRow} \cup [cfg : Configs, on : BOOLEAN, status : Shows]
StateTypes == [status : Statuses, client : Clients, tools : Clients, cfg : Goals]

\* The attempt that a call would join is going, and nobody waits for its client to close.
JoinedIsGoing ==
  connecting # NoOne => /\ connecting \in Attempts /\ Going(connecting)
                        /\ \A d \in Closers : closing[d].client # connecting

ManagerTypes ==
  /\ held \in BOOLEAN /\ (held => state.cfg # None)
  /\ state \in StateTypes /\ retry \in [gen : Nat, rev : Nat]
  /\ client \in [Attempts -> {"none", "open", "closing", "closed"}]
  /\ JoinedIsGoing

\* A reconciliation that goes on has an object, and one that connects it has a configuration.
Works ==
  {Resting} \cup [at : {"closing", "waiting"}, who : {"sync", "person", "other"},
                  cfg : Goals, on : Clients]
Passes ==
  {Out} \cup [at : {"scanned", "waiting", "applied", "shelving"}, row : Rows, cfg : Goals,
              shown : Shows \cup {"none"}]
        \cup [at : {"putting"}, row : Rows \ {NoRow}, cfg : Goals, shown : Shows]
RequestTypes ==
  /\ row \in Rows /\ config \in Goals /\ queue \in Seq(Jobs)
  /\ chain \in Works
  /\ chain # Resting => held /\ (chain.at = "waiting" => chain.cfg # None)
  /\ sync \in Passes
  /\ known \in BOOLEAN /\ shelf \in BOOLEAN /\ upset \subseteq Upsets

TypeInv == ManagerTypes /\ RequestTypes

\* A call to connect the object keeps the types, and leaves an attempt that others join.
LEMMA ConnectTypes ==
  ASSUME ManagerInv, ManagerTypes, NEW s \in StateTypes, ConnectServer(s), held' => s.cfg # None,
         gen' \in Nat, held' \in BOOLEAN, closing' = closing, retry' \in [gen : Nat, rev : Nat]
  PROVE  ManagerTypes' /\ (s.status # "connected" => connecting' # NoOne)
<1>1. CASE connecting # NoOne \/ s.status = "connected"
  <2>1. state' = s /\ UNCHANGED <<connecting, attempt, client>> BY <1>1 DEF ConnectServer
  <2> QED BY <1>1, <2>1 DEF ManagerTypes, JoinedIsGoing, Going
<1>2. CASE ~(connecting # NoOne \/ s.status = "connected")
  <2>1. PICK a \in Attempts :
          /\ Free(a)
          /\ attempt' = [attempt EXCEPT
                           ![a] = [at |-> "opening", gen |-> gen', rev |-> revision]]
          /\ client' = [client EXCEPT ![a] = "open"] /\ connecting' = a
          /\ state' = [s EXCEPT !.status = "connecting", !.client = a]
    BY <1>2 DEF ConnectServer
  <2>2. attempt \in [Attempts -> [at : Places, gen : Nat, rev : Nat]] /\ a # NoOne
    BY McpConnectionsAssumption DEF ManagerInv, Revisions
  <2>3. attempt'[a].at = "opening" BY <2>1, <2>2
  <2>4. JoinedIsGoing' BY <2>1, <2>3 DEF JoinedIsGoing, Going, Free
  <2>5. state' \in StateTypes /\ state'.cfg = s.cfg
    BY <2>1 DEF StateTypes, Statuses, Clients
  <2>6. client' \in [Attempts -> {"none", "open", "closing", "closed"}]
    BY <2>1 DEF ManagerTypes
  <2> QED BY <2>1, <2>2, <2>4, <2>5, <2>6 DEF ManagerTypes
<1> QED BY <1>1, <1>2

LEMMA AttemptTypes ==
  ASSUME ManagerInv, ManagerTypes, NEW a \in Attempts, AttemptStep(a) \/ TransportCloses(a)
  PROVE  ManagerTypes' /\ held' = held
<1>1. /\ attempt \in [Attempts -> [at : Places, gen : Nat, rev : Nat]]
      /\ state \in StateTypes /\ retry \in [gen : Nat, rev : Nat]
      /\ client \in [Attempts -> {"none", "open", "closing", "closed"}]
  BY DEF ManagerInv, Revisions, ManagerTypes
<1>2. /\ held' = held /\ closing' = closing
      /\ state' = state \/ state' \in {Broken(state), Torn(state), [state EXCEPT !.tools = a],
                                       [state EXCEPT !.status = "connected", !.client = a]}
      /\ retry' \in {retry, NoRetry, [gen |-> attempt[a].gen, rev |-> attempt[a].rev]}
  BY DEF AttemptStep, Connected, ConnectFails, Failed, Listed, TransportCloses, ScheduleReconnect
<1>3. state' \in StateTypes /\ state'.cfg = state.cfg
  <2>1. CASE state' = state BY <1>1, <2>1
  <2>2. CASE state' = Broken(state) \/ state' = Torn(state)
    BY <1>1, <2>2 DEF StateTypes, Statuses, Clients, Broken, Torn
  <2>3. CASE \/ state' = [state EXCEPT !.tools = a]
             \/ state' = [state EXCEPT !.status = "connected", !.client = a]
    BY <1>1, <2>3 DEF StateTypes, Statuses, Clients
  <2> QED BY <1>2, <2>1, <2>2, <2>3
<1>4. retry' \in [gen : Nat, rev : Nat] BY <1>1, <1>2 DEF NoRetry
<1>5. client' \in [Attempts -> {"none", "open", "closing", "closed"}]
  BY <1>1 DEF AttemptStep, Connected, ConnectFails, Failed, Listed, TransportCloses, Drop
<1>6. JoinedIsGoing'
  <2>1. CASE connecting' = NoOne BY <2>1 DEF JoinedIsGoing
  <2>2. CASE connecting' # NoOne
    <3>1. connecting' = connecting
      BY <2>2 DEF AttemptStep, Connected, ConnectFails, Failed, Listed, TransportCloses, Leaves
    <3>2. connecting \in Attempts /\ Going(connecting)
      BY <2>2, <3>1 DEF ManagerTypes, JoinedIsGoing
    <3>3. \A b \in Attempts : b # a => attempt'[b] = attempt[b]
      BY <1>1 DEF AttemptStep, Connected, ConnectFails, Failed, Listed, TransportCloses, Drop
    <3>4. connecting = a => attempt'[a].at \in {"listing", "failing"}
      <4>1. ASSUME connecting = a, Leaves(a) PROVE FALSE BY <2>2, <3>1, <4>1 DEF Leaves
      <4> QED BY <1>1, <4>1
        DEF AttemptStep, Connected, ConnectFails, Failed, Listed, TransportCloses, Drop
    <3> QED BY <1>2, <2>2, <3>1, <3>2, <3>3, <3>4 DEF ManagerTypes, JoinedIsGoing, Going
  <2> QED BY <2>1, <2>2
<1> QED BY <1>2, <1>3, <1>4, <1>5, <1>6 DEF ManagerTypes

LEMMA ClosedTypes ==
  ASSUME ManagerInv, ManagerTypes, NEW d \in Closers, Closed(d)
  PROVE  ManagerTypes' /\ held' = held
<1> DEFINE c == closing[d].client
<1>1. /\ attempt \in [Attempts -> [at : Places, gen : Nat, rev : Nat]]
      /\ closing \in [Closers -> [gen : Nat, client : Clients]] /\ c \in Clients
  BY DEF ManagerInv, Revisions, KnownClients
<1>2. /\ UNCHANGED <<held, gen, revision, connecting, retry>>
      /\ closing' = [closing EXCEPT ![d] = NotClosing]
      /\ state' = state \/ state' = Down(state)
      /\ \/ UNCHANGED <<attempt, client, cut>>
         \/ c \in Attempts /\ Drop(c)
  BY <1>1 DEF Closed, Clients
<1>3. state' \in StateTypes /\ state'.cfg = state.cfg
  BY <1>2 DEF ManagerTypes, StateTypes, Statuses, Clients, Down
<1>4. client' \in [Attempts -> {"none", "open", "closing", "closed"}]
  BY <1>2 DEF ManagerTypes, Drop
<1>5. JoinedIsGoing'
  <2> SUFFICES ASSUME connecting # NoOne
               PROVE  /\ Going(connecting)'
                      /\ \A e \in Closers : closing'[e].client # connecting
    BY <1>2 DEF ManagerTypes, JoinedIsGoing
  <2>1. connecting \in Attempts /\ Going(connecting) /\ \A e \in Closers : closing[e].client # connecting
    BY DEF ManagerTypes, JoinedIsGoing
  <2>2. attempt'[connecting] = attempt[connecting] BY <1>1, <1>2, <2>1 DEF Drop
  <2> QED BY <1>1, <1>2, <2>1, <2>2 DEF Going, NotClosing
<1> QED BY <1>2, <1>3, <1>4, <1>5 DEF ManagerTypes

LEMMA RetryTypes ==
  ASSUME ManagerInv, ManagerTypes, RetryFires
  PROVE  ManagerTypes' /\ held' = held
<1>1. /\ UNCHANGED <<held, gen, revision, closing>> /\ gen \in Nat /\ retry' = NoRetry
      /\ ConnectServer(state) \/ UNCHANGED <<state, connecting, attempt, client>>
  BY DEF RetryFires, ManagerInv, Revisions
<1>2. CASE ConnectServer(state) BY <1>1, <1>2, ConnectTypes DEF ManagerTypes, NoRetry
<1>3. CASE UNCHANGED <<state, connecting, attempt, client>>
  BY <1>1, <1>3 DEF ManagerTypes, JoinedIsGoing, Going, NoRetry
<1> QED BY <1>1, <1>2, <1>3

LEMMA DisconnectTypes ==
  ASSUME ManagerInv, ManagerTypes, NEW d \in Closers, DisconnectServer(d)
  PROVE  ManagerTypes' /\ held' = held
<1>1. CASE ~held
  BY <1>1 DEF DisconnectServer, manager, ManagerTypes, JoinedIsGoing, Going
<1>2. CASE held
  <2>1. /\ connecting' = NoOne /\ retry' = NoRetry /\ held' = held
        /\ state' = state \/ state' = Down(state)
        /\ client' = client \/ \E c \in {state.client} : client' = [client EXCEPT ![c] =
                                                       IF client[c] = "open" THEN "closing" ELSE @]
    BY <1>2 DEF DisconnectServer, ToClose
  <2>2. state' \in StateTypes /\ state'.cfg = state.cfg
    BY <2>1 DEF ManagerTypes, StateTypes, Statuses, Clients, Down
  <2>3. client' \in [Attempts -> {"none", "open", "closing", "closed"}] BY <2>1 DEF ManagerTypes
  <2> QED BY <2>1, <2>2, <2>3 DEF ManagerTypes, JoinedIsGoing, NoRetry
<1> QED BY <1>1, <1>2

\* A pass waits for one reconciliation at a time, of what it asked for.
OnePass ==
  /\ \A i \in 1 .. Len(queue) : queue[i].who = "sync" =>
       sync.at = "waiting" /\ chain.who # "sync" /\ queue[i].cfg = sync.cfg
  /\ \A i, j \in 1 .. Len(queue) : queue[i].who = "sync" /\ queue[j].who = "sync" => i = j
  /\ chain.who = "sync" => sync.at = "waiting" /\ chain.cfg = sync.cfg

LEMMA HeadOfQueue ==
  ASSUME queue \in Seq(Jobs), queue # <<>>
  PROVE  /\ Head(queue) \in Jobs /\ Head(queue) = queue[1] /\ 1 \in 1 .. Len(queue)
         /\ Tail(queue) \in Seq(Jobs)
         /\ \A i \in 1 .. Len(Tail(queue)) :
              i + 1 \in 1 .. Len(queue) /\ i + 1 # 1 /\ Tail(queue)[i] = queue[i + 1]
<1>1. Len(queue) \in Nat /\ Len(queue) > 0 BY DEF Jobs
<1>2. queue[1] \in Jobs /\ 1 \in 1 .. Len(queue) BY <1>1
<1>3. Len(Tail(queue)) = Len(queue) - 1 OBVIOUS
<1> QED BY <1>1, <1>2, <1>3

LEMMA EndOfQueue ==
  ASSUME queue \in Seq(Jobs), NEW job \in Jobs, queue' = Append(queue, job)
  PROVE  /\ queue' \in Seq(Jobs) /\ queue' # <<>>
         /\ \A i \in 1 .. Len(queue') :
              \/ i \in 1 .. Len(queue) /\ queue'[i] = queue[i]
              \/ i = Len(queue) + 1 /\ queue'[i] = job
OBVIOUS

\* The reconciliation that ends is that of the pass if the pass waits for it.
LEMMA AnswerTypes ==
  ASSUME sync \in Passes, Answer, NEW who, who = IF chain.at = "idle" THEN Head(queue).who ELSE chain.who,
         who = "sync" => sync.at = "waiting"
  PROVE  /\ chain' = Resting /\ chain'.who = "none" /\ sync' \in Passes
         /\ who = "sync" => sync' = [sync EXCEPT !.at = "applied"] /\ sync'.at = "applied"
         /\ who # "sync" => sync' = sync
         /\ person' = IF who = "person" THEN "applied" ELSE person
BY DEF Answer, Passes, Out, Resting

RequestInv == TypeInv /\ OnePass

\* The first of the queue is begun: what is left of it are later ones.
LEMMA NextInQueue ==
  ASSUME RequestInv, queue # <<>>, chain = Resting, queue' = Tail(queue),
         \/ chain' = Resting /\ (IF Head(queue).who = "sync" THEN TRUE ELSE sync' = sync)
         \/ sync' = sync /\ chain'.who = Head(queue).who /\ chain'.cfg = Head(queue).cfg
  PROVE  OnePass'
<1>1. /\ Head(queue) = queue[1] /\ 1 \in 1 .. Len(queue) /\ Resting.who = "none"
      /\ \A i \in 1 .. Len(Tail(queue)) :
           i + 1 \in 1 .. Len(queue) /\ i + 1 # 1 /\ Tail(queue)[i] = queue[i + 1]
  BY HeadOfQueue DEF RequestInv, TypeInv, RequestTypes, Resting
<1>2. \A i, j \in 1 .. Len(Tail(queue)) : i + 1 = j + 1 => i = j OBVIOUS
<1>3. CASE Head(queue).who = "sync"
  <2>1. \A i \in 1 .. Len(Tail(queue)) : Tail(queue)[i].who # "sync"
    BY <1>1, <1>3 DEF RequestInv, OnePass
  <2>2. sync.at = "waiting" /\ Head(queue).cfg = sync.cfg BY <1>1, <1>3 DEF RequestInv, OnePass
  <2> QED BY <1>1, <2>1, <2>2 DEF OnePass
<1>4. CASE Head(queue).who # "sync"
  <2>1. sync' = sync /\ chain'.who # "sync" BY <1>1, <1>4
  <2> QED BY <1>1, <1>2, <2>1 DEF RequestInv, OnePass
<1> QED BY <1>3, <1>4

LEMMA ReconcileTypes ==
  ASSUME ManagerInv, RequestInv, Reconcile
  PROVE  RequestInv'
<1> DEFINE goal == Head(queue).cfg
<1>1. /\ chain = Resting /\ chain.at = "idle" /\ queue # <<>> /\ queue' = Tail(queue)
      /\ config' = goal /\ UNCHANGED stored
  BY DEF Reconcile, Resting
<1>2. /\ Head(queue) \in Jobs /\ goal \in Goals /\ queue' \in Seq(Jobs)
      /\ Head(queue).who \in {"sync", "person", "other"}
      /\ Head(queue).who = "sync" => sync.at = "waiting"
  BY <1>1, HeadOfQueue DEF RequestInv, TypeInv, RequestTypes, OnePass, Jobs
<1>3. "chain" \in Closers BY McpServersAssumption
<1>4. sync \in Passes /\ row' \in Rows /\ known' \in BOOLEAN /\ shelf' \in BOOLEAN
  BY <1>1 DEF RequestInv, TypeInv, RequestTypes, stored
<1>5. CASE UNCHANGED manager /\ Answer /\ upset' = upset
  <2>1. /\ chain' = Resting /\ sync' \in Passes
        /\ Head(queue).who # "sync" => sync' = sync
    BY <1>1, <1>2, <1>4, <1>5, AnswerTypes
  <2>2. OnePass' BY <1>1, <2>1, NextInQueue
  <2>3. ManagerTypes' BY <1>5 DEF RequestInv, TypeInv, ManagerTypes, JoinedIsGoing, Going, manager
  <2>4. RequestTypes'
    BY <1>1, <1>2, <1>4, <1>5, <2>1 DEF RequestInv, TypeInv, RequestTypes, Works
  <2> QED BY <2>2, <2>3, <2>4 DEF RequestInv, TypeInv
<1>6. ASSUME NEW place \in {"closing", "waiting"}, NEW on \in Clients, ChainAt(place, on),
             ManagerTypes', held', place = "waiting" => goal # None, upset' \subseteq Upsets
      PROVE  RequestInv'
  <2>1. chain' = [at |-> place, who |-> Head(queue).who, cfg |-> goal, on |-> on] /\ sync' = sync
    BY <1>6 DEF ChainAt
  <2>2. chain' \in Works /\ chain'.at = place /\ chain'.cfg = goal /\ chain'.who = Head(queue).who
    BY <1>2, <1>6, <2>1 DEF Works
  <2>3. OnePass' BY <1>1, <2>1, <2>2, NextInQueue
  <2>4. RequestTypes' BY <1>1, <1>2, <1>4, <1>6, <2>1, <2>2 DEF RequestTypes
  <2> QED BY <1>6, <2>3, <2>4 DEF RequestInv, TypeInv
<1>7. CASE held /\ Disconnect("chain") /\ ChainAt("closing", NoOne)
  <2>1. ManagerTypes' /\ held' = held
    BY <1>3, <1>7, DisconnectTypes DEF Disconnect, RequestInv, TypeInv
  <2>2. upset' \subseteq Upsets
    BY <1>7 DEF Disconnect, RequestInv, TypeInv, RequestTypes, Upsets
  <2> QED BY <1>6, <1>7, <2>1, <2>2 DEF Clients
<1>8. CASE /\ ~held /\ goal # None /\ held' = TRUE /\ gen' = gen + 1
           /\ ConnectServer(NewObject(goal)) /\ ChainAt("waiting", connecting')
           /\ UNCHANGED <<revision, retry, closing, cut, upset>>
  <2>1. NewObject(goal) \in StateTypes /\ NewObject(goal).cfg = goal
    BY <1>2 DEF NewObject, StateTypes, Statuses, Clients
  <2>2. gen' \in Nat /\ retry' \in [gen : Nat, rev : Nat]
    BY <1>8 DEF ManagerInv, Revisions, RequestInv, TypeInv, ManagerTypes
  <2>3. ManagerTypes' BY <1>8, <2>1, <2>2, ConnectTypes DEF RequestInv, TypeInv
  <2>4. connecting' \in Clients BY <2>3 DEF ManagerTypes, JoinedIsGoing, Clients
  <2>5. upset' \subseteq Upsets BY <1>8 DEF RequestInv, TypeInv, RequestTypes
  <2> QED BY <1>6, <1>8, <2>3, <2>4, <2>5
<1> QED BY <1>5, <1>7, <1>8 DEF Reconcile

\* One reconciliation ends, or goes on.
LEMMA EndOfWork ==
  ASSUME RequestInv, queue' = queue, chain # Resting,
         \/ chain' = Resting /\ (chain.who = "sync" \/ sync' = sync)
         \/ sync' = sync /\ chain'.who = chain.who /\ chain'.cfg = chain.cfg
  PROVE  OnePass'
<1>1. Resting.who = "none" BY DEF Resting
<1>2. CASE chain.who = "sync"
  <2>1. \A i \in 1 .. Len(queue) : queue[i].who # "sync" BY <1>2 DEF RequestInv, OnePass
  <2> QED BY <1>1, <1>2, <2>1 DEF RequestInv, OnePass
<1>3. CASE chain.who # "sync" BY <1>1, <1>3 DEF RequestInv, OnePass
<1> QED BY <1>2, <1>3

LEMMA ProceedTypes ==
  ASSUME ManagerInv, RequestInv, Proceed
  PROVE  RequestInv'
<1>1. /\ chain.at = "closing" /\ queue' = queue /\ UNCHANGED <<stored, config, upset>>
      /\ UNCHANGED <<revision, retry, closing, cut>>
  BY DEF Proceed
<1>2. /\ chain \in Works /\ chain # Resting /\ chain.at # "idle" /\ held /\ sync \in Passes
      /\ chain.cfg \in Goals /\ chain.who \in {"sync", "person", "other"}
      /\ chain.who = "sync" => sync.at = "waiting"
  BY <1>1 DEF RequestInv, TypeInv, RequestTypes, Works, Resting, OnePass
<1>3. /\ row' \in Rows /\ known' \in BOOLEAN /\ shelf' \in BOOLEAN /\ config' \in Goals
      /\ queue' \in Seq(Jobs) /\ upset' \subseteq Upsets
  BY <1>1 DEF RequestInv, TypeInv, RequestTypes, stored
<1>4. CASE chain.cfg = None
  <2>1. held' = FALSE /\ state' = NewObject(None) /\ Answer /\ UNCHANGED <<connecting, attempt, client, gen>>
    BY <1>4 DEF Proceed
  <2>2. chain' = Resting /\ sync' \in Passes /\ (chain.who # "sync" => sync' = sync)
    BY <1>2, <2>1, AnswerTypes
  <2>3. OnePass' BY <1>1, <1>2, <2>2, EndOfWork
  <2>4. ManagerTypes'
    BY <1>1, <2>1
       DEF RequestInv, TypeInv, ManagerTypes, JoinedIsGoing, Going, NewObject, StateTypes,
           Statuses, Clients, Goals
  <2>5. RequestTypes' BY <1>3, <2>2 DEF RequestTypes, Works
  <2> QED BY <2>3, <2>4, <2>5 DEF RequestInv, TypeInv
<1>5. CASE chain.cfg # None
  <2> DEFINE s == [state EXCEPT !.cfg = chain.cfg]
  <2>1. /\ ConnectServer(s) /\ held' = held /\ gen' = gen /\ sync' = sync
        /\ chain' = [chain EXCEPT !.at = "waiting", !.on = connecting']
    BY <1>5 DEF Proceed
  <2>2. s \in StateTypes /\ s.cfg = chain.cfg
    BY <1>2 DEF RequestInv, TypeInv, ManagerTypes, StateTypes
  <2>3. gen' \in Nat /\ retry' \in [gen : Nat, rev : Nat] /\ held' \in BOOLEAN
    BY <1>1, <2>1 DEF ManagerInv, Revisions, RequestInv, TypeInv, ManagerTypes
  <2>4. ManagerTypes'
    <3> HIDE DEF s
    <3> QED BY <1>1, <1>5, <2>1, <2>2, <2>3, ConnectTypes DEF RequestInv, TypeInv
  <2>5. connecting' \in Clients BY <2>4 DEF ManagerTypes, JoinedIsGoing, Clients
  <2>6. /\ chain' \in Works /\ chain'.who = chain.who /\ chain'.cfg = chain.cfg
    BY <1>2, <2>1, <2>5 DEF Works, Resting
  <2>7. OnePass' BY <1>1, <1>2, <2>1, <2>6, EndOfWork
  <2>8. RequestTypes' BY <1>2, <1>3, <1>5, <2>1, <2>6 DEF RequestTypes
  <2> QED BY <2>4, <2>7, <2>8 DEF RequestInv, TypeInv
<1> QED BY <1>4, <1>5

LEMMA ReconciledTypes ==
  ASSUME RequestInv, Reconciled
  PROVE  RequestInv'
<1>1. /\ chain.at = "waiting" /\ Answer /\ UNCHANGED <<manager, queue, stored, config, history>>
      /\ chain # Resting /\ sync \in Passes /\ (chain.who = "sync" => sync.at = "waiting")
  BY DEF Reconciled, RequestInv, TypeInv, RequestTypes, Resting, OnePass
<1>2. chain' = Resting /\ sync' \in Passes /\ (chain.who # "sync" => sync' = sync)
  BY <1>1, AnswerTypes
<1>3. OnePass' BY <1>1, <1>2, EndOfWork
<1>4. ManagerTypes' BY <1>1 DEF RequestInv, TypeInv, ManagerTypes, JoinedIsGoing, Going, manager
<1>5. RequestTypes'
  BY <1>1, <1>2 DEF RequestInv, TypeInv, RequestTypes, Works, stored, history
<1> QED BY <1>3, <1>4, <1>5 DEF RequestInv, TypeInv

\* What an item at the end of the queue, or none, leaves of OnePass.
LEMMA QueueGrows ==
  ASSUME RequestInv, UNCHANGED chain,
         \/ queue' = queue
         \/ \E job \in Jobs : /\ queue' = Append(queue, job)
                              /\ job.who = "sync" => /\ sync.at = "scanned" /\ sync'.at = "waiting"
                                                     /\ sync'.cfg = job.cfg,
         sync.at = "waiting" => sync' = sync
  PROVE  OnePass' /\ queue' \in Seq(Jobs)
<1>1. queue \in Seq(Jobs) BY DEF RequestInv, TypeInv, RequestTypes
<1>2. CASE queue' = queue BY <1>1, <1>2 DEF RequestInv, OnePass
<1>3. ASSUME NEW job \in Jobs, queue' = Append(queue, job),
             job.who = "sync" => /\ sync.at = "scanned" /\ sync'.at = "waiting"
                                 /\ sync'.cfg = job.cfg
      PROVE  OnePass' /\ queue' \in Seq(Jobs)
  <2>1. /\ queue' \in Seq(Jobs)
        /\ \A i \in 1 .. Len(queue') :
             \/ i \in 1 .. Len(queue) /\ queue'[i] = queue[i]
             \/ i = Len(queue) + 1 /\ queue'[i] = job
    BY <1>1, <1>3, EndOfQueue
  <2>2. CASE job.who = "sync"
    <3>1. chain.who # "sync" /\ \A i \in 1 .. Len(queue) : queue[i].who # "sync"
      BY <1>3, <2>2 DEF RequestInv, OnePass
    <3> QED BY <1>3, <2>1, <2>2, <3>1 DEF OnePass
  <2>3. CASE job.who # "sync" BY <2>1, <2>3 DEF RequestInv, OnePass
  <2> QED BY <2>1, <2>2, <2>3
<1> QED BY <1>2, <1>3

LEMMA OnIsBoolean == \A r \in Rows : r.on \in BOOLEAN
<1>1. NoRow.on \in BOOLEAN BY DEF NoRow
<1> QED BY <1>1 DEF Rows

LEMMA ShownType == ManagerTypes => Shown \in Shows
BY DEF ManagerTypes, StateTypes, Shown, Shows, Statuses

LEMMA SyncTypes ==
  ASSUME RequestInv, LatestIsRead, SyncStep
  PROVE  RequestInv'
<1>1. UNCHANGED <<manager, chain, config, history>> /\ held' = held
  BY DEF SyncStep, Scan, Apply, ReadRow, PutRow, Shelve, manager
<1>2. ManagerTypes /\ RequestTypes BY DEF RequestInv, TypeInv
<1>3. ManagerTypes' BY <1>1, <1>2 DEF ManagerTypes, JoinedIsGoing, Going, manager
<1>4. ASSUME OnePass', queue' \in Seq(Jobs), row' \in Rows, sync' \in Passes, known' \in BOOLEAN,
             shelf' \in BOOLEAN
      PROVE  RequestInv'
  BY <1>1, <1>2, <1>3, <1>4 DEF RequestInv, TypeInv, RequestTypes, history
<1>5. ASSUME queue' = queue, sync.at # "waiting" PROVE OnePass' /\ queue' \in Seq(Jobs)
  BY <1>1, <1>5, QueueGrows
<1>6. sync \in Passes /\ row \in Rows /\ sync.row \in Rows /\ sync.cfg \in Goals
  BY <1>2 DEF RequestTypes, Passes, Out, Rows, Goals
<1>7. CASE Scan
  <2>1. /\ UNCHANGED <<queue, stored>> /\ sync.at = "idle"
        /\ sync' = [at |-> "scanned", row |-> row, shown |-> "none",
                    cfg |-> IF row # NoRow THEN Wanted(row) ELSE IF known THEN None ELSE config]
    BY <1>7 DEF Scan
  <2>2. Wanted(row) \in Goals BY <1>6 DEF Wanted, Rows, NoRow, Goals
  <2>3. sync' \in Passes BY <1>2, <1>6, <2>1, <2>2 DEF Passes, RequestTypes, Goals
  <2> QED BY <1>2, <1>4, <1>5, <2>1, <2>3 DEF stored, RequestTypes
<1>8. CASE Apply
  <2>1. /\ sync.at = "scanned" /\ sync' = [sync EXCEPT !.at = "waiting"] /\ UNCHANGED stored
        /\ queue' = Append(queue, [who |-> "sync", cfg |-> sync.cfg])
    BY <1>8 DEF Apply, Push
  <2>2. sync' \in Passes /\ sync'.at = "waiting" /\ sync'.cfg = sync.cfg
    BY <1>6, <2>1 DEF Passes, Out
  <2>3. [who |-> "sync", cfg |-> sync.cfg] \in Jobs BY <1>6 DEF Jobs
  <2>4. OnePass' /\ queue' \in Seq(Jobs) BY <1>1, <2>1, <2>2, <2>3, QueueGrows
  <2> QED BY <1>2, <1>4, <2>1, <2>2, <2>4 DEF stored, RequestTypes
<1>9. CASE ReadRow
  <2>1. PICK shown \in Shows : shown = IF sync.row.on THEN Shown ELSE "disconnected"
    BY <1>2, ShownType DEF Shows, Statuses
  <2>2. /\ sync.at = "applied" /\ UNCHANGED <<queue, row, known, shelf>>
        /\ \/ sync' = [sync EXCEPT !.at = "putting", !.shown = shown, !.row = row] /\ row # NoRow
           \/ sync' = [sync EXCEPT !.at = "shelving", !.shown = shown]
    BY <1>9, <2>1 DEF ReadRow
  <2>3. sync' \in Passes BY <1>6, <2>1, <2>2 DEF Passes, Out
  <2> QED BY <1>2, <1>4, <1>5, <2>2, <2>3 DEF RequestTypes
<1>10. CASE PutRow
  <2>1. /\ sync.at = "putting" /\ UNCHANGED <<queue, known, shelf>>
        /\ \/ row' = [sync.row EXCEPT !.status = sync.shown] /\ sync' = [sync EXCEPT !.at = "shelving"]
           \/ row' = row /\ sync' = Out
    BY <1>10 DEF PutRow
  <2>2. sync \in [at : {"putting"}, row : Rows \ {NoRow}, cfg : Goals, shown : Shows]
    BY <1>6, <2>1 DEF Passes, Out
  <2>3. sync' \in Passes BY <2>1, <2>2 DEF Passes
  <2>4. row' \in Rows BY <1>6, <2>1, <2>2 DEF Rows
  <2> QED BY <1>2, <1>4, <1>5, <2>1, <2>3, <2>4 DEF RequestTypes
<1>11. CASE Shelve
  <2>1. /\ sync.at = "shelving" /\ sync' = Out /\ UNCHANGED <<queue, row>>
        /\ known' = sync.row.on /\ shelf' = NewShelf
    BY <1>11 DEF Shelve
  <2>2. sync' \in Passes BY <2>1 DEF Passes
  <2>3. known' \in BOOLEAN BY <1>6, <2>1, OnIsBoolean
  <2>4. shelf' \in BOOLEAN BY <1>2, <2>1 DEF NewShelf, RequestTypes
  <2> QED BY <1>2, <1>4, <1>5, <2>1, <2>2, <2>3, <2>4 DEF RequestTypes
<1> QED BY <1>7, <1>8, <1>9, <1>10, <1>11 DEF SyncStep

LEMMA PersonTypes ==
  ASSUME ManagerInv, RequestInv, PersonStep
  PROVE  RequestInv'
<1>1. UNCHANGED <<chain, sync, known, shelf, config>>
  BY DEF PersonStep, EditRow, Switch, Ask, Stop, Tell, OtherSwitch, stored, requests
<1>2. ManagerTypes /\ RequestTypes BY DEF RequestInv, TypeInv
<1>3. ManagerTypes' /\ held' = held
  <2>1. CASE UNCHANGED manager
    BY <1>2, <2>1 DEF ManagerTypes, JoinedIsGoing, Going, manager
  <2>2. CASE Stop
    <3>1. "person" \in Closers BY McpServersAssumption
    <3> QED BY <1>2, <2>2, <3>1, DisconnectTypes DEF Stop, Disconnect
  <2> QED BY <2>1, <2>2 DEF PersonStep, EditRow, Switch, Ask, Tell, OtherSwitch
<1>4. upset' \subseteq Upsets
  BY <1>2 DEF RequestTypes, Upsets, PersonStep, EditRow, Switch, Ask, Stop, Disconnect, Tell,
              OtherSwitch, history
<1>5. row' \in Rows
  <2>1. CASE EditRow
    <3>1. \/ \E c \in Configs : row' = [cfg |-> c, on |-> TRUE, status |-> "disconnected"]
          \/ row # NoRow /\ \E c \in Configs, on \in BOOLEAN : row' = [row EXCEPT !.cfg = c, !.on = on]
          \/ row' = NoRow
      BY <2>1 DEF EditRow, Change
    <3>2. \A c \in Configs : [cfg |-> c, on |-> TRUE, status |-> "disconnected"] \in Rows
      BY DEF Rows, Shows, Statuses
    <3>3. \A r \in Rows \ {NoRow} : \A c \in Configs, on \in BOOLEAN :
            [r EXCEPT !.cfg = c, !.on = on] \in Rows
      BY DEF Rows
    <3>4. row \in Rows /\ NoRow \in Rows BY <1>2 DEF RequestTypes, Rows
    <3>5. CASE \E c \in Configs : row' = [cfg |-> c, on |-> TRUE, status |-> "disconnected"]
      BY <3>2, <3>5
    <3>6. ASSUME row # NoRow, NEW c \in Configs, NEW on \in BOOLEAN,
                 row' = [row EXCEPT !.cfg = c, !.on = on]
          PROVE  row' \in Rows
      BY <3>3, <3>4, <3>6
    <3> QED BY <3>1, <3>4, <3>5, <3>6
  <2>2. CASE \E on \in BOOLEAN : Switch(on)
    <3>1. row # NoRow /\ \E on \in BOOLEAN : row' = [row EXCEPT !.on = on]
      BY <2>2 DEF Switch, Change
    <3> QED BY <1>2, <3>1 DEF RequestTypes, Rows
  <2>3. CASE Tell
    <3>1. \/ row' = row
          \/ row # NoRow /\ \E x \in {"disconnected", "listed", "connected"} :
                              row' = [row EXCEPT !.status = x]
      BY <2>3 DEF Tell
    <3> QED BY <1>2, <3>1 DEF RequestTypes, Rows, Shows, Statuses
  <2>4. CASE Ask \/ Stop \/ OtherSwitch BY <1>2, <2>4 DEF RequestTypes, Ask, Stop, OtherSwitch, stored
  <2> QED BY <2>1, <2>2, <2>3, <2>4 DEF PersonStep
<1>6. OnePass' /\ queue' \in Seq(Jobs)
  <2>1. CASE queue' = queue BY <1>1, <2>1, QueueGrows
  <2>2. ASSUME NEW who \in {"person", "other"}, NEW cfg \in Goals, Push(who, cfg)
        PROVE  OnePass' /\ queue' \in Seq(Jobs)
    <3>1. [who |-> who, cfg |-> cfg] \in Jobs BY DEF Jobs
    <3>2. queue' = Append(queue, [who |-> who, cfg |-> cfg]) BY <2>2 DEF Push
    <3> QED BY <1>1, <3>1, <3>2, QueueGrows
  <2>3. CASE Ask \/ OtherSwitch
    <3>1. Wanted(row) \in Goals /\ config \in Goals
      BY <1>2 DEF RequestTypes, Wanted, Rows, NoRow, Goals
    <3> QED BY <2>1, <2>2, <2>3, <3>1 DEF Ask, OtherSwitch
  <2>4. CASE EditRow \/ (\E on \in BOOLEAN : Switch(on)) \/ Stop \/ Tell
    BY <2>1, <2>4 DEF EditRow, Switch, Stop, Tell, requests
  <2> QED BY <2>3, <2>4 DEF PersonStep
<1> QED BY <1>1, <1>2, <1>3, <1>4, <1>5, <1>6 DEF RequestInv, TypeInv, RequestTypes

LEMMA NextRequestInv ==
  ASSUME ManagerInv, LatestIsRead, RequestInv, [Next]_vars
  PROVE  RequestInv'
<1>1. CASE SyncStep BY <1>1, SyncTypes
<1>2. CASE ChainStep BY <1>2, ReconcileTypes, ProceedTypes, ReconciledTypes DEF ChainStep
<1>3. CASE PersonStep BY <1>3, PersonTypes
<1>4. ASSUME ManagerTypes', held' = held, UNCHANGED <<queue, chain, sync, stored, config>>,
             upset' \subseteq Upsets
      PROVE  RequestInv'
  BY <1>4 DEF RequestInv, TypeInv, RequestTypes, OnePass, stored
<1>5. ManagerTypes /\ upset \subseteq Upsets BY DEF RequestInv, TypeInv, RequestTypes
<1>6. CASE ManagerStep
  <2>1. ManagerTypes' /\ held' = held
    BY <1>5, <1>6, AttemptTypes, ClosedTypes, RetryTypes DEF ManagerStep
  <2> QED BY <1>4, <1>5, <1>6, <2>1 DEF ManagerStep, requests, history
<1>7. CASE Terminate \/ DisconnectAgain
  <2>1. /\ Disconnect("end") /\ UNCHANGED <<queue, chain, sync, stored, config>>
    BY <1>7 DEF Terminate, DisconnectAgain, DisconnectAll
  <2>2. "end" \in Closers BY McpServersAssumption
  <2>3. ManagerTypes' /\ held' = held BY <1>5, <2>1, <2>2, DisconnectTypes DEF Disconnect
  <2>4. upset' \subseteq Upsets BY <1>5, <2>1 DEF Disconnect, Upsets
  <2> QED BY <1>4, <2>1, <2>3, <2>4
<1>8. CASE StopHotReload \/ UNCHANGED vars
  <2>1. UNCHANGED <<manager, queue, chain, sync, stored, config, upset>>
    BY <1>8 DEF StopHotReload, vars, requests, history
  <2>2. ManagerTypes' /\ held' = held
    BY <1>5, <2>1 DEF ManagerTypes, JoinedIsGoing, Going, manager
  <2> QED BY <1>4, <1>5, <2>1, <2>2
<1> QED BY <1>1, <1>2, <1>3, <1>6, <1>7, <1>8 DEF Next, EndStep, Exit

Presented == IF row.on THEN Shown ELSE "disconnected"

\* While nothing else happens the row is what the pass has read, the manager has the server if
\* the row wants it, and what the pass is about to tell of it, or has told, is so.
PassIsTrue ==
  seen =>
    /\ sync.at # "idle" => sync.row.on = row.on /\ (sync.row = NoRow <=> row = NoRow)
    /\ sync.at \in {"scanned", "waiting", "applied", "putting"} => sync.row = row
    /\ sync.at \in {"scanned", "waiting"} /\ row # NoRow => sync.cfg = Wanted(row)
    /\ sync.at \in {"applied", "putting", "shelving", "idle"} /\ row # NoRow => held = row.on
    /\ sync.at = "putting" => latest /\ sync.shown = Presented
    /\ sync.at = "shelving" /\ row # NoRow => row.status = Presented /\ sync.shown = Presented
    /\ sync.at = "idle" => /\ row # NoRow => row.status = Presented /\ (~row.on => ~shelf)
                           /\ known = row.on

\* A row that was deleted after a whole pass saw the server enabled takes it out of the
\* manager with the next pass, and nothing brings it back.
DeletedStays ==
  row = NoRow /\ Without({"hasty", "other"}) =>
    /\ person = "idle"
    /\ \A i \in 1 .. Len(queue) : queue[i].who = "sync"
    /\ chain # Resting => chain.who = "sync" /\ config = None
    /\ sync.at # "idle" => sync.row = NoRow
    /\ sync.at \in {"scanned", "waiting"} => sync.cfg = None
    /\ sync.at \in {"applied", "shelving", "putting"} \/ ~known => config = None /\ ~held
    /\ ~known => ~shelf

\* A row that is there wants its configuration if it is enabled.
LEMMA RowsOfServers ==
  ASSUME NEW r \in Rows
  PROVE  /\ r = NoRow => ~r.on
         /\ r # NoRow => r.cfg # None /\ (Wanted(r) # None <=> r.on)
         /\ r # NoRow <=> r.cfg # None
<1>1. NoRow.cfg = None /\ NoRow.on = FALSE BY DEF NoRow
<1>2. r # NoRow => r.cfg \in Configs BY DEF Rows
<1> QED BY <1>1, <1>2, OnIsBoolean, McpConnectionsAssumption DEF Wanted

\* What the reconciliations do while a pass waits, or nothing else happens.
LEMMA PassOfChain ==
  ASSUME ManagerInv, RequestInv, PassIsTrue, ChainStep
  PROVE  PassIsTrue'
<1> SUFFICES ASSUME seen' PROVE PassIsTrue' BY DEF PassIsTrue
<1>1. /\ row \in Rows /\ sync \in Passes /\ chain \in Works /\ UNCHANGED stored
      /\ held \in BOOLEAN /\ (held => state.cfg # None)
  BY DEF RequestInv, TypeInv, RequestTypes, ManagerTypes, ChainStep, Reconcile, Proceed, Reconciled
<1>2. row # NoRow => (Wanted(row) # None <=> row.on) BY <1>1, RowsOfServers
<1>3. row.on \in BOOLEAN BY <1>1, OnIsBoolean
<1>4. ASSUME seen, sync.at = "waiting", sync' = sync PROVE PassIsTrue'
  BY <1>1, <1>4 DEF PassIsTrue, stored, Wanted
<1>5. ASSUME seen, sync.at = "waiting", sync' = [sync EXCEPT !.at = "applied"], sync'.at = "applied",
             held' = (sync.cfg # None)
      PROVE  PassIsTrue'
  <2>1. sync'.row = sync.row BY <1>1, <1>5 DEF Passes, Out
  <2>2. row # NoRow => held' = row.on BY <1>2, <1>3, <1>5 DEF PassIsTrue
  <2> QED BY <1>1, <1>5, <2>1, <2>2 DEF PassIsTrue, stored
<1>6. CASE Reconcile
  <2>1. /\ seen /\ Head(queue).who = "sync" /\ chain = Resting /\ chain.at = "idle" /\ queue # <<>>
    BY <1>6 DEF Reconcile, Resting
  <2>2. Head(queue).cfg = sync.cfg /\ sync.at = "waiting"
    BY <2>1, HeadOfQueue DEF RequestInv, TypeInv, RequestTypes, OnePass
  <2>3. \/ /\ IF held THEN sync.cfg = state.cfg ELSE sync.cfg = None
           /\ Answer /\ UNCHANGED manager
        \/ sync' = sync
    BY <1>6, <2>2 DEF Reconcile, ChainAt
  <2>4. CASE /\ IF held THEN sync.cfg = state.cfg ELSE sync.cfg = None
             /\ Answer /\ UNCHANGED manager
    <3>1. held' = (sync.cfg # None) BY <1>1, <2>4 DEF manager
    <3>2. sync' = [sync EXCEPT !.at = "applied"] /\ sync'.at = "applied"
      BY <1>1, <2>1, <2>2, <2>4, AnswerTypes
    <3> QED BY <1>5, <2>1, <2>2, <3>1, <3>2
  <2> QED BY <1>4, <2>1, <2>2, <2>3, <2>4
<1>7. CASE Proceed
  <2>1. seen /\ chain.who = "sync" /\ chain.at # "idle" BY <1>7 DEF Proceed
  <2>2. sync.at = "waiting" /\ chain.cfg = sync.cfg BY <2>1 DEF RequestInv, OnePass
  <2>3. CASE chain.cfg = None
    <3>1. held' = FALSE /\ Answer BY <1>7, <2>3 DEF Proceed
    <3>2. sync' = [sync EXCEPT !.at = "applied"] /\ sync'.at = "applied"
      BY <1>1, <2>1, <2>2, <3>1, AnswerTypes
    <3> QED BY <1>5, <2>1, <2>2, <2>3, <3>1, <3>2
  <2>4. CASE chain.cfg # None
    <3>1. sync' = sync BY <1>7, <2>4 DEF Proceed
    <3> QED BY <1>4, <2>1, <2>2, <3>1
  <2> QED BY <2>3, <2>4
<1>8. CASE Reconciled
  <2>1. /\ seen /\ chain.at = "waiting" /\ Answer /\ UNCHANGED <<manager, stored>>
        /\ held /\ chain.cfg # None
    BY <1>8 DEF Reconciled, RequestInv, TypeInv, RequestTypes, Resting
  <2>2. CASE chain.who = "sync"
    <3>1. sync.at = "waiting" /\ chain.cfg = sync.cfg BY <2>2 DEF RequestInv, OnePass
    <3>2. sync' = [sync EXCEPT !.at = "applied"] /\ sync'.at = "applied"
      BY <1>1, <2>1, <2>2, <3>1, AnswerTypes
    <3>3. held' = (sync.cfg # None) BY <2>1, <3>1 DEF manager
    <3> QED BY <1>5, <2>1, <3>1, <3>2, <3>3
  <2>3. CASE chain.who # "sync"
    <3>1. sync' = sync BY <1>1, <2>1, <2>3, AnswerTypes
    <3> QED BY <2>1, <3>1 DEF PassIsTrue, manager, stored, Presented, Shown, Wanted
  <2> QED BY <2>2, <2>3
<1> QED BY <1>6, <1>7, <1>8 DEF ChainStep

\* What the pass itself does.
LEMMA PassOfSync ==
  ASSUME RequestInv, LatestIsRead, PassIsTrue, SyncStep
  PROVE  PassIsTrue'
<1>1. /\ row \in Rows /\ sync \in Passes /\ UNCHANGED manager /\ known \in BOOLEAN
      /\ sync.row \in Rows
  BY DEF RequestInv, TypeInv, RequestTypes, SyncStep, Scan, Apply, ReadRow, PutRow, Shelve, Passes,
         Out, Rows
<1>2. /\ held' = held /\ Shown' = Shown BY <1>1 DEF manager, Shown
<1>3. /\ row # NoRow <=> row.cfg # None
      /\ row.on \in BOOLEAN /\ (row = NoRow => ~row.on)
  BY <1>1, RowsOfServers, OnIsBoolean
<1>4. CASE Scan
  <2>1. /\ sync'.at = "scanned" /\ sync'.row = row
        /\ row # NoRow => sync'.cfg = Wanted(row)
        /\ UNCHANGED stored
    BY <1>4 DEF Scan
  <2> QED BY <1>2, <2>1 DEF PassIsTrue, stored, Wanted
<1>5. CASE Apply
  <2>1. /\ sync.at = "scanned" /\ sync' = [sync EXCEPT !.at = "waiting"] /\ UNCHANGED stored
        /\ seen' = seen
    BY <1>5 DEF Apply
  <2>2. /\ sync'.at = "waiting" /\ sync'.row = sync.row /\ sync'.cfg = sync.cfg
    BY <1>1, <2>1 DEF Passes, Out
  <2> QED BY <1>2, <2>1, <2>2 DEF PassIsTrue, stored, Wanted
<1>6. CASE ReadRow
  <2> SUFFICES ASSUME seen PROVE PassIsTrue' BY <1>6 DEF ReadRow, PassIsTrue
  <2>1. /\ sync.at = "applied" /\ UNCHANGED <<row, known, shelf>>
    BY <1>6 DEF ReadRow
  <2>2. sync.row = row /\ (row # NoRow => held = row.on) BY <2>1 DEF PassIsTrue
  <2>3. Presented' = Presented BY <1>2, <2>1 DEF Presented
  <2>4. \/ /\ sync' = [sync EXCEPT !.at = "putting", !.shown = Presented, !.row = row] /\ latest'
           /\ row # NoRow
        \/ /\ sync' = [sync EXCEPT !.at = "shelving", !.shown = Presented]
           /\ row # NoRow => row.status = Presented
    BY <1>6, <2>2 DEF ReadRow, Outdated, Presented
  <2>5. CASE /\ sync' = [sync EXCEPT !.at = "putting", !.shown = Presented, !.row = row] /\ latest'
             /\ row # NoRow
    <3>1. sync'.at = "putting" /\ sync'.shown = Presented /\ sync'.row = row
      BY <1>1, <2>1, <2>5 DEF Passes, Out
    <3> QED BY <1>2, <2>1, <2>2, <2>3, <2>5, <3>1 DEF PassIsTrue
  <2>6. CASE /\ sync' = [sync EXCEPT !.at = "shelving", !.shown = Presented]
             /\ row # NoRow => row.status = Presented
    <3>1. sync'.at = "shelving" /\ sync'.shown = Presented /\ sync'.row = sync.row
      BY <1>1, <2>1, <2>6 DEF Passes, Out
    <3> QED BY <1>2, <2>1, <2>2, <2>3, <2>6, <3>1 DEF PassIsTrue
  <2> QED BY <2>4, <2>5, <2>6
<1>7. CASE PutRow
  <2> SUFFICES ASSUME seen PROVE PassIsTrue' BY <1>7 DEF PutRow, PassIsTrue
  <2>1. /\ sync.at = "putting" /\ latest /\ sync.row = row /\ row # NoRow /\ held = row.on
        /\ sync.shown = Presented
    <3>1. sync.at = "putting" BY <1>7 DEF PutRow
    <3>2. sync.row # NoRow BY <1>1, <3>1 DEF Passes, Out
    <3> QED BY <3>1, <3>2 DEF PassIsTrue
  <2>2. /\ row' = [row EXCEPT !.status = Presented] /\ sync' = [sync EXCEPT !.at = "shelving"]
    BY <1>7, <2>1 DEF PutRow, Accepted
  <2>3. row'.status = Presented /\ row'.on = row.on /\ row'.cfg = row.cfg
    BY <1>1, <2>1, <2>2 DEF Rows
  <2>4. row' # NoRow BY <1>3, <2>1, <2>3 DEF NoRow
  <2>5. sync'.at = "shelving" /\ sync'.shown = Presented /\ sync'.row = row
    BY <1>1, <2>1, <2>2 DEF Passes, Out
  <2>6. Presented' = Presented BY <1>2, <2>3 DEF Presented
  <2> QED BY <1>2, <2>1, <2>3, <2>4, <2>5, <2>6 DEF PassIsTrue
<1>8. CASE Shelve
  <2> SUFFICES ASSUME seen PROVE PassIsTrue' BY <1>8 DEF Shelve, PassIsTrue
  <2>1. /\ sync.at = "shelving" /\ sync' = Out /\ row' = row /\ known' = sync.row.on
        /\ shelf' = NewShelf
    BY <1>8 DEF Shelve
  <2>2. sync.row.on = row.on /\ (sync.row = NoRow <=> row = NoRow)
        /\ (row # NoRow => row.status = Presented /\ sync.shown = Presented /\ held = row.on)
    BY <2>1 DEF PassIsTrue
  <2>3. row # NoRow /\ ~row.on => ~shelf' BY <2>1, <2>2 DEF NewShelf, Presented
  <2>4. Presented' = Presented /\ Out.at = "idle" BY <1>2, <2>1 DEF Presented, Out
  <2> QED BY <1>2, <2>1, <2>2, <2>3, <2>4 DEF PassIsTrue
<1> QED BY <1>4, <1>5, <1>6, <1>7, <1>8 DEF SyncStep

LEMMA NextPassIsTrue ==
  ASSUME ManagerInv, LatestIsRead, RequestInv, PassIsTrue, [Next]_vars
  PROVE  PassIsTrue'
<1>1. CASE UNCHANGED vars
  BY <1>1 DEF vars, manager, requests, stored, PassIsTrue, Presented, Shown, Wanted
<1>2. CASE seen' = FALSE BY <1>2 DEF PassIsTrue
<1> QED BY <1>1, <1>2, PassOfSync, PassOfChain DEF Next, Exit

LEMMA DeletedOfChain ==
  ASSUME ManagerInv, RequestInv, DeletedStays, row = NoRow, Without({"hasty", "other"}), ChainStep
  PROVE  DeletedStays'
<1>1. /\ sync \in Passes /\ chain \in Works /\ UNCHANGED stored
      /\ held => state.cfg # None
      /\ chain # Resting => held /\ (chain.at = "waiting" => chain.cfg # None)
  BY DEF RequestInv, TypeInv, RequestTypes, ManagerTypes, ChainStep, Reconcile, Proceed, Reconciled
<1>2. /\ person = "idle" /\ \A i \in 1 .. Len(queue) : queue[i].who = "sync"
      /\ chain # Resting => chain.who = "sync" /\ config = None
      /\ sync.at # "idle" => sync.row = NoRow
      /\ sync.at \in {"scanned", "waiting"} => sync.cfg = None
      /\ ~known => config = None /\ ~held /\ ~shelf
  BY DEF DeletedStays
<1>3. CASE Reconcile
  <2>1. /\ chain = Resting /\ chain.at = "idle" /\ queue # <<>> /\ queue' = Tail(queue)
    BY <1>3 DEF Reconcile, Resting
  <2>2. /\ Head(queue).who = "sync" /\ Head(queue).cfg = sync.cfg /\ sync.at = "waiting"
        /\ \A i \in 1 .. Len(queue') : queue'[i].who = "sync"
    BY <1>2, <2>1, HeadOfQueue DEF RequestInv, TypeInv, RequestTypes, OnePass
  <2>3. Head(queue).cfg = None /\ config' = None BY <1>2, <1>3, <2>2 DEF Reconcile
  <2>4. \/ ~held /\ UNCHANGED manager /\ Answer
        \/ held /\ ChainAt("closing", NoOne)
    BY <1>1, <1>3, <2>3 DEF Reconcile
  <2>5. CASE ~held /\ UNCHANGED manager /\ Answer
    <3>1. /\ chain' = Resting /\ sync' = [sync EXCEPT !.at = "applied"] /\ sync'.at = "applied"
          /\ person' = person
      BY <1>1, <2>1, <2>2, <2>5, AnswerTypes
    <3>2. sync'.row = sync.row BY <1>1, <2>2, <3>1 DEF Passes, Out
    <3> QED BY <1>1, <1>2, <2>2, <2>3, <2>5, <3>1, <3>2 DEF DeletedStays, manager, stored
  <2>6. CASE held /\ ChainAt("closing", NoOne)
    <3>1. /\ chain'.who = "sync" /\ sync' = sync /\ person' = person
      BY <2>2, <2>6 DEF ChainAt
    <3> QED BY <1>1, <1>2, <2>2, <2>3, <2>6, <3>1 DEF DeletedStays, stored
  <2> QED BY <2>4, <2>5, <2>6
<1>4. CASE Proceed \/ Reconciled
  <2>1. chain.at \in {"closing", "waiting"} /\ queue' = queue /\ config' = config
    BY <1>4 DEF Proceed, Reconciled
  <2>2. chain # Resting /\ chain.at # "idle" BY <2>1 DEF Resting
  <2>3. /\ chain.who = "sync" /\ sync.at = "waiting" /\ chain.cfg = None /\ config = None
    BY <1>2, <2>2 DEF RequestInv, OnePass
  <2>4. held' = FALSE /\ Answer
    BY <1>1, <1>4, <2>2, <2>3 DEF Proceed, Reconciled
  <2>5. /\ chain' = Resting /\ sync' = [sync EXCEPT !.at = "applied"] /\ sync'.at = "applied"
        /\ person' = person
    BY <1>1, <2>2, <2>3, <2>4, AnswerTypes
  <2>6. sync'.row = sync.row BY <1>1, <2>3, <2>5 DEF Passes, Out
  <2> QED BY <1>1, <1>2, <2>1, <2>3, <2>4, <2>5, <2>6 DEF DeletedStays, stored
<1> QED BY <1>3, <1>4 DEF ChainStep

LEMMA DeletedOfSync ==
  ASSUME RequestInv, DeletedStays, row = NoRow, Without({"hasty", "other"}), SyncStep
  PROVE  DeletedStays'
<1>1. /\ sync \in Passes /\ UNCHANGED <<manager, chain, person, config>> /\ held' = held
      /\ queue \in Seq(Jobs) /\ known \in BOOLEAN /\ shelf \in BOOLEAN
  BY DEF RequestInv, TypeInv, RequestTypes, SyncStep, Scan, Apply, ReadRow, PutRow, Shelve, manager
<1>2. /\ person = "idle" /\ \A i \in 1 .. Len(queue) : queue[i].who = "sync"
      /\ chain # Resting => chain.who = "sync" /\ config = None
      /\ sync.at # "idle" => sync.row = NoRow
      /\ sync.at \in {"scanned", "waiting"} => sync.cfg = None
      /\ sync.at \in {"applied", "shelving", "putting"} \/ ~known => config = None /\ ~held
      /\ ~known => ~shelf
  BY DEF DeletedStays
<1>3. CASE Scan
  <2>1. /\ sync'.at = "scanned" /\ sync'.row = row /\ UNCHANGED <<queue, stored>>
        /\ sync'.cfg = IF known THEN None ELSE config
    BY <1>3 DEF Scan
  <2> QED BY <1>1, <1>2, <2>1 DEF DeletedStays, stored
<1>4. CASE Apply
  <2>1. /\ sync.at = "scanned" /\ sync' = [sync EXCEPT !.at = "waiting"] /\ UNCHANGED stored
        /\ queue' = Append(queue, [who |-> "sync", cfg |-> sync.cfg])
    BY <1>4 DEF Apply, Push
  <2>2. sync'.at = "waiting" /\ sync'.row = sync.row /\ sync'.cfg = sync.cfg
    BY <1>1, <2>1 DEF Passes, Out
  <2>3. [who |-> "sync", cfg |-> sync.cfg] \in Jobs BY <1>1, <2>1 DEF Jobs, Passes, Out
  <2>4. \A i \in 1 .. Len(queue') : queue'[i].who = "sync"
    <3>1. \A i \in 1 .. Len(queue') :
            \/ i \in 1 .. Len(queue) /\ queue'[i] = queue[i]
            \/ queue'[i] = [who |-> "sync", cfg |-> sync.cfg]
      BY <1>1, <2>1, <2>3, EndOfQueue
    <3> QED BY <1>2, <3>1
  <2> QED BY <1>1, <1>2, <2>1, <2>2, <2>4 DEF DeletedStays, stored
<1>5. CASE ReadRow
  <2>1. sync.at = "applied" /\ sync.row = NoRow BY <1>2, <1>5 DEF ReadRow
  <2>2. \E shown : sync' = [sync EXCEPT !.at = "shelving", !.shown = shown]
    BY <1>5, <2>1 DEF ReadRow, Outdated
  <2>3. sync'.at = "shelving" /\ sync'.row = NoRow BY <1>1, <2>1, <2>2 DEF Passes, Out
  <2> QED BY <1>1, <1>2, <1>5, <2>1, <2>3 DEF DeletedStays, ReadRow
<1>6. CASE PutRow
  <2>1. sync.at = "putting" BY <1>6 DEF PutRow
  <2>2. sync.row # NoRow BY <1>1, <2>1 DEF Passes, Out
  <2> QED BY <1>2, <2>1, <2>2
<1>7. CASE Shelve
  <2>1. /\ sync.at = "shelving" /\ sync' = Out /\ UNCHANGED <<queue, row>>
        /\ shelf' = NewShelf
    BY <1>7 DEF Shelve
  <2>2. ~shelf' /\ config = None /\ ~held BY <1>1, <1>2, <2>1 DEF NewShelf
  <2> QED BY <1>1, <1>2, <2>1, <2>2 DEF DeletedStays, Out
<1> QED BY <1>3, <1>4, <1>5, <1>6, <1>7 DEF SyncStep

LEMMA NextDeletedStays ==
  ASSUME ManagerInv, LatestIsRead, RequestInv, DeletedStays, [Next]_vars
  PROVE  DeletedStays'
<1> SUFFICES ASSUME row' = NoRow, Without({"hasty", "other"})' PROVE DeletedStays'
  BY DEF DeletedStays
<1>1. NoRow.cfg = None /\ Out.at = "idle" /\ None \notin Configs
  BY McpConnectionsAssumption DEF NoRow, Out
<1>2. /\ row \in Rows /\ (row # NoRow => row.cfg # None) /\ sync \in Passes
      /\ ManagerTypes
  BY RowsOfServers DEF RequestInv, TypeInv, RequestTypes
<1>3. ASSUME EditRow PROVE DeletedStays'
  <2>1. \/ row # NoRow /\ Change(NoRow)
           /\ upset' = IF known /\ sync = Out /\ person = "idle" /\ ~AtWork
                       THEN upset ELSE upset \cup {"hasty"}
        \/ \E c \in Configs : Change([cfg |-> c, on |-> TRUE, status |-> "disconnected"])
        \/ row # NoRow /\ \E c \in Configs, on \in BOOLEAN : Change([row EXCEPT !.cfg = c, !.on = on])
    BY <1>3 DEF EditRow
  <2>2. ~ \E c \in Configs : Change([cfg |-> c, on |-> TRUE, status |-> "disconnected"])
    <3> SUFFICES ASSUME NEW c \in Configs, Change([cfg |-> c, on |-> TRUE, status |-> "disconnected"])
                 PROVE  FALSE
      OBVIOUS
    <3>1. row'.cfg = c BY DEF Change
    <3> QED BY <1>1, <3>1
  <2>3. ~ (row # NoRow /\ \E c \in Configs, on \in BOOLEAN : Change([row EXCEPT !.cfg = c, !.on = on]))
    <3> SUFFICES ASSUME row # NoRow, NEW c \in Configs, NEW on \in BOOLEAN,
                        Change([row EXCEPT !.cfg = c, !.on = on])
                 PROVE  FALSE
      OBVIOUS
    <3>1. row'.cfg = c BY <1>2 DEF Change, Rows
    <3> QED BY <1>1, <3>1
  <2>4. known /\ sync = Out /\ person = "idle" /\ queue = <<>> /\ chain = Resting
    BY <2>1, <2>2, <2>3 DEF Without, AtWork
  <2>5. UNCHANGED <<requests, known>> BY <1>3 DEF EditRow
  <2> QED BY <1>1, <2>4, <2>5 DEF DeletedStays, requests
<1>4. CASE ~EditRow
  <2>1. row = NoRow
    <3> SUFFICES ASSUME row # NoRow PROVE FALSE OBVIOUS
    <3>1. row'.cfg # None
      <4>1. CASE UNCHANGED row BY <1>2, <4>1
      <4>2. CASE PutRow
        <5>1. sync.at = "putting" /\ row' = [sync.row EXCEPT !.status = sync.shown]
          BY <1>1, <4>2 DEF PutRow
        <5>2. sync.row \in Rows /\ sync.row # NoRow BY <1>2, <5>1 DEF Passes, Out
        <5>3. sync.row.cfg # None BY <5>2, RowsOfServers
        <5> QED BY <5>1, <5>2, <5>3 DEF Rows
      <4>3. CASE \/ \E on \in BOOLEAN : row' = [row EXCEPT !.on = on]
                 \/ \E x : row' = [row EXCEPT !.status = x]
        BY <1>2, <4>3 DEF Rows
      <4> QED BY <1>4, <4>1, <4>2, <4>3
        DEF Next, SyncStep, ChainStep, PersonStep, ManagerStep, EndStep, Exit, Scan, Apply, ReadRow,
            Shelve, Reconcile, Proceed, Reconciled, Switch, Change, Ask, Stop, Tell, OtherSwitch,
            Terminate, StopHotReload, DisconnectAgain, DisconnectAll, vars, stored
    <3> QED BY <1>1, <3>1
  <2>2. upset \subseteq upset' BY UpsetStays
  <2>3. Without({"hasty", "other"}) BY <2>2 DEF Without
  <2>4. person = "idle" BY <2>1, <2>3 DEF DeletedStays
  <2>5. ASSUME UNCHANGED <<queue, chain, sync, person, stored, config>>, held' = held
        PROVE  DeletedStays'
    BY <2>3, <2>5 DEF DeletedStays, stored
  <2>6. CASE PersonStep
    <3>1. ~OtherSwitch BY DEF OtherSwitch, Without
    <3> QED BY <1>4, <2>1, <2>4, <2>6, <3>1 DEF PersonStep, Switch, Ask, Stop, Tell
  <2>7. CASE ManagerStep
    <3>1. held' = held BY <1>2, <2>7, AttemptTypes, ClosedTypes, RetryTypes DEF ManagerStep
    <3> QED BY <2>5, <2>7, <3>1 DEF ManagerStep, requests
  <2>8. CASE EndStep
    <3>1. /\ UNCHANGED manager \/ DisconnectServer("end")
          /\ UNCHANGED <<queue, chain, sync, person, stored, config>>
      BY <2>8 DEF EndStep, Terminate, StopHotReload, DisconnectAgain, DisconnectAll, Disconnect
    <3>2. held' = held BY <3>1 DEF DisconnectServer, manager
    <3> QED BY <2>5, <3>1, <3>2
  <2>9. CASE UNCHANGED vars BY <2>5, <2>9 DEF vars, requests, manager
  <2> QED BY <2>1, <2>3, <2>6, <2>7, <2>8, <2>9, DeletedOfChain, DeletedOfSync DEF Next, Exit
<1> QED BY <1>3, <1>4

\* As long as two disconnections do not overlap: unless a person has disconnected it, or a
\* reconciliation is about to connect it anew, a server is connected, being connected, or has
\* its next attempt planned.
CaredFor == state.status = "connected" \/ retry # NoRetry \/ connecting # NoOne
Tended ==
  /\ held /\ ~halted /\ chain.at # "closing" => CaredFor
  /\ retry # NoRetry => held /\ retry.gen = gen /\ retry.rev = revision
  /\ \A d \in Closers : Pending(d) => halted \/ chain.at = "closing"

\* Who calls to connect the object finds it connected, or an attempt that goes.
LEMMA ConnectTends ==
  ASSUME NEW s, ConnectServer(s)
  PROVE  connecting' # NoOne \/ (state' = s /\ s.status = "connected")
BY McpConnectionsAssumption DEF ConnectServer

LEMMA ManagerTends ==
  ASSUME ManagerInv, ManagerTypes, ClientInv, Tended, ManagerStep
  PROVE  Tended'
<1>1. /\ UNCHANGED <<chain, halted>> /\ held' = held /\ IsObject(state)
  BY AttemptTypes, ClosedTypes, RetryTypes DEF ManagerStep, requests, history, ManagerInv, KnownClients
<1>2. ASSUME CaredFor => CaredFor', UNCHANGED <<gen, revision, closing>>,
             \/ retry' \in {retry, NoRetry}
             \/ held /\ retry'.gen = gen /\ retry'.rev = revision
      PROVE  Tended'
  BY <1>1, <1>2 DEF Tended, Pending
<1>3. ASSUME NEW a \in Attempts, IsCurrent(a),
             retry' = IF retry = NoRetry THEN [gen |-> attempt[a].gen, rev |-> attempt[a].rev]
                      ELSE retry,
             UNCHANGED <<gen, revision, closing>>
      PROVE  Tended'
  <2>1. held /\ attempt[a].gen = gen /\ attempt[a].rev = revision /\ gen > 0
    BY <1>3 DEF IsCurrent, HasObject, ClientInv, Objects
  <2>2. retry' # NoRetry /\ (retry' = retry \/ (retry'.gen = gen /\ retry'.rev = revision))
    BY <1>3, <2>1 DEF NoRetry
  <2> QED BY <1>2, <1>3, <2>1, <2>2 DEF CaredFor
<1>4. ASSUME NEW a \in Attempts, AttemptStep(a) \/ TransportCloses(a) PROVE Tended'
  <2>1. UNCHANGED <<gen, revision, closing>>
    BY <1>4 DEF AttemptStep, Connected, ConnectFails, Failed, Listed, TransportCloses
  <2>2. connecting # NoOne => Current(connecting) /\ Going(connecting)
    BY DEF ClientInv, ConnectingIsCurrent
  <2>3. CASE Connected(a)
    <3>1. CASE IsCurrent(a)
      <4>1. state'.status = "connected" /\ retry' = NoRetry
        BY <1>1, <2>3, <3>1 DEF Connected, IsObject
      <4> QED BY <1>2, <2>1, <4>1 DEF CaredFor
    <3>2. CASE ~IsCurrent(a)
      <4>1. UNCHANGED <<state, retry, connecting>>
        BY <2>2, <2>3, <3>2 DEF Connected, Leaves, Current
      <4> QED BY <1>2, <2>1, <4>1 DEF CaredFor
    <3> QED BY <3>1, <3>2
  <2>4. CASE ConnectFails(a) BY <1>2, <2>1, <2>4 DEF ConnectFails, CaredFor
  <2>5. CASE Failed(a)
    <3>1. CASE IsCurrent(a) BY <1>3, <2>1, <2>5, <3>1 DEF Failed, ScheduleReconnect
    <3>2. CASE ~IsCurrent(a)
      <4>1. UNCHANGED <<state, retry, connecting>>
        BY <2>2, <2>5, <3>2 DEF Failed, Leaves, Current
      <4> QED BY <1>2, <2>1, <4>1 DEF CaredFor
    <3> QED BY <3>1, <3>2
  <2>6. CASE Listed(a)
    <3>1. state.status = "connected"
      BY <2>6 DEF Listed, ClientInv, ServingIsHeld, Serving
    <3>2. state'.status = "connected" /\ retry' = retry
      BY <1>1, <2>6, <3>1 DEF Listed, IsObject
    <3> QED BY <1>2, <2>1, <3>2 DEF CaredFor
  <2>7. CASE TransportCloses(a)
    <3>1. IsCurrent(a) /\ state.status = "connected"
      BY <2>7 DEF TransportCloses, ClientInv, ServingIsHeld, Serving
    <3> QED BY <1>3, <2>1, <2>7, <3>1 DEF TransportCloses, ScheduleReconnect
  <2> QED BY <1>4, <2>3, <2>4, <2>5, <2>6, <2>7 DEF AttemptStep
<1>5. CASE RetryFires
  <2>1. retry # NoRetry /\ retry' = NoRetry /\ UNCHANGED <<gen, revision, closing>>
    BY <1>5 DEF RetryFires
  <2>2. ConnectServer(state) BY <1>5, <2>1 DEF RetryFires, Tended
  <2>3. CaredFor' BY <2>2, ConnectTends DEF CaredFor
  <2> QED BY <1>2, <2>1, <2>3
<1>6. ASSUME NEW d \in Closers, Closed(d) PROVE Tended'
  <2>1. /\ Pending(d) /\ UNCHANGED <<gen, revision, connecting, retry>>
        /\ closing' = [closing EXCEPT ![d] = NotClosing]
    BY <1>6 DEF Closed, Pending
  <2>2. \A e \in Closers : Pending(e)' => Pending(e)
    BY <2>1 DEF Pending, ManagerInv, KnownClients
  <2> QED BY <1>1, <2>1, <2>2 DEF Tended
<1> QED BY <1>4, <1>5, <1>6 DEF ManagerStep

\* Whoever disconnects the object is a person, or connects it again.
LEMMA DisconnectTends ==
  ASSUME ManagerInv, ClientInv, Tended, NEW d \in Closers, Disconnect(d),
         held' = held, held => halted' \/ chain'.at = "closing",
         ~held => (halted => halted') /\ chain' = chain
  PROVE  Tended'
<1>1. CASE held
  <2>1. retry' = NoRetry BY <1>1 DEF Disconnect, DisconnectServer
  <2> QED BY <1>1, <2>1 DEF Tended
<1>2. CASE ~held
  <2>1. UNCHANGED manager BY <1>2 DEF Disconnect, DisconnectServer
  <2> QED BY <1>2, <2>1 DEF Tended, Pending, manager
<1> QED BY <1>1, <1>2

LEMMA ChainTends ==
  ASSUME ManagerInv, RequestInv, ClientInv, ChainStage, Tended, ChainStep, Alone'
  PROVE  Tended'
<1>1. "chain" \in Closers BY McpServersAssumption
<1>2. \A d \in Closers : Pending(d) => held BY DEF ClientInv, ClosingIsQuiet
<1>3. CASE Reconcile
  <2>1. chain.at = "idle" BY <1>3 DEF Reconcile, Resting
  <2>2. CASE Answer /\ UNCHANGED <<manager, halted>>
    <3>1. chain'.at # "closing" BY <2>2 DEF Answer, Resting
    <3> QED BY <2>1, <2>2, <3>1 DEF Tended, CaredFor, Pending, manager
  <2>3. CASE held /\ Disconnect("chain") /\ ChainAt("closing", NoOne)
    <3>1. held' = held BY <2>3 DEF Disconnect, DisconnectServer
    <3> QED BY <1>1, <2>3, <3>1, DisconnectTends DEF ChainAt
  <2>4. ASSUME NEW goal, ~held, ConnectServer(NewObject(goal)), UNCHANGED <<retry, closing>>
        PROVE  Tended'
    <3>1. NewObject(goal).status # "connected" BY DEF NewObject
    <3>2. connecting' # NoOne BY <2>4, <3>1, ConnectTends
    <3>3. retry' = NoRetry BY <2>4 DEF Tended
    <3> QED BY <1>2, <2>4, <3>2, <3>3 DEF Tended, CaredFor, Pending
  <2> QED BY <1>3, <2>2, <2>3, <2>4 DEF Reconcile
<1>4. CASE Proceed
  <2>1. /\ chain.at = "closing" /\ closing["chain"] = NotClosing
        /\ UNCHANGED <<retry, closing>>
    BY <1>4 DEF Proceed
  <2>2. held /\ Halted("chain") BY <2>1 DEF ChainStage
  <2>3. retry' = NoRetry /\ \A d \in Closers : ~Pending(d)'
    BY <2>1, <2>2 DEF Halted, Pending, Quiet
  <2>4. held' => CaredFor'
    <3>1. CASE chain.cfg = None BY <1>4, <3>1 DEF Proceed
    <3>2. CASE chain.cfg # None
      <4>1. ConnectServer([state EXCEPT !.cfg = chain.cfg]) BY <1>4, <3>2 DEF Proceed
      <4>2. connecting' # NoOne \/ state'.status = "connected"
        BY <4>1, ConnectTends
      <4> QED BY <4>2 DEF CaredFor
    <3> QED BY <3>1, <3>2
  <2> QED BY <2>3, <2>4 DEF Tended
<1>5. CASE Reconciled
  <2>1. UNCHANGED <<manager, halted>> /\ chain'.at = "idle" /\ chain.at # "closing"
    BY <1>5 DEF Reconciled, Answer, Resting, history
  <2> QED BY <2>1 DEF Tended, CaredFor, Pending, manager
<1> QED BY <1>3, <1>4, <1>5 DEF ChainStep

LEMMA NextTended ==
  ASSUME ManagerInv, RequestInv, ClientInv, ChainStage, Tended, [Next]_vars, Alone'
  PROVE  Tended'
<1>1. ASSUME UNCHANGED <<manager, chain, halted>> PROVE Tended'
  BY <1>1 DEF Tended, CaredFor, Pending, manager
<1>2. CASE SyncStep
  BY <1>1, <1>2 DEF SyncStep, Scan, Apply, ReadRow, PutRow, Shelve, history
<1>3. CASE PersonStep
  <2>1. CASE Stop
    <3>1. "person" \in Closers BY McpServersAssumption
    <3>2. held' = held BY <2>1 DEF Stop, Disconnect, DisconnectServer, manager
    <3> QED BY <2>1, <3>1, <3>2, DisconnectTends DEF Stop
  <2>2. CASE EditRow \/ \E on \in BOOLEAN : Switch(on)
    BY <1>1, <2>2 DEF EditRow, Switch, requests
  <2>3. CASE Ask \/ Tell \/ OtherSwitch BY <1>1, <2>3 DEF Ask, Tell, OtherSwitch, history
  <2> QED BY <1>3, <2>1, <2>2, <2>3 DEF PersonStep
<1>4. CASE EndStep
  <2>1. CASE StopHotReload BY <1>1, <2>1 DEF StopHotReload, history
  <2>2. CASE Terminate \/ DisconnectAgain
    <3>1. "end" \in Closers BY McpServersAssumption
    <3>2. Disconnect("end") /\ halted' = (halted \/ held) /\ chain' = chain
      BY <2>2 DEF Terminate, DisconnectAgain, DisconnectAll
    <3>3. held' = held BY <3>2 DEF Disconnect, DisconnectServer, manager
    <3> QED BY <3>1, <3>2, <3>3, DisconnectTends
  <2> QED BY <1>4, <2>1, <2>2 DEF EndStep
<1>5. CASE UNCHANGED vars BY <1>1, <1>5 DEF vars, requests, history
<1> QED BY <1>2, <1>3, <1>4, <1>5, ManagerTends, ChainTends DEF Next, Exit, RequestInv, TypeInv

SettledInv ==
  /\ RequestInv /\ PassIsTrue /\ DeletedStays
  /\ Alone => Tended

LEMMA InitSettled == Init => SettledInv
<1> SUFFICES ASSUME Init PROVE SettledInv OBVIOUS
<1>1. PICK c \in Configs, on \in BOOLEAN : row = [cfg |-> c, on |-> on, status |-> "disconnected"]
  BY DEF Init
<1>2. /\ config = Wanted(row) /\ InitManager(Wanted(row)) /\ queue = <<>> /\ chain = Resting
      /\ sync = Out /\ known = FALSE /\ shelf = FALSE /\ seen = FALSE /\ upset = {}
  BY DEF Init
<1>3. row \in Rows /\ row # NoRow /\ Wanted(row) \in Goals
  BY <1>1, McpConnectionsAssumption DEF Rows, NoRow, Shows, Statuses, Wanted, Goals
<1> DEFINE cfg == Wanted(row)
<1>4. /\ held = (cfg # None) /\ gen = IF cfg = None THEN 0 ELSE 1
      /\ state = [NewObject(cfg) EXCEPT !.status = IF cfg = None THEN "disconnected" ELSE "error"]
      /\ retry = IF cfg = None THEN NoRetry ELSE [gen |-> 1, rev |-> 0]
      /\ revision = 0 /\ connecting = NoOne
      /\ client = [a \in Attempts |-> "none"] /\ closing = [d \in Closers |-> NotClosing]
  BY <1>2 DEF InitManager
<1>5. state \in StateTypes /\ state.cfg = cfg
  BY <1>3, <1>4 DEF NewObject, StateTypes, Statuses, Clients
<1>6. ManagerTypes
  BY <1>4, <1>5 DEF ManagerTypes, JoinedIsGoing, NoRetry
<1>7. RequestTypes
  <2>1. chain \in Works /\ sync \in Passes BY <1>2 DEF Works, Passes
  <2>2. queue \in Seq(Jobs) /\ upset \subseteq Upsets BY <1>2
  <2> QED BY <1>2, <1>3, <2>1, <2>2 DEF RequestTypes
<1>8. OnePass BY <1>2 DEF OnePass, Resting
<1>9. Tended
  <2>1. \A d \in Closers : ~Pending(d) BY <1>4 DEF Pending
  <2>2. held => retry = [gen |-> 1, rev |-> 0] /\ gen = 1 BY <1>4
  <2>3. ~held => retry = NoRetry BY <1>4
  <2> QED BY <1>4, <2>1, <2>2, <2>3 DEF Tended, CaredFor, NoRetry
<1> QED BY <1>2, <1>3, <1>6, <1>7, <1>8, <1>9
      DEF SettledInv, RequestInv, TypeInv, PassIsTrue, DeletedStays

\* Alone is of the whole past, so that it held before the step.
LEMMA NextSettled ==
  ManagerInv /\ LatestIsRead /\ ConnectionInv /\ SettledInv /\ [Next]_vars => SettledInv'
<1> SUFFICES ASSUME ManagerInv, LatestIsRead, ConnectionInv, SettledInv, [Next]_vars
             PROVE  SettledInv'
  OBVIOUS
<1>1. upset \subseteq upset' BY UpsetStays
<1>2. ASSUME Alone' PROVE Tended'
  <2>1. Alone BY <1>1, <1>2 DEF Alone, Without
  <2> QED BY <1>2, <2>1, NextTended DEF ConnectionInv, SettledInv
<1> QED BY <1>2, NextRequestInv, NextPassIsTrue, NextDeletedStays DEF SettledInv

\* Every pass is true of what it read, a deleted row takes its server away, and an enabled
\* server is tended.
THEOREM SettledInvariant == Spec => []SettledInv
<1>1. ManagerInv /\ LatestIsRead /\ ConnectionInv /\ SettledInv /\ [Next]_vars => SettledInv'
  BY NextSettled
<1> QED BY <1>1, ServersInvariant, ClientsInvariant, InitSettled, PTL DEF Spec

\* When all has settled, a server that is enabled is served, one that is disabled or deleted
\* is gone with its tools, and the row says what the manager says.
THEOREM AllAgreesInTheEnd == Spec => []SettledAgrees
<1>1. ManagerInv /\ ConnectionInv /\ SettledInv => SettledAgrees
  <2> SUFFICES ASSUME ManagerInv, ConnectionInv, SettledInv PROVE SettledAgrees OBVIOUS
  <2>1. ManagerTypes /\ RequestTypes /\ PassIsTrue /\ DeletedStays /\ (Alone => Tended)
    BY DEF SettledInv, RequestInv, TypeInv
  <2>2. TypeOK
    BY <2>1 DEF TypeOK, ManagerTypes, RequestTypes, JoinedIsGoing, StateTypes, Clients, Goals,
                ManagerInv, Revisions, KnownClients, Places
  <2>3. Synced => sync.at = "idle" /\ chain.at = "idle" /\ connecting = NoOne
    BY <2>1 DEF Synced, AtWork, Out, Resting, ManagerTypes, JoinedIsGoing
  <2>4. row \in Rows /\ (row = NoRow => ~row.on) /\ row.on \in BOOLEAN
    BY <2>1, RowsOfServers, OnIsBoolean DEF RequestTypes
  <2>5. EnabledIsServed
    <3> SUFFICES ASSUME Synced, row.on, ~halted, Alone PROVE Served
      BY DEF EnabledIsServed, Alone
    <3>1. held BY <2>1, <2>3, <2>4 DEF PassIsTrue, Synced
    <3>2. CaredFor BY <2>1, <2>3, <3>1 DEF Tended
    <3> QED BY <2>3, <3>1, <3>2 DEF Served, CaredFor
  <2>6. GoneIsGone
    <3> SUFFICES ASSUME Synced, ~row.on, row = NoRow => Without({"hasty", "other"})
                 PROVE  ~held /\ ~shelf
      BY DEF GoneIsGone
    <3>1. seen BY DEF Synced
    <3>2. CASE row # NoRow
      BY <2>1, <2>3, <2>4, <3>1, <3>2 DEF PassIsTrue, ManagerTypes, RequestTypes
    <3>3. CASE row = NoRow
      <4>1. ~known BY <2>1, <2>3, <2>4, <3>1 DEF PassIsTrue, RequestTypes
      <4> QED BY <2>1, <3>3, <4>1 DEF DeletedStays
    <3> QED BY <3>2, <3>3
  <2>7. RowAgrees
    <3> SUFFICES ASSUME Synced, row # NoRow PROVE row.status = Shown BY DEF RowAgrees
    <3>1. seen /\ row.status = Presented /\ held = row.on BY <2>1, <2>3 DEF PassIsTrue, Synced
    <3> QED BY <2>4, <3>1 DEF Presented, Shown
  <2> QED BY <2>2, <2>5, <2>6, <2>7 DEF SettledAgrees
<1> QED BY <1>1, ServersInvariant, ClientsInvariant, SettledInvariant, PTL
=============================================================================
