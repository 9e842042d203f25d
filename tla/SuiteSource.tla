----------------------------- MODULE SuiteSource -----------------------------
(***************************************************************************)
(* src/suite/source-lifecycle.ts: the ManagedSource of one plugin          *)
(* activation, with the listeners of PackageServer that it opens and       *)
(* closes.  A person selects which package archives Core serves on the     *)
(* loopback interface; a selection is opened and verified first, stored    *)
(* then, and only then takes the place of the old one.                     *)
(*                                                                         *)
(* An action is the code between two awaits.  The archives and their       *)
(* checks are abstract: opening may fail.                                  *)
(***************************************************************************)
EXTENDS Naturals, Sequences, FiniteSets, PackageServer

CONSTANTS
  Calls,       \* concurrent invocations of configure()
  Customs,     \* options a person may choose
  Configured,  \* the options of the plugin configuration, or None
  Fixed,       \* options that name one and the same fixed port
  MaxStuck     \* bound: listeners whose close fails

ASSUME OptionsAssumption ==
  /\ Configured \in Customs \cup {None}
  /\ None \notin Customs \cup Listeners
  /\ {"configured", "disabled"} \cap Customs = {} /\ MaxStuck \in Nat

Selections == {"configured", "disabled"} \cup Customs
OptionsOf(selection) ==
  CASE selection = "disabled"   -> None
    [] selection = "configured" -> Configured
    [] OTHER                    -> selection

VARIABLES
  alive,      \* the plugin is activated
  stored,     \* the selections the store may hold after a crash
  selection,  \* #selection
  source,     \* #source
  status,     \* #status
  listening,  \* per listener: the options it serves, or None when it is closed
  stuck,      \* listeners whose close() was rejected, for good: the promise is kept
  owned,      \* #owned
  tail,       \* the calls in the #tail chain, head first
  call,       \* the locals of each call
  closing,    \* how far close() is
  todo,       \* the listeners that close() has still to release
  ending,     \* the one it is releasing, or None
  complaint   \* close() reports CORE_SUITE_SOURCE_CLOSE_FAILED

vars == <<alive, stored, selection, source, status, listening, stuck, owned, tail, call,
          closing, todo, ending, complaint, conn>>

\* `own` is the candidate of a call, or the old source that it releases.
Call == [pc : {"idle", "queued", "opening", "publishing", "releasing", "undoing"},
         sel : Selections, own : Listeners \cup {None}]
Idle == [pc |-> "idle", sel |-> "configured", own |-> None]

TypeOK ==
  /\ alive \in BOOLEAN /\ complaint \in BOOLEAN
  /\ stored \in SUBSET Selections /\ stored # {} /\ selection \in Selections
  /\ source \in Listeners \cup {None}
  /\ status \in {"disabled", "ready", "failed", "disposed"}
  /\ listening \in [Listeners -> Customs \cup {None}]
  /\ stuck \subseteq Listeners /\ owned \subseteq Listeners /\ todo \subseteq Listeners
  /\ tail \in Seq(Calls)
  /\ call \in [Calls -> Call]
  /\ closing \in {"no", "waiting", "releasing", "store", "done"}
  /\ ending \in todo \cup {None} /\ conn \in [Conns -> Conn]

Quiet(l) == listening[l] = None
Silent == [l \in Listeners |-> None]
Up == {l \in Listeners : ~Quiet(l)}
disposed == closing # "no"

\* A plugin that was never activated; the domain's initial value.
Init ==
  /\ alive = FALSE /\ complaint = FALSE
  /\ stored = {"configured"} /\ selection = "configured"
  /\ source = None /\ status = "disabled"
  /\ listening = Silent /\ stuck = {} /\ owned = {} /\ todo = {}
  /\ tail = <<>> /\ call = [c \in Calls |-> Idle]
  /\ closing = "no" /\ ending = None /\ conn = Nobody

manager == <<alive, stuck, closing, todo, ending, complaint>>
current == <<selection, source, status>>

\* A listener can be opened on the options: the port it names is free.
Openable(options, l) ==
  Quiet(l) /\ ~(options \in Fixed /\ \E k \in Up : listening[k] \in Fixed)

(***************************************************************************)
(* initialize()                                                            *)
(***************************************************************************)

Started(s, l) ==
  /\ alive' = TRUE
  /\ selection' = s /\ source' = l
  /\ listening' = IF l = None THEN Silent ELSE [Silent EXCEPT ![l] = OptionsOf(s)]
  /\ owned' = {l} \ {None}
  /\ UNCHANGED <<stuck, tail, call, closing, todo, ending, complaint, conn>>

\* Mutant: what is kept is the options and not the selection.
BootOnOptions ==
  /\ ~alive
  /\ \E s \in stored :
       /\ stored' = {s}
       /\ \/ OptionsOf(s) = None /\ Started(OptionsOf(s), None) /\ status' = "disabled"
          \/ OptionsOf(s) # None /\ \E l \in Listeners :
                                    Started(OptionsOf(s), l) /\ status' = "ready"

\* The stored selection is opened, or is not readable, or cannot be opened.
Boot ==
  /\ ~alive
  /\ \E s \in stored :
       /\ stored' = {s}
       /\ \/ OptionsOf(s) = None /\ Started(s, None) /\ status' = "disabled"
          \/ OptionsOf(s) # None /\ \E l \in Listeners : Started(s, l) /\ status' = "ready"
          \/ OptionsOf(s) # None /\ Started(s, None) /\ status' = "failed"
          \/ Started("configured", None) /\ status' = "failed"

(***************************************************************************)
(* configure()                                                             *)
(***************************************************************************)

\* The call is admitted and waits for its turn in the chain.
Configure(c) ==
  /\ alive /\ ~disposed /\ call[c].pc = "idle"
  /\ \E s \in Selections : call' = [call EXCEPT ![c] = [Idle EXCEPT !.pc = "queued", !.sel = s]]
  /\ tail' = Append(tail, c)
  /\ UNCHANGED <<manager, stored, current, listening, owned, conn>>

InTurn(c) == tail # <<>> /\ c = Head(tail)
At(c, pc) == alive /\ call[c].pc = pc /\ InTurn(c)

Finish(c) == call' = [call EXCEPT ![c] = Idle] /\ tail' = Tail(tail)
Goes(c, pc, own) == call' = [call EXCEPT ![c].pc = pc, ![c].own = own] /\ UNCHANGED tail

Same(s) == status \in {"ready", "disabled"} /\ s = selection
\* The snapshot is handed to the store: from now on a crash may leave either.
Publish(c, own) == Goes(c, "publishing", own) /\ stored' = stored \cup {call[c].sel}

\* Mutant: the old listener is closed first, for its port.
TurnFreesPort(c) ==
  /\ At(c, "queued")
  /\ IF disposed \/ Same(call[c].sel) THEN Finish(c) /\ UNCHANGED <<stored, listening>>
     ELSE /\ listening' = IF source = None THEN listening ELSE [listening EXCEPT ![source] = None]
          /\ IF OptionsOf(call[c].sel) = None THEN Publish(c, None)
             ELSE Goes(c, "opening", None) /\ UNCHANGED stored
  /\ UNCHANGED <<manager, current, owned, conn>>

\* Its turn: nothing to do, or nothing to open, or the candidate is opened.
Turn(c) ==
  /\ At(c, "queued")
  /\ IF disposed \/ Same(call[c].sel) THEN Finish(c) /\ UNCHANGED stored
     ELSE IF OptionsOf(call[c].sel) = None THEN Publish(c, None)
     ELSE Goes(c, "opening", None) /\ UNCHANGED stored
  /\ UNCHANGED <<manager, current, listening, owned, conn>>

\* The candidate is listening: it is stored, or released when close() was called.
Opened(c) ==
  /\ At(c, "opening")
  /\ \E l \in Listeners :
       /\ Openable(OptionsOf(call[c].sel), l)
       /\ listening' = [listening EXCEPT ![l] = OptionsOf(call[c].sel)]
       /\ owned' = owned \cup {l}
       /\ IF disposed THEN Goes(c, "undoing", l) /\ UNCHANGED stored ELSE Publish(c, l)
  /\ UNCHANGED <<manager, current, conn>>

\* An archive does not verify, or the port is taken.
OpenFails(c) ==
  /\ At(c, "opening")
  /\ Finish(c)
  /\ UNCHANGED <<manager, stored, current, listening, owned, conn>>

\* The old source is released: its close() is called.
Retire(c) ==
  IF source = None THEN Finish(c) /\ UNCHANGED conn
  ELSE Goes(c, "releasing", source) /\ Shut(source)

\* Stored: the candidate takes the place of the old source, which is released.
Published(c) ==
  /\ At(c, "publishing")
  /\ stored' = {call[c].sel}
  /\ source' = call[c].own /\ selection' = call[c].sel
  /\ status' = IF source' = None THEN "disabled" ELSE "ready"
  /\ Retire(c)
  /\ UNCHANGED <<manager, listening, owned>>

\* Mutant: the rejection is not noticed.
PublishFailsUnnoticed(c) ==
  /\ At(c, "publishing")
  /\ source' = call[c].own /\ selection' = call[c].sel
  /\ status' = IF source' = None THEN "disabled" ELSE "ready"
  /\ Retire(c)
  /\ UNCHANGED <<manager, stored, listening, owned>>

\* The store rejects: the candidate is released, the old source stays.
PublishFails(c) ==
  /\ At(c, "publishing")
  /\ IF call[c].own = None THEN Finish(c) /\ UNCHANGED conn
     ELSE Goes(c, "undoing", call[c].own) /\ Shut(call[c].own)
  /\ UNCHANGED <<manager, stored, current, listening, owned>>

Releasing(c) == At(c, "releasing") \/ At(c, "undoing")

\* #release() of the old source, or of the candidate: it has no connection any more.
Released(c) ==
  /\ Releasing(c) /\ Sockets(call[c].own) = {}
  /\ listening' = [listening EXCEPT ![call[c].own] = None]
  /\ owned' = owned \ {call[c].own}
  /\ Finish(c)
  /\ UNCHANGED <<manager, stored, current, conn>>

\* Its close is rejected: it stays owned.
ReleaseFails(c) ==
  /\ Releasing(c) /\ Cardinality(stuck) < MaxStuck
  /\ stuck' = stuck \cup {call[c].own}
  /\ Finish(c)
  /\ UNCHANGED <<alive, stored, current, listening, owned, closing, todo, ending, complaint, conn>>

(***************************************************************************)
(* close()                                                                 *)
(***************************************************************************)

Close ==
  /\ alive /\ closing = "no"
  /\ closing' = "waiting"
  /\ UNCHANGED <<alive, stored, current, listening, stuck, owned, tail, call, todo, ending, complaint, conn>>

\* Mutant: it does not wait.
CloseAtOnce ==
  /\ alive /\ closing = "waiting"
  /\ closing' = "releasing" /\ todo' = owned
  /\ UNCHANGED <<alive, stored, current, listening, stuck, owned, tail, call, ending, complaint, conn>>

\* The chain has run out.
CloseStarts ==
  /\ alive /\ closing = "waiting" /\ tail = <<>>
  /\ closing' = "releasing" /\ todo' = owned
  /\ UNCHANGED <<alive, stored, current, listening, stuck, owned, tail, call, ending, complaint, conn>>

\* The listeners are closed one after another.
CloseStops(l) ==
  /\ alive /\ closing = "releasing" /\ ending = None /\ l \in todo
  /\ ending' = l /\ Shut(l)
  /\ UNCHANGED <<alive, stored, current, listening, stuck, owned, tail, call, closing, todo, complaint>>

\* Each is released, whatever became of those before it.
CloseReleases ==
  /\ alive /\ ending # None
  /\ todo' = todo \ {ending} /\ ending' = None
  /\ \/ /\ ending \notin stuck /\ Sockets(ending) = {}
        /\ listening' = [listening EXCEPT ![ending] = None] /\ owned' = owned \ {ending}
        /\ UNCHANGED <<stuck, complaint>>
     \/ /\ ending \in stuck \/ Cardinality(stuck) < MaxStuck
        /\ stuck' = stuck \cup {ending} /\ complaint' = TRUE
        /\ UNCHANGED <<listening, owned>>
  /\ UNCHANGED <<alive, stored, current, tail, call, closing, conn>>

CloseStore ==
  /\ alive /\ closing = "releasing" /\ todo = {}
  /\ source' = None /\ status' = "disposed"
  /\ closing' = "store"
  /\ UNCHANGED <<alive, stored, selection, listening, stuck, owned, tail, call, todo, ending, complaint, conn>>

\* The store is closed, or its close is rejected.
Closed ==
  /\ alive /\ closing = "store"
  /\ closing' = "done"
  /\ UNCHANGED <<alive, stored, current, listening, stuck, owned, tail, call, todo, ending, complaint, conn>>

\* The process ends, with its listeners: after close(), or in the middle of anything.
Exit ==
  /\ alive
  /\ alive' = FALSE /\ complaint' = FALSE
  /\ source' = None /\ status' = "disabled"
  /\ listening' = Silent /\ stuck' = {} /\ owned' = {} /\ todo' = {}
  /\ tail' = <<>> /\ call' = [c \in Calls |-> Idle]
  /\ closing' = "no" /\ ending' = None /\ conn' = Nobody
  /\ UNCHANGED <<stored, selection>>

Step(c) ==
  \/ Turn(c) \/ Opened(c) \/ OpenFails(c) \/ Published(c) \/ PublishFails(c)
  \/ Released(c) \/ ReleaseFails(c)
Closes == CloseStarts \/ CloseReleases \/ CloseStore \/ Closed \/ \E l \in Listeners : CloseStops(l)

\* A listener that close() was called on accepts no connection.
Accepting == {l \in Up \ (stuck \cup {ending}) : \A c \in Calls : Releasing(c) => l # call[c].own}

Manages == \/ Boot \/ Close \/ Closes \/ Exit
           \/ \E c \in Calls : Configure(c) \/ Step(c)
Serving(k) == Serves(k) /\ UNCHANGED <<manager, stored, current, listening, owned, tail, call>>
Visits(k) ==
  /\ Connect(k, Accepting) \/ Ask(k) \/ Disconnects(k)
  /\ UNCHANGED <<manager, stored, current, listening, owned, tail, call>>

Next == Manages \/ \E k \in Conns : Serving(k) \/ Visits(k)

Spec == Init /\ [][Next]_vars

\* Files and the store answer, a timer fires.  No client has to go, no peer registry to answer.
FairSpec ==
  /\ Spec /\ WF_vars(Closes) /\ \A c \in Calls : WF_vars(Step(c))
  /\ \A k \in Conns : WF_vars((TimesOut(k) \/ Rejected(k))
                               /\ UNCHANGED <<manager, stored, current, listening, owned, tail, call>>)

(***************************************************************************)
(* Properties.                                                             *)
(***************************************************************************)

\* The registry shown is up and serves what was selected, through every replacement
\* and every failed one (docs/SUITE_DECLARATION.md: "EADDRINUSE is not hidden by
\* stopping a good source").
ShownIsServed ==
  alive /\ ~disposed =>
    /\ status = "ready" => source # None /\ listening[source] = OptionsOf(selection)
    /\ status = "disabled" => source = None /\ OptionsOf(selection) = None
    /\ status = "failed" => source = None

\* What is shown as selected is what the store has, so that a crash at any time
\* brings it back, unless the write of another one is with the store or was rejected
\* ("failure leaves the previous durable selection and source intact").
SelectionIsStored == alive /\ status \in {"ready", "disabled"} => selection \in stored

\* A source that is up makes way only for one that is stored already.
ReplacedWhenStored == alive' /\ ~disposed /\ source # None /\ source' # source => stored' = {selection'}

\* What the page shows is what is served now and what a restart would serve, and it
\* changes when it is stored.
ShownIsTrue == [](ShownIsServed /\ SelectionIsStored) /\ [][ReplacedWhenStored]_vars

\* When nothing is under way, the only listeners that are up are the one shown and
\* those whose close has failed: no candidate and no old source is left behind.
NothingLeftBehind ==
  /\ Up \subseteq owned
  /\ alive /\ tail = <<>> /\ ~disposed => Up \ stuck \subseteq {source}

\* After close() nothing listens, unless it says so ("closes every owned listener ... rather
\* than silently skipping"), and nothing is written, connected or asked of the peer registry.
ClosedIsClosed ==
  closing \in {"store", "done"} =>
    /\ Up # {} => complaint
    /\ \A c \in Calls : call[c].pc = "idle"
    /\ Asking = {} /\ \A k \in Conns : conn[k].at = None

\* No listener outlives its use, in operation and after the disposal.
ListenersAreOwned == NothingLeftBehind /\ ClosedIsClosed

\* Every configure(), close() and request to the peer registry ends, whatever fails, though
\* clients keep their connections and the peer registry never answers.
EveryCallReturns ==
  /\ \A k \in Conns : conn[k].pc # "none" ~> conn[k].pc = "none"
  /\ \A c \in Calls : call[c].pc # "idle" ~> call[c].pc = "idle"
  /\ closing # "no" ~> closing \in {"done", "no"}
=============================================================================
