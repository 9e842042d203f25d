--------------------------- MODULE SuiteSourceProofs ---------------------------
(***************************************************************************)
(* Type correctness of SuiteSource, that no listener outlives its use, and *)
(* that what is shown is what is served and stored, for any number of      *)
(* calls, options, listeners and clients.                                  *)
(*                                                                         *)
(* What holds them up is that the calls take their turns: only the one at  *)
(* the head of the chain holds a listener (TailInv, HoldsInv), so that a   *)
(* listener that is up is the one shown, the one that call holds, one      *)
(* whose close has failed, or one that close() has still to release        *)
(* (UpInv).                                                                *)
(***************************************************************************)
EXTENDS SuiteSource, TLAPS

Working == closing \in {"no", "waiting"}

\* The chain has each call that has begun and not ended, once; only its head is at work.
TailInv ==
  /\ \A i, j \in 1..Len(tail) : tail[i] = tail[j] => i = j
  /\ \A c \in Calls : call[c].pc # "idle" <=> \E i \in 1..Len(tail) : tail[i] = c
  /\ \A c \in Calls : call[c].pc \notin {"idle", "queued"} => InTurn(c)

\* Nothing is left of the process before, and the disposal goes through its stages.
LifeInv ==
  /\ ~alive => /\ source = None /\ status = "disabled" /\ listening = Silent
               /\ owned = {} /\ tail = <<>> /\ closing = "no" /\ conn = Nobody
  /\ ~Working => tail = <<>>
  /\ closing # "releasing" => todo = {} /\ ending = None

\* The registry shown is up, until close() releases it.
ShownInv ==
  alive /\ Working =>
    /\ status # "disposed"
    /\ status = "ready" => /\ source # None /\ listening[source] = OptionsOf(selection)
                           /\ ~Quiet(source)
    /\ status = "disabled" => source = None /\ OptionsOf(selection) = None
    /\ status = "failed" => source = None

Holding == {"publishing", "releasing", "undoing"}

\* What a call holds is not what is shown, and what it has handed to the store is up.
Holds(c) ==
  /\ call[c].pc = "opening" => OptionsOf(call[c].sel) # None
  /\ call[c].pc = "publishing" => call[c].sel \in stored
  /\ call[c].pc = "publishing" /\ call[c].own # None =>
       listening[call[c].own] = OptionsOf(call[c].sel) /\ ~Quiet(call[c].own)
  /\ call[c].pc = "publishing" /\ call[c].own = None => OptionsOf(call[c].sel) = None
  /\ call[c].pc \in {"releasing", "undoing"} => call[c].own # None
  /\ call[c].pc \in Holding /\ source # None => call[c].own # source
HoldsInv == \A c \in Calls : Holds(c)

\* Every listener that is up has a reason to be.
UpInv ==
  /\ Up \subseteq owned
  /\ alive /\ Working =>
       \A l \in Up \ stuck : l = source \/ \E c \in Calls : call[c].pc \in Holding /\ call[c].own = l
  /\ ~Working => Up \ stuck \subseteq todo /\ (Up \subseteq todo \/ complaint)

\* Clients are connected to what accepts connections, and ask over a connection.
ConnInv ==
  \A k \in Conns : /\ conn[k].at # None => conn[k].at \in Accepting
                   /\ conn[k].pc = "asking" => conn[k].at # None

IInv == TypeOK /\ TailInv /\ LifeInv /\ ShownInv /\ HoldsInv /\ UpInv /\ ConnInv /\ SelectionIsStored

(***************************************************************************)
(* Lemmas about the chain and the options.                                 *)
(***************************************************************************)

\* What a selection stands for is one of the options, or nothing.
LEMMA OptionsTyped == \A s \in Selections : OptionsOf(s) \in Customs \cup {None}
BY OptionsAssumption DEF Selections, OptionsOf

LEMMA ConnTyped == Away \in Conn /\ Nobody \in [Conns -> Conn]
BY DEF Away, Nobody, Conn

LEMMA IdleTyped == Idle \in Call /\ Idle.pc = "idle" /\ Idle.own = None
BY DEF Idle, Call, Selections

\* While the head of the chain is at work, no other call is.
LEMMA OthersWait ==
  ASSUME TypeOK, TailInv, NEW c \in Calls, InTurn(c), NEW d \in Calls, d # c
  PROVE  call[d].pc \in {"idle", "queued"}
BY DEF TailInv, InTurn

\* The head of the chain ends, and the next one moves up.
LEMMA FinishKeeps ==
  ASSUME TypeOK, TailInv, NEW c \in Calls, InTurn(c), Finish(c)
  PROVE  /\ TailInv' /\ tail' \in Seq(Calls) /\ call' \in [Calls -> Call]
         /\ call'[c].pc = "idle" /\ \A d \in Calls \ {c} : call'[d] = call[d]
         /\ \A d \in Calls : call'[d].pc \in {"idle", "queued"}
<1>1. call \in [Calls -> Call] /\ tail \in Seq(Calls) /\ tail # <<>> /\ c = tail[1]
  BY DEF TypeOK, InTurn
<1>2. call' \in [Calls -> Call] /\ call'[c] = Idle /\ \A d \in Calls \ {c} : call'[d] = call[d]
  BY <1>1, IdleTyped DEF Finish
<1>3. call'[c].pc = "idle"
  BY <1>2, IdleTyped
<1>4. \A d \in Calls : call'[d].pc \in {"idle", "queued"}
  BY <1>2, <1>3, OthersWait
<1>5. tail' \in Seq(Calls) /\ Len(tail') = Len(tail) - 1 /\ \A i \in 1..Len(tail') : tail'[i] = tail[i + 1]
  BY <1>1 DEF Finish
<1>6. Len(tail) \in Nat \ {0}
  BY <1>1
<1>7. \A i, j \in 1..Len(tail') : tail'[i] = tail'[j] => i = j
  <2> SUFFICES ASSUME NEW i \in 1..Len(tail'), NEW j \in 1..Len(tail'), tail'[i] = tail'[j]
               PROVE  i = j
    OBVIOUS
  <2>1. tail[i + 1] = tail[j + 1] /\ i + 1 \in 1..Len(tail) /\ j + 1 \in 1..Len(tail)
    BY <1>5, <1>6
  <2> QED BY <2>1, i + 1 = j + 1 DEF TailInv
<1>8. ASSUME NEW d \in Calls PROVE call'[d].pc # "idle" <=> \E i \in 1..Len(tail') : tail'[i] = d
  <2>1. CASE d = c
    <3>1. \A i \in 1..Len(tail') : i + 1 \in 1..Len(tail) /\ i + 1 # 1 /\ 1 \in 1..Len(tail)
      BY <1>5, <1>6
    <3>2. \A i \in 1..Len(tail') : tail'[i] # c
      BY <3>1, <1>5, <1>1 DEF TailInv
    <3> QED BY <3>2, <2>1, <1>3
  <2>2. CASE d # c
    <3>1. (\E i \in 1..Len(tail) : tail[i] = d) => \E i \in 1..Len(tail') : tail'[i] = d
      <4> SUFFICES ASSUME NEW i \in 1..Len(tail), tail[i] = d
                   PROVE  \E j \in 1..Len(tail') : tail'[j] = d
        OBVIOUS
      <4>1. i # 1
        BY <1>1, <2>2
      <4>2. i - 1 \in 1..Len(tail') /\ (i - 1) + 1 = i
        BY <4>1, <1>5, <1>6
      <4>3. tail'[i - 1] = d
        BY <4>2, <1>5
      <4> QED BY <4>2, <4>3
    <3>2. (\E i \in 1..Len(tail') : tail'[i] = d) => \E i \in 1..Len(tail) : tail[i] = d
      <4>1. \A i \in 1..Len(tail') : i + 1 \in 1..Len(tail)
        BY <1>5, <1>6
      <4> QED BY <4>1, <1>5
    <3> QED BY <3>1, <3>2, <1>2, <2>2 DEF TailInv
  <2> QED BY <2>1, <2>2
<1> QED BY <1>2, <1>3, <1>4, <1>5, <1>7, <1>8 DEF TailInv

\* The head of the chain goes on to its next step, with what it holds.
LEMMA GoesKeeps ==
  ASSUME TypeOK, TailInv, NEW c \in Calls, InTurn(c),
         NEW pc \in {"opening", "publishing", "releasing", "undoing"},
         NEW own \in Listeners \cup {None}, Goes(c, pc, own)
  PROVE  /\ TailInv' /\ tail' \in Seq(Calls) /\ tail' # <<>> /\ call' \in [Calls -> Call]
         /\ call'[c].pc = pc /\ call'[c].own = own /\ call'[c].sel = call[c].sel
         /\ \A d \in Calls \ {c} : call'[d] = call[d] /\ call'[d].pc \in {"idle", "queued"}
<1>1. call \in [Calls -> Call] /\ tail \in Seq(Calls) /\ tail # <<>> /\ c = tail[1] /\ tail' = tail
  BY DEF TypeOK, InTurn, Goes
<1>2. /\ call' \in [Calls -> Call]
      /\ call'[c].pc = pc /\ call'[c].own = own /\ call'[c].sel = call[c].sel
      /\ \A d \in Calls \ {c} : call'[d] = call[d]
  BY <1>1 DEF Goes, Call
<1>3. \A d \in Calls \ {c} : call'[d].pc \in {"idle", "queued"}
  BY <1>2, OthersWait
<1>4. \E i \in 1..Len(tail) : tail[i] = c
  <2>1. 1 \in 1..Len(tail)
    BY <1>1
  <2> QED BY <2>1, <1>1
<1>5. \A d \in Calls : call'[d].pc # "idle" <=> \E i \in 1..Len(tail') : tail'[i] = d
  BY <1>1, <1>2, <1>4 DEF TailInv
<1>6. \A d \in Calls : call'[d].pc \notin {"idle", "queued"} => InTurn(d)'
  BY <1>1, <1>2, <1>3 DEF InTurn
<1> QED BY <1>1, <1>2, <1>3, <1>5, <1>6 DEF TailInv

(***************************************************************************)
(* The steps of configure().                                               *)
(***************************************************************************)

\* A listener that a call holds accepts no connection once it is being released.
LEMMA AcceptsExcept ==
  ASSUME TypeOK, NEW c \in Calls,
         \A d \in Calls \ {c} : call[d].pc \in {"idle", "queued"},
         NEW l \in Up \ (stuck \cup {ending}),
         call[c].pc \in {"releasing", "undoing"} => call[c].own # l
  PROVE  l \in Accepting
BY DEF Accepting, Releasing, At

LEMMA AcceptsExceptNext ==
  ASSUME TypeOK', NEW c \in Calls,
         \A d \in Calls \ {c} : call'[d].pc \in {"idle", "queued"},
         NEW l \in Up' \ (stuck' \cup {ending'}),
         call'[c].pc \in {"releasing", "undoing"} => call'[c].own # l
  PROVE  l \in Accepting'
BY DEF Accepting, Releasing, At

\* close(): the sockets of the listener are gone, and no other.
LEMMA ShutKeeps ==
  ASSUME conn \in [Conns -> Conn], NEW l \in Listeners, Shut(l)
  PROVE  /\ conn' \in [Conns -> Conn]
         /\ \A k \in Conns : /\ conn'[k].at = IF conn[k].at = l THEN None ELSE conn[k].at
                             /\ conn'[k].pc = "asking" => conn[k].pc = "asking" /\ conn[k].at # l
BY DEF Shut, Conn, Cut

Typed ==
  /\ stored' \in SUBSET Selections /\ stored' # {} /\ selection' \in Selections
  /\ source' \in Listeners \cup {None} /\ status' \in {"disabled", "ready", "failed"}
  /\ listening' \in [Listeners -> Customs \cup {None}]
  /\ stuck' \subseteq Listeners /\ owned' \subseteq Listeners /\ conn' \in [Conns -> Conn]

\* What is left for a step at which the head of the chain ends.
LEMMA EndKeeps ==
  ASSUME IInv, NEW c \in Calls, alive, InTurn(c), Finish(c),
         UNCHANGED <<alive, closing, todo, ending, complaint>>, Typed,
         ShownInv', SelectionIsStored', Up' \subseteq owned',
         \A l \in Up' \ stuck' : l = source',
         \A k \in Conns : /\ conn'[k].at # None => conn'[k].at \in Up' \ stuck'
                          /\ conn'[k].pc = "asking" => conn'[k].at # None
  PROVE  IInv'
<1>1. /\ TailInv' /\ tail' \in Seq(Calls) /\ call' \in [Calls -> Call]
      /\ \A d \in Calls : call'[d].pc \in {"idle", "queued"}
  BY FinishKeeps DEF IInv
<1>2. tail # <<>> /\ Working /\ todo = {} /\ ending = None
  BY DEF IInv, LifeInv, InTurn, Working
<1>3. TypeOK'
  BY <1>1, <1>2 DEF IInv, TypeOK, Typed
<1>4. LifeInv'
  BY <1>2 DEF IInv, LifeInv, Working
<1>5. HoldsInv'
  BY <1>1 DEF HoldsInv, Holds, Holding
<1>6. UpInv'
  BY <1>2 DEF UpInv, Working
<1>7. ConnInv'
  <2> SUFFICES ASSUME NEW k \in Conns, conn'[k].at # None PROVE conn'[k].at \in Accepting'
    BY DEF ConnInv
  <2>1. conn'[k].at \in Listeners /\ conn'[k].at \in Up' \ stuck' /\ ending' = None
    BY <1>2, <1>3 DEF TypeOK, Conn
  <2>2. conn'[k].at \in Up' \ (stuck' \cup {ending'})
    BY <2>1, OptionsAssumption
  <2> QED BY <2>2, <1>1, <1>3, AcceptsExceptNext
<1> QED BY <1>1, <1>3, <1>4, <1>5, <1>6, <1>7 DEF IInv

\* What is left for a step at which it goes on.
LEMMA GoKeeps ==
  ASSUME IInv, NEW c \in Calls, alive, InTurn(c),
         NEW pc \in {"opening", "publishing", "releasing", "undoing"},
         NEW own \in Listeners \cup {None}, Goes(c, pc, own),
         UNCHANGED <<alive, closing, todo, ending, complaint>>, Typed,
         ShownInv', SelectionIsStored', Holds(c)', Up' \subseteq owned',
         \A l \in Up' \ stuck' : l = source' \/ (pc # "opening" /\ l = own),
         \A k \in Conns : /\ conn'[k].at # None => conn'[k].at \in Up' \ stuck'
                          /\ conn'[k].at # None /\ pc \in {"releasing", "undoing"} => conn'[k].at # own
                          /\ conn'[k].pc = "asking" => conn'[k].at # None
  PROVE  IInv'
<1>1. /\ TailInv' /\ tail' \in Seq(Calls) /\ tail' # <<>> /\ call' \in [Calls -> Call]
      /\ call'[c].pc = pc /\ call'[c].own = own /\ call'[c].sel = call[c].sel
      /\ \A d \in Calls \ {c} : call'[d] = call[d] /\ call'[d].pc \in {"idle", "queued"}
  BY GoesKeeps DEF IInv
<1>2. tail # <<>> /\ Working /\ todo = {} /\ ending = None
  BY DEF IInv, LifeInv, InTurn, Working
<1>3. TypeOK'
  BY <1>1, <1>2 DEF IInv, TypeOK, Typed
<1>4. LifeInv'
  BY <1>2 DEF IInv, LifeInv, Working
<1>5. HoldsInv'
  BY <1>1 DEF HoldsInv, Holds, Holding
<1>6. UpInv'
  BY <1>1, <1>2 DEF UpInv, Working, Holding
<1>7. ConnInv'
  <2> SUFFICES ASSUME NEW k \in Conns, conn'[k].at # None PROVE conn'[k].at \in Accepting'
    BY DEF ConnInv
  <2>1. conn'[k].at \in Listeners /\ conn'[k].at \in Up' \ stuck' /\ ending' = None
    BY <1>2, <1>3 DEF TypeOK, Conn
  <2>2. conn'[k].at \in Up' \ (stuck' \cup {ending'})
    BY <2>1, OptionsAssumption
  <2> QED BY <2>2, <1>1, <1>3, AcceptsExceptNext
<1> QED BY <1>1, <1>3, <1>4, <1>5, <1>6, <1>7 DEF IInv

\* What is known when the head of the chain is at the step pc.
LEMMA HeadKnows ==
  ASSUME IInv, NEW c \in Calls, InTurn(c)
  PROVE  /\ Working /\ ending = None /\ call \in [Calls -> Call]
         /\ status \in {"ready", "disabled", "failed"} \/ ~alive
         /\ alive => \A l \in Up \ stuck : l = source \/ (call[c].pc \in Holding /\ l = call[c].own)
         /\ \A k \in Conns : /\ conn[k].at # None => conn[k].at \in Up \ stuck
                             /\ conn[k].pc = "asking" => conn[k].at # None
         /\ alive /\ call[c].pc \in {"releasing", "undoing"} =>
              \A k \in Conns : conn[k].at # call[c].own
<1>1. tail # <<>> /\ Working /\ ending = None /\ call \in [Calls -> Call]
  BY DEF IInv, LifeInv, InTurn, Working, TypeOK
<1>2. \A d \in Calls \ {c} : call[d].pc \in {"idle", "queued"}
  BY OthersWait DEF IInv
<1>3. alive => \A l \in Up \ stuck : l = source \/ (call[c].pc \in Holding /\ l = call[c].own)
  BY <1>1, <1>2 DEF IInv, UpInv, Holding
<1>4. \A k \in Conns : /\ conn[k].at # None => conn[k].at \in Up \ stuck
                       /\ conn[k].pc = "asking" => conn[k].at # None
  BY DEF IInv, ConnInv, Accepting
<1>5. alive /\ call[c].pc \in {"releasing", "undoing"} =>
        \A k \in Conns : conn[k].at # call[c].own
  BY DEF IInv, ConnInv, Accepting, Releasing, At, HoldsInv, Holds
<1>6. status \in {"ready", "disabled", "failed"} \/ ~alive
  BY <1>1 DEF IInv, TypeOK, ShownInv
<1> QED BY <1>1, <1>3, <1>4, <1>5, <1>6

LEMMA TurnKeeps == ASSUME IInv, NEW c \in Calls, Turn(c) PROVE IInv'
<1> DEFINE sel == call[c].sel
<1>1. /\ alive /\ call[c].pc = "queued" /\ InTurn(c) /\ call[c] \in Call
      /\ UNCHANGED <<manager, current, listening, owned, conn>>
  BY DEF Turn, At, IInv, TypeOK
<1>2. UNCHANGED <<alive, closing, todo, ending, complaint, stuck, selection, source, status, listening, owned, conn>>
  BY <1>1 DEF manager, current
<1>3. /\ Working /\ status \in {"ready", "disabled", "failed"}
      /\ \A l \in Up' \ stuck' : l = source' /\ Up' \subseteq owned'
      /\ \A k \in Conns : /\ conn'[k].at # None => conn'[k].at \in Up' \ stuck'
                          /\ conn'[k].pc = "asking" => conn'[k].at # None
  BY <1>1, <1>2, HeadKnows DEF IInv, UpInv, Up, Quiet, Holding
<1>4. ShownInv' /\ Up' \subseteq owned'
  BY <1>2 DEF IInv, ShownInv, Working, Quiet, Up, UpInv
<1>5. sel \in Selections
  BY <1>1 DEF Call
<1>6. stored' \in {stored, stored \cup {sel}} => Typed /\ SelectionIsStored'
  BY <1>2, <1>3, <1>5 DEF IInv, TypeOK, Typed, SelectionIsStored
<1>7. CASE Finish(c) /\ UNCHANGED stored
  BY <1>1, <1>2, <1>3, <1>4, <1>6, <1>7, EndKeeps
<1>8. CASE OptionsOf(call[c].sel) = None /\ Publish(c, None)
  <2>1. Goes(c, "publishing", None) /\ stored' = stored \cup {sel}
    BY <1>8 DEF Publish
  <2>2. call'[c].pc = "publishing" /\ call'[c].own = None /\ call'[c].sel = sel
    BY <2>1, <1>1, GoesKeeps DEF IInv
  <2>3. Holds(c)'
    BY <1>8, <2>1, <2>2 DEF Holds, OptionsOf
  <2> QED BY <1>1, <1>2, <1>3, <1>4, <1>6, <2>1, <2>3, GoKeeps
<1>9. CASE OptionsOf(call[c].sel) # None /\ Goes(c, "opening", None) /\ UNCHANGED stored
  <2>1. call'[c].pc = "opening" /\ call'[c].sel = sel
    BY <1>9, <1>1, GoesKeeps DEF IInv
  <2>2. Holds(c)'
    BY <1>9, <2>1 DEF Holds, OptionsOf, Holding
  <2> QED BY <1>1, <1>2, <1>3, <1>4, <1>6, <1>9, <2>2, GoKeeps
<1> QED BY <1>7, <1>8, <1>9 DEF Turn

LEMMA OpenFailsKeeps == ASSUME IInv, NEW c \in Calls, OpenFails(c) PROVE IInv'
<1>1. /\ alive /\ call[c].pc = "opening" /\ InTurn(c) /\ Finish(c)
      /\ UNCHANGED <<alive, closing, todo, ending, complaint, stuck, stored, selection, source, status,
                     listening, owned, conn>>
  BY DEF OpenFails, At, manager, current
<1>2. /\ Working /\ status \in {"ready", "disabled", "failed"}
      /\ \A l \in Up' \ stuck' : l = source'
      /\ \A k \in Conns : /\ conn'[k].at # None => conn'[k].at \in Up' \ stuck'
                          /\ conn'[k].pc = "asking" => conn'[k].at # None
  BY <1>1, HeadKnows DEF Up, Quiet, Holding
<1>3. ShownInv' /\ Up' \subseteq owned' /\ SelectionIsStored'
  BY <1>1 DEF IInv, ShownInv, Working, Quiet, Up, UpInv, SelectionIsStored
<1>4. Typed
  BY <1>1, <1>2 DEF IInv, TypeOK, Typed
<1> QED BY <1>1, <1>2, <1>3, <1>4, EndKeeps

LEMMA OpenedKeeps == ASSUME IInv, NEW c \in Calls, Opened(c) PROVE IInv'
<1> DEFINE sel == call[c].sel
<1>1. /\ alive /\ call[c].pc = "opening" /\ InTurn(c) /\ call[c] \in Call
      /\ UNCHANGED <<alive, closing, todo, ending, complaint, stuck, selection, source, status, conn>>
  BY DEF Opened, At, manager, current, IInv, TypeOK
<1>2. PICK l \in Listeners :
        /\ Openable(OptionsOf(sel), l)
        /\ listening' = [listening EXCEPT ![l] = OptionsOf(sel)]
        /\ owned' = owned \cup {l}
        /\ \/ Goes(c, "undoing", l) /\ UNCHANGED stored
           \/ Goes(c, "publishing", l) /\ stored' = stored \cup {sel}
  BY DEF Opened, Publish
<1>3. sel \in Selections /\ OptionsOf(sel) # None /\ OptionsOf(sel) \in Customs
  BY <1>1, OptionsTyped DEF IInv, HoldsInv, Holds, Call
<1>4. /\ listening' \in [Listeners -> Customs \cup {None}]
      /\ listening'[l] = OptionsOf(sel) /\ \A k \in Listeners \ {l} : listening'[k] = listening[k]
      /\ listening[l] = None
  BY <1>2, <1>3 DEF Openable, Quiet, IInv, TypeOK
<1>5. Up' = Up \cup {l}
  BY <1>3, <1>4 DEF Up, Quiet
<1>6. /\ Working /\ status \in {"ready", "disabled", "failed"}
      /\ \A m \in Up \ stuck : m = source
      /\ \A k \in Conns : /\ conn[k].at # None => conn[k].at \in Up \ stuck
                          /\ conn[k].pc = "asking" => conn[k].at # None
  BY <1>1, HeadKnows DEF Holding
<1>7. source # None => source # l
  BY <1>1, <1>4, <1>6 DEF IInv, ShownInv, Quiet
<1>8. ShownInv'
  BY <1>1, <1>4, <1>6, <1>7 DEF IInv, TypeOK, ShownInv, Working, Quiet, OptionsOf
<1>9. Up' \subseteq owned' /\ SelectionIsStored' /\ Typed
  BY <1>1, <1>2, <1>3, <1>4, <1>5, <1>6 DEF IInv, UpInv, SelectionIsStored, Typed, TypeOK
<1>10. /\ \A m \in Up' \ stuck' : m = source' \/ m = l
       /\ \A k \in Conns : /\ conn'[k].at # None => conn'[k].at \in Up' \ stuck' /\ conn'[k].at # l
                           /\ conn'[k].pc = "asking" => conn'[k].at # None
  BY <1>1, <1>4, <1>5, <1>6 DEF Up, Quiet
<1>11. CASE Goes(c, "undoing", l) /\ UNCHANGED stored
  <2>1. call'[c].pc = "undoing" /\ call'[c].own = l
    BY <1>11, <1>1, GoesKeeps DEF IInv
  <2>2. Holds(c)'
    BY <2>1, <1>1, <1>7, OptionsAssumption DEF Holds
  <2> QED BY <1>1, <1>8, <1>9, <1>10, <1>11, <2>2, GoKeeps
<1>12. CASE Goes(c, "publishing", l) /\ stored' = stored \cup {sel}
  <2>1. call'[c].pc = "publishing" /\ call'[c].own = l /\ call'[c].sel = sel
    BY <1>12, <1>1, GoesKeeps DEF IInv
  <2>2. Holds(c)'
    BY <2>1, <1>1, <1>3, <1>4, <1>7, <1>12, OptionsAssumption DEF Holds, Quiet, OptionsOf
  <2> QED BY <1>1, <1>8, <1>9, <1>10, <1>12, <2>2, GoKeeps
<1> QED BY <1>2, <1>11, <1>12

LEMMA PublishedKeeps == ASSUME IInv, NEW c \in Calls, Published(c) PROVE IInv'
<1> DEFINE own == call[c].own
           sel == call[c].sel
<1>1. /\ alive /\ call[c].pc = "publishing" /\ InTurn(c) /\ call[c] \in Call
      /\ own \in Listeners \cup {None} /\ sel \in Selections
      /\ UNCHANGED <<alive, closing, todo, ending, complaint, stuck, listening, owned>>
      /\ stored' = {sel} /\ source' = own /\ selection' = sel
      /\ status' = IF own = None THEN "disabled" ELSE "ready"
  BY DEF Published, At, manager, IInv, TypeOK, Call
<1>2. /\ Working
      /\ \A l \in Up \ stuck : l = source \/ l = own
      /\ \A k \in Conns : /\ conn[k].at # None => conn[k].at \in Up \ stuck
                          /\ conn[k].pc = "asking" => conn[k].at # None
  BY <1>1, HeadKnows DEF Holding
<1>3. /\ own # None => listening[own] = OptionsOf(sel) /\ ~Quiet(own)
      /\ own = None => OptionsOf(sel) = None
      /\ source # None => own # source
  BY <1>1 DEF IInv, HoldsInv, Holds, Holding
<1>4. ShownInv' /\ SelectionIsStored' /\ Up' = Up /\ Up' \subseteq owned'
  BY <1>1, <1>3 DEF ShownInv, Quiet, OptionsOf, SelectionIsStored, Up, IInv, UpInv
<1>5. conn' \in [Conns -> Conn] => Typed
  BY <1>1 DEF IInv, TypeOK, Typed
<1>6. CASE source = None /\ Finish(c) /\ UNCHANGED conn
  <2>1. \A l \in Up' \ stuck' : l = source'
    BY <1>1, <1>2, <1>4, <1>6, OptionsAssumption DEF Up
  <2>2. Typed
    BY <1>5, <1>6 DEF IInv, TypeOK
  <2>3. \A k \in Conns : /\ conn'[k].at # None => conn'[k].at \in Up' \ stuck'
                         /\ conn'[k].pc = "asking" => conn'[k].at # None
    BY <1>1, <1>2, <1>4, <1>6
  <2> QED BY <1>1, <1>4, <1>6, <2>1, <2>2, <2>3, EndKeeps
<1>7. CASE source # None /\ Goes(c, "releasing", source) /\ Shut(source)
  <2>1. source \in Listeners /\ conn \in [Conns -> Conn]
    BY <1>7 DEF IInv, TypeOK
  <2>2. /\ conn' \in [Conns -> Conn]
        /\ \A k \in Conns : /\ conn'[k].at = IF conn[k].at = source THEN None ELSE conn[k].at
                            /\ conn'[k].pc = "asking" => conn[k].pc = "asking" /\ conn[k].at # source
    BY <1>7, <2>1, ShutKeeps
  <2>3. Typed
    BY <1>5, <2>2
  <2>4. /\ \A l \in Up' \ stuck' : l = source' \/ l = source
        /\ \A k \in Conns : /\ conn'[k].at # None => conn'[k].at \in Up' \ stuck' /\ conn'[k].at # source
                            /\ conn'[k].pc = "asking" => conn'[k].at # None
    BY <1>1, <1>2, <1>4, <2>2
  <2>5. call'[c].pc = "releasing" /\ call'[c].own = source
    BY <1>7, <1>1, <2>1, GoesKeeps DEF IInv
  <2>6. Holds(c)'
    BY <2>5, <1>1, <1>3, <1>7 DEF Holds
  <2> QED BY <1>1, <1>4, <1>7, <2>1, <2>3, <2>4, <2>6, GoKeeps
<1> QED BY <1>6, <1>7 DEF Published, Retire

LEMMA PublishFailsKeeps == ASSUME IInv, NEW c \in Calls, PublishFails(c) PROVE IInv'
<1> DEFINE own == call[c].own
<1>1. /\ alive /\ call[c].pc = "publishing" /\ InTurn(c) /\ own \in Listeners \cup {None}
      /\ UNCHANGED <<alive, closing, todo, ending, complaint, stuck, stored, selection, source, status,
                     listening, owned>>
  BY DEF PublishFails, At, manager, current, IInv, TypeOK, Call
<1>2. /\ Working /\ status \in {"ready", "disabled", "failed"}
      /\ \A l \in Up \ stuck : l = source \/ l = own
      /\ \A k \in Conns : /\ conn[k].at # None => conn[k].at \in Up \ stuck
                          /\ conn[k].pc = "asking" => conn[k].at # None
  BY <1>1, HeadKnows DEF Holding
<1>3. source # None => own # source
  BY <1>1 DEF IInv, HoldsInv, Holds, Holding
<1>4. ShownInv' /\ SelectionIsStored' /\ Up' = Up /\ Up' \subseteq owned'
  BY <1>1 DEF IInv, ShownInv, Working, Quiet, SelectionIsStored, Up, UpInv
<1>5. conn' \in [Conns -> Conn] => Typed
  BY <1>1, <1>2 DEF IInv, TypeOK, Typed
<1>6. CASE own = None /\ Finish(c) /\ UNCHANGED conn
  <2>1. \A l \in Up' \ stuck' : l = source'
    BY <1>1, <1>2, <1>4, <1>6, OptionsAssumption DEF Up
  <2>2. Typed
    BY <1>5, <1>6 DEF IInv, TypeOK
  <2>3. \A k \in Conns : /\ conn'[k].at # None => conn'[k].at \in Up' \ stuck'
                         /\ conn'[k].pc = "asking" => conn'[k].at # None
    BY <1>1, <1>2, <1>4, <1>6
  <2> QED BY <1>1, <1>4, <1>6, <2>1, <2>2, <2>3, EndKeeps
<1>7. CASE own # None /\ Goes(c, "undoing", own) /\ Shut(own)
  <2>1. own \in Listeners /\ conn \in [Conns -> Conn]
    BY <1>1, <1>7 DEF IInv, TypeOK
  <2>2. /\ conn' \in [Conns -> Conn]
        /\ \A k \in Conns : /\ conn'[k].at = IF conn[k].at = own THEN None ELSE conn[k].at
                            /\ conn'[k].pc = "asking" => conn[k].pc = "asking" /\ conn[k].at # own
    BY <1>7, <2>1, ShutKeeps
  <2>3. Typed
    BY <1>5, <2>2
  <2>4. /\ \A l \in Up' \ stuck' : l = source' \/ l = own
        /\ \A k \in Conns : /\ conn'[k].at # None => conn'[k].at \in Up' \ stuck' /\ conn'[k].at # own
                            /\ conn'[k].pc = "asking" => conn'[k].at # None
    BY <1>1, <1>2, <1>4, <2>2
  <2>5. call'[c].pc = "undoing" /\ call'[c].own = own
    BY <1>7, <1>1, <2>1, GoesKeeps DEF IInv
  <2>6. Holds(c)'
    BY <2>5, <1>1, <1>3, <1>7 DEF Holds
  <2> QED BY <1>1, <1>4, <1>7, <2>1, <2>3, <2>4, <2>6, GoKeeps
<1> QED BY <1>6, <1>7 DEF PublishFails

LEMMA ReleasedKeeps == ASSUME IInv, NEW c \in Calls, Released(c) PROVE IInv'
<1> DEFINE own == call[c].own
<1>1. /\ alive /\ call[c].pc \in {"releasing", "undoing"} /\ InTurn(c) /\ Finish(c)
      /\ listening' = [listening EXCEPT ![own] = None] /\ owned' = owned \ {own}
      /\ UNCHANGED <<alive, closing, todo, ending, complaint, stuck, stored, selection, source, status, conn>>
  BY DEF Released, Releasing, At, manager, current
<1>2. /\ Working /\ status \in {"ready", "disabled", "failed"}
      /\ \A l \in Up \ stuck : l = source \/ l = own
      /\ \A k \in Conns : /\ conn[k].at # None => conn[k].at \in Up \ stuck /\ conn[k].at # own
                          /\ conn[k].pc = "asking" => conn[k].at # None
  BY <1>1, HeadKnows DEF Holding
<1>3. own \in Listeners /\ (source # None => own # source)
  BY <1>1 DEF IInv, HoldsInv, Holds, Holding, TypeOK, Call
<1>4. /\ listening' \in [Listeners -> Customs \cup {None}]
      /\ listening'[own] = None /\ \A k \in Listeners \ {own} : listening'[k] = listening[k]
  BY <1>1, <1>3 DEF IInv, TypeOK
<1>5. Up' = Up \ {own}
  BY <1>3, <1>4 DEF Up, Quiet
<1>6. ShownInv'
  BY <1>1, <1>2, <1>3, <1>4 DEF IInv, TypeOK, ShownInv, Working, Quiet, OptionsOf
<1>7. SelectionIsStored' /\ Up' \subseteq owned' /\ Typed
  BY <1>1, <1>2, <1>4, <1>5 DEF IInv, TypeOK, UpInv, SelectionIsStored, Typed
<1>8. /\ \A l \in Up' \ stuck' : l = source'
      /\ \A k \in Conns : /\ conn'[k].at # None => conn'[k].at \in Up' \ stuck'
                          /\ conn'[k].pc = "asking" => conn'[k].at # None
  BY <1>1, <1>2, <1>5
<1> QED BY <1>1, <1>6, <1>7, <1>8, EndKeeps

LEMMA ReleaseFailsKeeps == ASSUME IInv, NEW c \in Calls, ReleaseFails(c) PROVE IInv'
<1> DEFINE own == call[c].own
<1>1. /\ alive /\ call[c].pc \in {"releasing", "undoing"} /\ InTurn(c) /\ Finish(c)
      /\ stuck' = stuck \cup {own}
      /\ UNCHANGED <<alive, closing, todo, ending, complaint, stored, selection, source, status, listening,
                     owned, conn>>
  BY DEF ReleaseFails, Releasing, At, current
<1>2. /\ Working /\ status \in {"ready", "disabled", "failed"}
      /\ \A l \in Up \ stuck : l = source \/ l = own
      /\ \A k \in Conns : /\ conn[k].at # None => conn[k].at \in Up \ stuck /\ conn[k].at # own
                          /\ conn[k].pc = "asking" => conn[k].at # None
  BY <1>1, HeadKnows DEF Holding
<1>3. own \in Listeners
  BY <1>1 DEF IInv, HoldsInv, Holds, TypeOK, Call
<1>4. ShownInv' /\ SelectionIsStored' /\ Up' = Up /\ Up' \subseteq owned'
  BY <1>1 DEF IInv, ShownInv, Working, Quiet, SelectionIsStored, Up, UpInv
<1>5. Typed
  BY <1>1, <1>2, <1>3 DEF IInv, TypeOK, Typed
<1>6. /\ \A l \in Up' \ stuck' : l = source'
      /\ \A k \in Conns : /\ conn'[k].at # None => conn'[k].at \in Up' \ stuck'
                          /\ conn'[k].pc = "asking" => conn'[k].at # None
  BY <1>1, <1>2, <1>4
<1> QED BY <1>1, <1>4, <1>5, <1>6, EndKeeps

(***************************************************************************)
(* The activation, the disposal and the clients.                           *)
(***************************************************************************)

LEMMA BootKeeps == ASSUME IInv, Boot PROVE IInv'
<1>1. PICK s \in stored :
        /\ stored' = {s}
        /\ \/ OptionsOf(s) = None /\ Started(s, None) /\ status' = "disabled"
           \/ OptionsOf(s) # None /\ \E l \in Listeners : Started(s, l) /\ status' = "ready"
           \/ OptionsOf(s) # None /\ Started(s, None) /\ status' = "failed"
           \/ Started("configured", None) /\ status' = "failed"
  BY DEF Boot
<1>2. PICK l \in Listeners \cup {None} : Started(selection', l)
  BY <1>1 DEF Started
<1>3. /\ alive' /\ source' = l /\ owned' = {l} \ {None}
      /\ listening' = IF l = None THEN Silent ELSE [Silent EXCEPT ![l] = OptionsOf(selection')]
      /\ UNCHANGED <<stuck, tail, call, closing, todo, ending, complaint, conn>>
  BY <1>2 DEF Started
<1>4. /\ s \in Selections /\ selection' \in {s, "configured"} /\ selection' \in Selections
      /\ status' \in {"disabled", "ready", "failed"}
      /\ status' \in {"ready", "disabled"} => selection' = s
      /\ status' = "disabled" => l = None /\ OptionsOf(s) = None
      /\ status' = "ready" => l # None /\ OptionsOf(s) # None
      /\ status' = "failed" => l = None
  BY <1>1, <1>3, OptionsAssumption DEF IInv, TypeOK, Started, Selections
<1>5. /\ tail = <<>> /\ closing = "no" /\ todo = {} /\ ending = None /\ conn = Nobody
  BY DEF Boot, IInv, LifeInv
<1>6. OptionsOf(selection') \in Customs \cup {None}
  BY <1>4, OptionsTyped
<1>7. /\ listening' \in [Listeners -> Customs \cup {None}]
      /\ l # None => listening'[l] = OptionsOf(selection')
      /\ \A k \in Listeners \ {l} : listening'[k] = None
  BY <1>3, <1>6, OptionsAssumption DEF Silent
<1>8. Up' \subseteq {l} \ {None}
  BY <1>7, OptionsAssumption DEF Up, Quiet
<1>9. \A c \in Calls : call'[c].pc = "idle"
  <2>1. \A c \in Calls : call[c].pc # "idle" => \E i \in 1..0 : tail[i] = c
    BY <1>5 DEF IInv, TailInv
  <2> QED BY <2>1, <1>3
<1>10. TypeOK'
  BY <1>1, <1>3, <1>4, <1>7 DEF IInv, TypeOK
<1>11. TailInv' /\ LifeInv' /\ HoldsInv' /\ SelectionIsStored'
  <2>1. TailInv'
    BY <1>3, <1>9 DEF IInv, TailInv, InTurn
  <2>2. LifeInv'
    BY <1>3, <1>5 DEF LifeInv, Working
  <2>3. HoldsInv'
    BY <1>9 DEF HoldsInv, Holds, Holding
  <2>4. SelectionIsStored'
    BY <1>1, <1>4 DEF SelectionIsStored
  <2> QED BY <2>1, <2>2, <2>3, <2>4
<1>12. ShownInv'
  BY <1>3, <1>4, <1>7 DEF ShownInv, Quiet, OptionsOf
<1>13. UpInv'
  BY <1>3, <1>5, <1>8 DEF UpInv, Working
<1>14. ConnInv'
  BY <1>3, <1>5 DEF ConnInv, Nobody, Away
<1> QED BY <1>10, <1>11, <1>12, <1>13, <1>14 DEF IInv

\* A call that is admitted is the last of the chain, once.
LEMMA ConfigureKeeps == ASSUME IInv, NEW c \in Calls, Configure(c) PROVE IInv'
<1>1. PICK s \in Selections : call' = [call EXCEPT ![c] = [Idle EXCEPT !.pc = "queued", !.sel = s]]
  BY DEF Configure
<1>2. /\ alive /\ ~disposed /\ call[c].pc = "idle" /\ tail' = Append(tail, c)
      /\ UNCHANGED <<alive, closing, todo, ending, complaint, stuck, stored, selection, source, status,
                     listening, owned, conn>>
  BY DEF Configure, manager, current
<1>3. call \in [Calls -> Call] /\ tail \in Seq(Calls)
  BY DEF IInv, TypeOK
<1>4. /\ call' \in [Calls -> Call] /\ call'[c].pc = "queued"
      /\ \A d \in Calls \ {c} : call'[d] = call[d]
  BY <1>1, <1>3 DEF Idle, Call
<1>5. /\ tail' \in Seq(Calls) /\ Len(tail') = Len(tail) + 1 /\ Len(tail) \in Nat
      /\ tail'[Len(tail) + 1] = c /\ \A i \in 1..Len(tail) : tail'[i] = tail[i]
  BY <1>2, <1>3
<1>6. \A i \in 1..Len(tail) : tail[i] # c
  BY <1>2 DEF IInv, TailInv
<1>7. \A i, j \in 1..Len(tail') : tail'[i] = tail'[j] => i = j
  <2>1. \A i \in 1..Len(tail') : i \in 1..Len(tail) \/ i = Len(tail) + 1
    BY <1>5
  <2>2. \A i, j \in 1..Len(tail) : tail'[i] = tail'[j] => i = j
    BY <1>5 DEF IInv, TailInv
  <2>3. \A i \in 1..Len(tail) : tail'[i] # tail'[Len(tail) + 1]
    BY <1>5, <1>6
  <2> QED BY <2>1, <2>2, <2>3
<1>8. \A d \in Calls : call'[d].pc # "idle" <=> \E i \in 1..Len(tail') : tail'[i] = d
  <2>1. \A i \in 1..Len(tail) : i \in 1..Len(tail')
    BY <1>5
  <2>2. Len(tail) + 1 \in 1..Len(tail')
    BY <1>5
  <2>3. \A i \in 1..Len(tail') : i \in 1..Len(tail) \/ i = Len(tail) + 1
    BY <1>5
  <2>4. call'[c].pc # "idle" /\ \E i \in 1..Len(tail') : tail'[i] = c
    BY <1>4, <1>5, <2>2
  <2>5. \A d \in Calls \ {c} : (\E i \in 1..Len(tail') : tail'[i] = d) <=> \E i \in 1..Len(tail) : tail[i] = d
    BY <1>5, <2>1, <2>3
  <2> QED BY <1>4, <2>4, <2>5 DEF IInv, TailInv
<1>9. \A d \in Calls : InTurn(d) => InTurn(d)'
  BY <1>3, <1>5 DEF InTurn
<1>10. TailInv'
  <2>1. \A d \in Calls : call'[d].pc \notin {"idle", "queued"} => InTurn(d)'
    BY <1>4, <1>9 DEF IInv, TailInv
  <2> QED BY <1>7, <1>8, <2>1 DEF TailInv
<1>11. TypeOK' /\ SelectionIsStored'
  BY <1>2, <1>4, <1>5 DEF IInv, TypeOK, SelectionIsStored
<1>12. LifeInv'
  BY <1>2 DEF IInv, LifeInv, Working, disposed
<1>13. ShownInv' /\ Up' = Up
  BY <1>2 DEF IInv, ShownInv, Working, Quiet, Up
<1>14. HoldsInv'
  <2>1. Holds(c)'
    BY <1>4 DEF Holds, Holding
  <2>2. \A d \in Calls \ {c} : Holds(d)'
    BY <1>2, <1>4 DEF IInv, HoldsInv, Holds, Quiet, OptionsOf
  <2> QED BY <2>1, <2>2 DEF HoldsInv
<1>15. UpInv'
  <2>1. \A d \in Calls : call[d].pc \in Holding => call'[d] = call[d]
    BY <1>2, <1>4 DEF Holding
  <2>2. \A d \in Calls : call[d].pc \in Holding => call'[d].pc \in Holding /\ call'[d].own = call[d].own
    BY <2>1
  <2> QED BY <1>2, <1>13, <2>2 DEF IInv, UpInv, Working
<1>16. Accepting \subseteq Accepting'
  <2>1. \A d \in Calls : Releasing(d)' => Releasing(d) /\ call'[d] = call[d]
    <3> SUFFICES ASSUME NEW d \in Calls, Releasing(d)' PROVE Releasing(d) /\ call'[d] = call[d]
      OBVIOUS
    <3>1. d # c /\ call'[d] = call[d] /\ alive
      BY <1>2, <1>4 DEF Releasing, At
    <3>2. call[d].pc \in {"releasing", "undoing"}
      BY <3>1 DEF Releasing, At
    <3>3. InTurn(d)
      BY <3>2 DEF IInv, TailInv
    <3> QED BY <3>1, <3>2, <3>3 DEF Releasing, At
  <2> QED BY <1>2, <1>13, <2>1 DEF Accepting
<1>17. ConnInv'
  BY <1>2, <1>16 DEF IInv, ConnInv
<1> QED BY <1>10, <1>11, <1>12, <1>13, <1>14, <1>15, <1>17 DEF IInv

\* What only the disposal or the clients change leaves the chain alone.
ChainStays == UNCHANGED <<alive, stored, selection, source, status, tail, call>>

LEMMA ChainKeeps ==
  ASSUME IInv, ChainStays, UNCHANGED listening \/ tail = <<>>
  PROVE  TailInv' /\ HoldsInv' /\ SelectionIsStored' /\ \A c \in Calls : InTurn(c)' <=> InTurn(c)
<1>1. TailInv' /\ SelectionIsStored' /\ \A c \in Calls : InTurn(c)' <=> InTurn(c)
  BY DEF ChainStays, IInv, TailInv, SelectionIsStored, InTurn
<1>2. CASE UNCHANGED listening
  BY <1>1, <1>2 DEF ChainStays, IInv, HoldsInv, Holds, Quiet, OptionsOf
<1>3. CASE tail = <<>>
  <2>1. \A c \in Calls : call'[c].pc = "idle"
    <3>1. \A c \in Calls : call[c].pc # "idle" => \E i \in 1..0 : tail[i] = c
      BY <1>3 DEF IInv, TailInv
    <3> QED BY <3>1 DEF ChainStays
  <2> QED BY <1>1, <2>1 DEF HoldsInv, Holds, Holding
<1> QED BY <1>2, <1>3

LEMMA CloseKeeps == ASSUME IInv, Close PROVE IInv'
<1>1. /\ alive /\ closing = "no" /\ closing' = "waiting" /\ ChainStays
      /\ UNCHANGED <<listening, stuck, owned, todo, ending, complaint, conn>>
  BY DEF Close, current, ChainStays
<1>2. TailInv' /\ HoldsInv' /\ SelectionIsStored' /\ \A c \in Calls : InTurn(c)' <=> InTurn(c)
  BY <1>1, ChainKeeps
<1>3. TypeOK' /\ LifeInv' /\ ShownInv'
  BY <1>1 DEF ChainStays, IInv, TypeOK, LifeInv, ShownInv, Working, Quiet, OptionsOf
<1>4. Up' = Up /\ Accepting' = Accepting
  BY <1>1, <1>2 DEF ChainStays, Up, Quiet, Accepting, Releasing, At
<1>5. UpInv' /\ ConnInv'
  BY <1>1, <1>4 DEF ChainStays, IInv, UpInv, ConnInv, Working
<1> QED BY <1>2, <1>3, <1>5 DEF IInv

LEMMA CloseStartsKeeps == ASSUME IInv, CloseStarts PROVE IInv'
<1>1. /\ alive /\ closing = "waiting" /\ tail = <<>> /\ closing' = "releasing" /\ todo' = owned
      /\ ChainStays
      /\ UNCHANGED <<listening, stuck, owned, ending, complaint, conn>>
  BY DEF CloseStarts, current, ChainStays
<1>2. TailInv' /\ HoldsInv' /\ SelectionIsStored' /\ \A c \in Calls : InTurn(c)' <=> InTurn(c)
  BY <1>1, ChainKeeps
<1>3. TypeOK' /\ LifeInv' /\ ShownInv'
  BY <1>1 DEF ChainStays, IInv, TypeOK, LifeInv, ShownInv, Working, Quiet, OptionsOf
<1>4. Up' = Up /\ Accepting' = Accepting
  BY <1>1, <1>2 DEF ChainStays, Up, Quiet, Accepting, Releasing, At
<1>5. UpInv' /\ ConnInv'
  BY <1>1, <1>4 DEF ChainStays, IInv, UpInv, ConnInv, Working
<1> QED BY <1>2, <1>3, <1>5 DEF IInv

LEMMA CloseStopsKeeps == ASSUME IInv, NEW l \in Listeners, CloseStops(l) PROVE IInv'
<1>1. /\ alive /\ closing = "releasing" /\ ending = None /\ l \in todo /\ ending' = l /\ Shut(l)
      /\ ChainStays
      /\ UNCHANGED <<closing, listening, stuck, owned, todo, complaint>>
  BY DEF CloseStops, current, ChainStays
<1>2. TailInv' /\ HoldsInv' /\ SelectionIsStored' /\ \A c \in Calls : InTurn(c)' <=> InTurn(c)
  BY <1>1, ChainKeeps
<1>3. /\ conn' \in [Conns -> Conn]
      /\ \A k \in Conns : /\ conn'[k].at = IF conn[k].at = l THEN None ELSE conn[k].at
                          /\ conn'[k].pc = "asking" => conn[k].pc = "asking" /\ conn[k].at # l
  BY <1>1, ShutKeeps DEF IInv, TypeOK
<1>4. TypeOK' /\ LifeInv' /\ ShownInv'
  BY <1>1, <1>3 DEF ChainStays, IInv, TypeOK, LifeInv, ShownInv, Working, Quiet, OptionsOf
<1>5. Up' = Up /\ Accepting \subseteq Accepting' \cup {l}
  BY <1>1, <1>2 DEF ChainStays, Up, Quiet, Accepting, Releasing, At
<1>6. UpInv'
  BY <1>1, <1>5 DEF ChainStays, IInv, UpInv, Working
<1>7. ConnInv'
  BY <1>3, <1>5 DEF IInv, ConnInv
<1> QED BY <1>2, <1>4, <1>6, <1>7 DEF IInv

LEMMA CloseReleasesKeeps == ASSUME IInv, CloseReleases PROVE IInv'
<1>1. /\ alive /\ ending # None /\ ChainStays
      /\ todo' = todo \ {ending} /\ ending' = None
      /\ UNCHANGED <<closing, conn>>
  BY DEF CloseReleases, current, ChainStays
<1>2. closing = "releasing" /\ tail = <<>> /\ ending \in todo /\ ending \in Listeners
  BY <1>1 DEF IInv, TypeOK, LifeInv, Working
<1>3. TailInv' /\ HoldsInv' /\ SelectionIsStored' /\ \A c \in Calls : InTurn(c)' <=> InTurn(c)
  BY <1>1, <1>2, ChainKeeps
<1>4. \/ /\ listening' = [listening EXCEPT ![ending] = None] /\ owned' = owned \ {ending}
         /\ UNCHANGED <<stuck, complaint>>
      \/ stuck' = stuck \cup {ending} /\ complaint' = TRUE /\ UNCHANGED <<listening, owned>>
  BY DEF CloseReleases
<1>5. TypeOK' /\ LifeInv' /\ ShownInv'
  <2>1. TypeOK'
    <3>1. CASE /\ listening' = [listening EXCEPT ![ending] = None] /\ owned' = owned \ {ending}
               /\ UNCHANGED <<stuck, complaint>>
      BY <1>1, <1>2, <3>1 DEF ChainStays, IInv, TypeOK
    <3>2. CASE stuck' = stuck \cup {ending} /\ complaint' = TRUE /\ UNCHANGED <<listening, owned>>
      BY <1>1, <1>2, <3>2 DEF ChainStays, IInv, TypeOK
    <3> QED BY <1>4, <3>1, <3>2
  <2>2. LifeInv' /\ ShownInv'
    BY <1>1, <1>2 DEF ChainStays, IInv, LifeInv, ShownInv, Working
  <2> QED BY <2>1, <2>2
<1>6. \/ Up' = Up \ {ending} /\ Up' \subseteq owned' /\ stuck' = stuck /\ complaint' = complaint
      \/ Up' = Up /\ owned' = owned /\ stuck' = stuck \cup {ending} /\ complaint' = TRUE
  <2>1. CASE /\ listening' = [listening EXCEPT ![ending] = None] /\ owned' = owned \ {ending}
             /\ UNCHANGED <<stuck, complaint>>
    <3>1. listening'[ending] = None /\ \A l \in Listeners \ {ending} : listening'[l] = listening[l]
      BY <1>2, <2>1 DEF IInv, TypeOK
    <3>2. Up' = Up \ {ending}
      BY <1>2, <3>1 DEF Up, Quiet
    <3> QED BY <2>1, <3>2 DEF IInv, UpInv
  <2>2. CASE stuck' = stuck \cup {ending} /\ complaint' = TRUE /\ UNCHANGED <<listening, owned>>
    BY <2>2 DEF Up, Quiet
  <2> QED BY <1>4, <2>1, <2>2
<1>7. UpInv'
  BY <1>1, <1>2, <1>6 DEF IInv, UpInv, Working
<1>8. Accepting \subseteq Accepting'
  <2>1. Accepting \subseteq Up' \ (stuck' \cup {ending'})
    <3>1. None \notin Accepting
      BY OptionsAssumption DEF Accepting, Up
    <3> QED BY <3>1, <1>1, <1>6 DEF Accepting
  <2>2. \A c \in Calls : Releasing(c)' => Releasing(c) /\ call'[c] = call[c]
    BY <1>1, <1>3 DEF ChainStays, Releasing, At
  <2> QED BY <2>1, <2>2 DEF Accepting
<1>9. ConnInv'
  BY <1>1, <1>8 DEF IInv, ConnInv
<1> QED BY <1>3, <1>5, <1>7, <1>9 DEF IInv

LEMMA CloseEndsKeeps == ASSUME IInv, CloseStore \/ Closed PROVE IInv'
<1>1. /\ alive /\ closing \in {"releasing", "store"} /\ closing' \in {"store", "done"} /\ todo = {}
      /\ source' \in {None, source} /\ status' \in {"disposed", status}
      /\ UNCHANGED <<alive, stored, selection, listening, stuck, owned, tail, call, todo, ending,
                     complaint, conn>>
  BY DEF CloseStore, Closed, current, IInv, LifeInv
<1>2. tail = <<>> /\ ending = None
  BY <1>1 DEF IInv, TypeOK, LifeInv, Working
<1>3. TailInv'
  BY <1>1 DEF IInv, TailInv, InTurn
<1>4. TypeOK' /\ LifeInv' /\ ShownInv' /\ SelectionIsStored'
  BY <1>1, <1>2 DEF IInv, TypeOK, LifeInv, ShownInv, Working, SelectionIsStored
<1>5. HoldsInv'
  <2>1. \A c \in Calls : call'[c].pc = "idle"
    <3>1. \A c \in Calls : call[c].pc # "idle" => \E i \in 1..0 : tail[i] = c
      BY <1>2 DEF IInv, TailInv
    <3> QED BY <1>1, <3>1
  <2> QED BY <2>1 DEF HoldsInv, Holds, Holding
<1>6. Up' = Up /\ Accepting' = Accepting
  BY <1>1 DEF Up, Quiet, Accepting, Releasing, At, InTurn
<1>7. UpInv' /\ ConnInv'
  BY <1>1, <1>6 DEF IInv, UpInv, ConnInv, Working
<1> QED BY <1>3, <1>4, <1>5, <1>7 DEF IInv

LEMMA Begins ==
  ASSUME alive = FALSE, complaint = FALSE, stored \in SUBSET Selections, stored # {},
         selection \in Selections, source = None, status = "disabled", listening = Silent,
         stuck = {}, owned = {}, todo = {}, tail = <<>>, call = [c \in Calls |-> Idle],
         closing = "no", ending = None, conn = Nobody
  PROVE  IInv
<1>1. TypeOK
  <2>1. listening \in [Listeners -> Customs \cup {None}] /\ call \in [Calls -> Call] /\ tail \in Seq(Calls)
    BY IdleTyped DEF Silent
  <2>2. conn \in [Conns -> Conn]
    BY ConnTyped
  <2> QED BY <2>1, <2>2 DEF TypeOK
<1>2. TailInv /\ HoldsInv
  BY IdleTyped DEF TailInv, HoldsInv, Holds, Holding
<1>3. LifeInv /\ ShownInv /\ UpInv /\ SelectionIsStored
  BY DEF LifeInv, ShownInv, UpInv, SelectionIsStored, Working, Up, Quiet, Silent
<1>4. ConnInv
  BY DEF ConnInv, Nobody, Away
<1> QED BY <1>1, <1>2, <1>3, <1>4 DEF IInv

LEMMA ExitKeeps == ASSUME IInv, Exit PROVE IInv'
<1>1. TypeOK'
  <2>1. /\ listening' \in [Listeners -> Customs \cup {None}] /\ call' \in [Calls -> Call]
        /\ tail' \in Seq(Calls)
    BY IdleTyped DEF Silent, Exit
  <2>2. conn' \in [Conns -> Conn]
    BY ConnTyped DEF Exit
  <2> QED BY <2>1, <2>2 DEF TypeOK, Exit, IInv
<1>2. TailInv' /\ HoldsInv'
  BY IdleTyped DEF TailInv, HoldsInv, Holds, Holding, Exit
<1>3. LifeInv' /\ ShownInv' /\ UpInv' /\ SelectionIsStored'
  BY DEF LifeInv, ShownInv, UpInv, SelectionIsStored, Working, Up, Quiet, Silent, Exit
<1>4. ConnInv'
  BY DEF ConnInv, Nobody, Away, Exit
<1> QED BY <1>1, <1>2, <1>3, <1>4 DEF IInv

\* A client comes, asks, is answered or goes, and nothing else changes.
LEMMA ClientsKeep ==
  ASSUME IInv, NEW k \in Conns, Serving(k) \/ Visits(k)
  PROVE  IInv'
<1>1. /\ ChainStays
      /\ UNCHANGED <<listening, stuck, owned, closing, todo, ending, complaint>>
  BY DEF Serving, Visits, manager, current, ChainStays
<1>2. TailInv' /\ HoldsInv' /\ SelectionIsStored' /\ \A c \in Calls : InTurn(c)' <=> InTurn(c)
  BY <1>1, ChainKeeps
<1>3. Up' = Up /\ Accepting' = Accepting
  BY <1>1, <1>2 DEF ChainStays, Up, Quiet, Accepting, Releasing, At
<1>4. conn \in [Conns -> Conn] /\ Accepting \subseteq Listeners
  BY DEF IInv, TypeOK, Accepting, Up
<1>5. /\ conn' \in [Conns -> Conn] /\ \A m \in Conns \ {k} : conn'[m] = conn[m]
      /\ conn'[k].at # None => conn'[k].at = conn[k].at \/ conn'[k].at \in Accepting
      /\ conn'[k].pc = "asking" => conn'[k].at # None
  <2>1. CASE Serves(k)
    BY <2>1, <1>4 DEF Serves, PeerAnswers, TimesOut, Rejected, Conn, IInv, ConnInv
  <2>2. CASE Connect(k, Accepting)
    <3>1. conn[k].pc # "asking"
      BY <2>2 DEF Connect, Away
    <3> QED BY <2>2, <3>1, <1>4 DEF Connect, Conn
  <2>3. CASE Ask(k)
    BY <2>3, <1>4 DEF Ask, Conn
  <2>4. CASE Disconnects(k)
    BY <2>4, <1>4 DEF Disconnects, Conn, Cut
  <2> QED BY <2>1, <2>2, <2>3, <2>4 DEF Serving, Visits
<1>6. TypeOK' /\ LifeInv' /\ ShownInv'
  <2>1. TypeOK' /\ ShownInv'
    BY <1>1, <1>5 DEF ChainStays, IInv, TypeOK, ShownInv, Working, Quiet, OptionsOf
  <2>2. ~alive => conn' = conn
    <3> SUFFICES ASSUME ~alive PROVE conn' = conn
      OBVIOUS
    <3>1. conn[k] = Away /\ Accepting = {}
      BY DEF IInv, LifeInv, Nobody, Accepting, Up, Quiet, Silent
    <3> QED BY <3>1 DEF Serving, Visits, Serves, PeerAnswers, TimesOut, Rejected, Connect, Ask, Disconnects,
                        Away
  <2> QED BY <1>1, <2>1, <2>2 DEF ChainStays, IInv, LifeInv, Working
<1>7. UpInv'
  BY <1>1, <1>3 DEF ChainStays, IInv, UpInv, Working
<1>8. ConnInv'
  BY <1>3, <1>5 DEF IInv, ConnInv
<1> QED BY <1>2, <1>6, <1>7, <1>8 DEF IInv

(***************************************************************************)
(* The theorems.                                                           *)
(***************************************************************************)

LEMMA Inductive == IInv /\ [Next]_vars => IInv'
<1> SUFFICES ASSUME IInv, [Next]_vars PROVE IInv'
  OBVIOUS
<1>1. ASSUME NEW c \in Calls, Step(c) PROVE IInv'
  BY <1>1, TurnKeeps, OpenedKeeps, OpenFailsKeeps, PublishedKeeps, PublishFailsKeeps, ReleasedKeeps,
     ReleaseFailsKeeps DEF Step
<1>2. ASSUME NEW c \in Calls, Configure(c) PROVE IInv'
  BY <1>2, ConfigureKeeps
<1>3. CASE Closes
  BY <1>3, CloseStartsKeeps, CloseStopsKeeps, CloseReleasesKeeps, CloseEndsKeeps DEF Closes
<1>4. CASE Boot \/ Close \/ Exit
  BY <1>4, BootKeeps, CloseKeeps, ExitKeeps
<1>5. ASSUME NEW k \in Conns, Serving(k) \/ Visits(k) PROVE IInv'
  BY <1>5, ClientsKeep
<1>6. CASE UNCHANGED vars
  <2>1. ChainStays /\ UNCHANGED <<listening, stuck, owned, closing, todo, ending, complaint, conn>>
    BY <1>6 DEF vars, ChainStays
  <2>2. TailInv' /\ HoldsInv' /\ SelectionIsStored' /\ \A c \in Calls : InTurn(c)' <=> InTurn(c)
    BY <2>1, ChainKeeps
  <2>3. TypeOK' /\ LifeInv' /\ ShownInv'
    BY <2>1 DEF ChainStays, IInv, TypeOK, LifeInv, ShownInv, Working, Quiet, OptionsOf
  <2>4. Up' = Up /\ Accepting' = Accepting
    BY <2>1, <2>2 DEF ChainStays, Up, Quiet, Accepting, Releasing, At
  <2>5. UpInv' /\ ConnInv'
    BY <2>1, <2>4 DEF ChainStays, IInv, UpInv, ConnInv, Working
  <2> QED BY <2>2, <2>3, <2>5 DEF IInv
<1> QED BY <1>1, <1>2, <1>3, <1>4, <1>5, <1>6 DEF Next, Manages

LEMMA Invariance == Spec => []IInv
<1>1. Init => IInv
  <2> SUFFICES ASSUME Init PROVE IInv
    OBVIOUS
  <2>1. "configured" \in Selections
    BY DEF Selections
  <2> QED BY <2>1, Begins DEF Init
<1> QED BY <1>1, Inductive, PTL DEF Spec

\* The state of the managed source keeps its type.
THEOREM TypeCorrect == Spec => []TypeOK
<1>1. IInv => TypeOK
  BY DEF IInv
<1> QED BY <1>1, Invariance, PTL

\* No listener is left behind: what is up is the source that is shown, or what the call at
\* the head of the chain is at, or what could not be closed; and after close() nothing
\* listens, unless it has said so, and nothing is asked of the peer registry.
THEOREM NothingOutlivesItsUse == Spec => []ListenersAreOwned
<1>1. IInv => ListenersAreOwned
  <2> SUFFICES ASSUME IInv PROVE ListenersAreOwned
    OBVIOUS
  <2>1. tail = <<>> => \A c \in Calls : call[c].pc = "idle"
    <3>1. tail = <<>> => \A c \in Calls : call[c].pc # "idle" => \E i \in 1..0 : tail[i] = c
      BY DEF IInv, TailInv
    <3> QED BY <3>1
  <2>2. NothingLeftBehind
    BY <2>1 DEF NothingLeftBehind, IInv, UpInv, Working, disposed, Holding
  <2>3. ClosedIsClosed
    <3> SUFFICES ASSUME closing \in {"store", "done"} PROVE ClosedIsClosed
      BY DEF ClosedIsClosed
    <3>1. ~Working /\ todo = {} /\ tail = <<>>
      BY DEF IInv, LifeInv, Working
    <3>2. Up \subseteq stuck /\ (Up # {} => complaint)
      BY <3>1 DEF IInv, UpInv
    <3>3. \A k \in Conns : conn[k].at = None /\ conn[k].pc # "asking"
      BY <3>2 DEF IInv, ConnInv, Accepting
    <3> QED BY <2>1, <3>1, <3>2, <3>3 DEF ClosedIsClosed, Asking
  <2> QED BY <2>2, <2>3 DEF ListenersAreOwned
<1> QED BY <1>1, Invariance, PTL

\* What is shown is what is served and what the store has, whatever fails and whenever the
\* process ends; and a source that is up makes way only for a selection that is stored.
THEOREM ShownAsStored == Spec => ShownIsTrue
<1>1. IInv => ShownIsServed /\ SelectionIsStored
  BY DEF IInv, ShownInv, ShownIsServed, Working, disposed
<1>2. IInv /\ [Next]_vars => [ReplacedWhenStored]_vars
  <2> SUFFICES ASSUME IInv, Next, alive', ~disposed, source # None, source' # source
               PROVE  stored' = {selection'}
    BY DEF ReplacedWhenStored
  <2>1. alive
    BY DEF IInv, LifeInv
  <2>2. CASE \E c \in Calls : Published(c)
    BY <2>2 DEF Published
  <2>3. CASE Closes
    BY <2>3 DEF Closes, CloseStarts, CloseStops, CloseReleases, CloseStore, Closed, current, disposed
  <2>4. CASE Boot \/ Close \/ Exit
    BY <2>1, <2>4 DEF Boot, Close, Exit, current
  <2>5. CASE \E c \in Calls : Configure(c) \/ Turn(c) \/ Opened(c) \/ OpenFails(c) \/ PublishFails(c)
                               \/ Released(c) \/ ReleaseFails(c)
    BY <2>5 DEF Configure, Turn, Opened, OpenFails, PublishFails, Released, ReleaseFails, current
  <2>6. CASE \E k \in Conns : Serving(k) \/ Visits(k)
    BY <2>6 DEF Serving, Visits, current
  <2> QED BY <2>2, <2>3, <2>4, <2>5, <2>6 DEF Next, Manages, Step
<1> QED BY <1>1, <1>2, Invariance, PTL DEF Spec, ShownIsTrue

=============================================================================
