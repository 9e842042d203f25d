----------------------------- MODULE PointsProofs -----------------------------
(***************************************************************************)
(* Type correctness of Points, and, when no refresh starts while a server  *)
(* is saved (Exclusive), that neither the points nor the cached names come *)
(* from a server that is no longer in effect, for any number of calls,     *)
(* servers, rows and workers.                                              *)
(*                                                                         *)
(* The invariant is about the calls that are under way: one whose          *)
(* generation was not bumped has read and asked only the server in effect, *)
(* and none of them is under way while a server is saved.                  *)
(***************************************************************************)
EXTENDS Points, TLAPS

(***************************************************************************)
(* Types.                                                                  *)
(***************************************************************************)

LEMMA BaseTypes == Idle \in Call /\ Unavailable \in Reading
BY DEF Idle, Call, Unavailable, Reading, Named

\* The records of the model, built from well-typed parts.
LEMMA RecordTypes ==
  ASSUME TypeOK, NEW c \in Calls
  PROVE  /\ call[c] \in Call
         /\ call[c].read \in Reading
         /\ call[c].asking \in [Hanas -> Servers \cup {None, "dead"}]
         /\ call[c].read.rows \subseteq Hanas
         /\ call[c].read.named \in [Hanas -> Named]
         /\ Idle \in Call
BY BaseTypes DEF TypeOK, Call, Reading, Named

\* A call keeps its type when one of its parts is replaced.
LEMMA CallTypes ==
  ASSUME NEW r \in Call
  PROVE  /\ [r EXCEPT !.same = FALSE] \in Call
         /\ Disposed(r) \in Call
         /\ \A rows \in SUBSET Hanas : [r EXCEPT !.pc = "naming", !.read.rows = rows] \in Call
         /\ \A h \in Hanas, n \in Named :
              /\ [r EXCEPT !.read.named[h] = n] \in Call
              /\ [r EXCEPT !.asking[h] = None, !.read.named[h] = n] \in Call
         /\ \A h \in Hanas, s \in Servers : [r EXCEPT !.asking[h] = s] \in Call
BY DEF Call, Reading, Disposed, Named

\* Every action keeps the types.
LEMMA TypeStep == TypeOK /\ [Next]_vars => TypeOK'
<1> SUFFICES ASSUME TypeOK, [Next]_vars PROVE TypeOK'
  OBVIOUS
<1> USE DEF settings
<1>1. CASE SetServer
  <2>1. call' \in [Calls -> Call]
    BY <1>1, RecordTypes, CallTypes DEF SetServer, TypeOK
  <2> QED BY <1>1, <2>1 DEF SetServer, TypeOK
<1>2. CASE ServerStored
  <2>1. call' \in [Calls -> Call]
    BY <1>2, RecordTypes, CallTypes DEF ServerStored, TypeOK
  <2> QED BY <1>2, <2>1, BaseTypes DEF ServerStored, TypeOK
<1>3. CASE ServerRefused \/ SetConsent \/ Register \/ Clear \/ Age
  BY <1>3 DEF ServerRefused, SetConsent, Register, Clear, Age, TypeOK
<1>4. CASE Recover
  BY <1>4, BaseTypes DEF Recover, TypeOK
<1>5. ASSUME NEW c \in Calls, Refresh(c) \/ RefreshWithout(c)
      PROVE  TypeOK'
  <2>1. CASE Refresh(c)
    <3>1. transport \in Servers
      BY DEF TypeOK
    <3>2. [Idle EXCEPT !.pc = "asked", !.read.origin = transport, !.live = TRUE, !.same = TRUE]
            \in Call
      BY <3>1 DEF Idle, Call, Reading, Unavailable, Named
    <3> QED BY <2>1, <3>2 DEF Refresh, TypeOK
  <2>2. CASE RefreshWithout(c)
    BY <2>2, BaseTypes DEF RefreshWithout, TypeOK
  <2> QED BY <1>5, <2>1, <2>2
<1>6. ASSUME NEW c \in Calls, Answered(c) \/ Fails(c) \/ End(c)
      PROVE  TypeOK'
  <2>1. CASE Answered(c)
    <3>1. \A rows \in SUBSET Hanas :
            [call EXCEPT ![c].pc = "naming", ![c].read.rows = rows] \in [Calls -> Call]
      BY RecordTypes, CallTypes DEF TypeOK
    <3> QED BY <2>1, <3>1 DEF Answered, TypeOK
  <2>2. CASE Fails(c)
    BY <2>2, BaseTypes DEF Fails, TypeOK
  <2>3. CASE End(c)
    BY <2>3, RecordTypes DEF End, TypeOK
  <2> QED BY <1>6, <2>1, <2>2, <2>3
<1>7. ASSUME NEW c \in Calls, NEW h \in Hanas,
             TakeRow(c, h) \/ NameArrives(c, h) \/ NameFails(c, h)
      PROVE  TypeOK'
  <2> DEFINE named(n) == [call EXCEPT ![c].asking[h] = None, ![c].read.named[h] = n]
  <2>1. ASSUME NEW n \in Named PROVE named(n) \in [Calls -> Call]
    BY <2>1, RecordTypes, CallTypes DEF TypeOK
  <2>2. CASE TakeRow(c, h)
    <3>1. transport \in Servers /\ names[h] \in Named
      BY DEF TypeOK, Named
    <3>2. [call EXCEPT ![c].read.named[h] = names[h]] \in [Calls -> Call]
      BY <3>1, RecordTypes, CallTypes DEF TypeOK
    <3>3. [call EXCEPT ![c].asking[h] = transport] \in [Calls -> Call]
      BY <3>1, RecordTypes, CallTypes DEF TypeOK
    <3> QED BY <2>2, <3>2, <3>3 DEF TakeRow, TypeOK
  <2>3. CASE NameArrives(c, h)
    <3>1. call[c].asking[h] \in Servers /\ call' = named(call[c].asking[h])
      BY <2>3 DEF NameArrives
    <3>2. call' \in [Calls -> Call]
      BY <3>1, <2>1 DEF Named
    <3> QED BY <2>3, <3>1, <3>2 DEF NameArrives, TypeOK
  <2>4. CASE NameFails(c, h)
    <3>1. call' = named("failed") /\ "failed" \in Named
      BY <2>4 DEF NameFails, Named
    <3>2. call' \in [Calls -> Call]
      BY <3>1, <2>1
    <3> QED BY <2>4, <3>2 DEF NameFails, TypeOK
  <2> QED BY <1>7, <2>2, <2>3, <2>4
<1>8. CASE UNCHANGED vars
  BY <1>8 DEF vars, TypeOK
<1> QED BY <1>1, <1>2, <1>3, <1>4, <1>5, <1>6, <1>7, <1>8 DEF Next, Progress

\* Every variable stays in its type: in particular a failed request for a name is
\* never cached as a name (controller.ts, #hanaName: "never cached as absence").
THEOREM TypeCorrect == Spec => []TypeOK
<1>1. Init => TypeOK
  BY ServerAssumption, BaseTypes DEF Init, TypeOK
<1> QED BY <1>1, TypeStep, PTL DEF Spec

(***************************************************************************)
(* The servers that points and names come from.                            *)
(***************************************************************************)

\* A call under way has read, and asks, only the server in effect.
AsksOne(r) ==
  /\ r.read.origin = transport
  /\ \A h \in Hanas : /\ r.asking[h] \in {None, transport}
                       /\ r.read.named[h] \in {None, transport, "failed"}
CallInv == \A c \in Calls : call[c].same => saving = None /\ AsksOne(call[c])

ServerInv ==
  /\ CallInv
  /\ PointsOfServerInEffect /\ NamesOfServerInEffect /\ OneServerPerReading

\* Saving a server puts every call under way out of date.
LEMMA SaveStep ==
  ASSUME TypeOK, ServerInv, SetServer \/ ServerStored \/ ServerRefused
  PROVE  ServerInv'
<1> USE DEF settings
<1>1. CASE SetServer
  <2>1. \A c \in Calls : ~call'[c].same
    BY <1>1 DEF SetServer, TypeOK, Call
  <2> QED BY <1>1, <2>1 DEF SetServer, ServerInv, CallInv, PointsOfServerInEffect,
                            NamesOfServerInEffect, OneServerPerReading
<1>2. CASE ServerStored
  <2>1. \A c \in Calls : ~call'[c].same
    BY <1>2 DEF ServerStored, Disposed, TypeOK, Call, ServerInv, CallInv
  <2>2. points'.origin = None /\ points'.rows = {} /\ \A h \in Hanas : names'[h] = None
    BY <1>2 DEF ServerStored, Unavailable
  <2> QED BY <2>1, <2>2 DEF ServerInv, CallInv, PointsOfServerInEffect,
                            NamesOfServerInEffect, OneServerPerReading
<1>3. CASE ServerRefused
  BY <1>3 DEF ServerRefused, ServerInv, CallInv, AsksOne, PointsOfServerInEffect,
              NamesOfServerInEffect, OneServerPerReading
<1> QED BY <1>1, <1>2, <1>3

\* A refresh starts with the server in effect, while none is saved.
LEMMA StartStep ==
  ASSUME Exclusive, TypeOK, ServerInv, NEW c \in Calls, Refresh(c) \/ RefreshWithout(c)
  PROVE  ServerInv'
<1> USE DEF settings
<1>1. CASE Refresh(c)
  <2>1. saving = None
    BY <1>1 DEF Refresh, MayStart
  <2>2. AsksOne(call[c])'
    BY <1>1 DEF Refresh, AsksOne, Idle, Unavailable, TypeOK
  <2>3. \A d \in Calls \ {c} : call'[d] = call[d]
    BY <1>1 DEF Refresh, TypeOK
  <2>4. CallInv'
    BY <1>1, <2>1, <2>2, <2>3 DEF Refresh, ServerInv, CallInv, AsksOne
  <2> QED BY <1>1, <2>4 DEF Refresh, ServerInv, PointsOfServerInEffect,
                            NamesOfServerInEffect, OneServerPerReading
<1>2. CASE RefreshWithout(c)
  BY <1>2 DEF RefreshWithout, ServerInv, CallInv, AsksOne, PointsOfServerInEffect,
              NamesOfServerInEffect, OneServerPerReading, Unavailable
<1> QED BY <1>1, <1>2

\* The workers of a call: a name goes into the cache from the server in effect only.
LEMMA WorkerStep ==
  ASSUME TypeOK, ServerInv, NEW c \in Calls, NEW h \in Hanas,
         TakeRow(c, h) \/ NameArrives(c, h) \/ NameFails(c, h)
  PROVE  ServerInv'
<1> USE DEF settings
<1>1. transport' = transport /\ saving' = saving /\ points' = points
  BY DEF TakeRow, NameArrives, NameFails
<1>2. \A d \in Calls \ {c} : call'[d] = call[d]
  BY DEF TakeRow, NameArrives, NameFails, TypeOK
<1>3. call[c].same => AsksOne(call[c])
  BY DEF ServerInv, CallInv
<1>4. call'[c].same = call[c].same
  BY DEF TakeRow, NameArrives, NameFails, TypeOK, Call
<1>5. call[c].same => AsksOne(call'[c])
  <2>1. CASE TakeRow(c, h)
    BY <2>1, <1>3 DEF TakeRow, AsksOne, TypeOK, Call, Reading, ServerInv, NamesOfServerInEffect
  <2>2. CASE NameArrives(c, h)
    BY <2>2, <1>3, ServerAssumption DEF NameArrives, AsksOne, TypeOK, Call, Reading
  <2>3. CASE NameFails(c, h)
    BY <2>3, <1>3 DEF NameFails, AsksOne, TypeOK, Call, Reading
  <2> QED BY <2>1, <2>2, <2>3
<1>6. \A g \in Hanas : names'[g] # None => names'[g] = transport
  <2>1. CASE NameArrives(c, h)
    BY <2>1, <1>3, ServerAssumption
       DEF NameArrives, AsksOne, TypeOK, ServerInv, NamesOfServerInEffect
  <2>2. CASE TakeRow(c, h) \/ NameFails(c, h)
    BY <2>2 DEF TakeRow, NameFails, ServerInv, NamesOfServerInEffect
  <2> QED BY <2>1, <2>2
<1>7. CallInv'
  BY <1>1, <1>2, <1>4, <1>5 DEF ServerInv, CallInv, AsksOne
<1> QED BY <1>1, <1>6, <1>7 DEF ServerInv, PointsOfServerInEffect, NamesOfServerInEffect,
                                OneServerPerReading

\* The request of a call, and its end: the result is kept only when no other server
\* was saved meanwhile, and then every row of it has a name or a failure.
LEMMA ResultStep ==
  ASSUME TypeOK, ServerInv, NEW c \in Calls, Answered(c) \/ Fails(c) \/ End(c)
  PROVE  ServerInv'
<1> USE DEF settings
<1>1. transport' = transport /\ saving' = saving /\ names' = names
  BY DEF Answered, Fails, End
<1>2. \A d \in Calls \ {c} : call'[d] = call[d]
  BY DEF Answered, Fails, End, TypeOK
<1>3. call'[c].same => call[c].same /\ AsksOne(call'[c])
  BY DEF Answered, Fails, End, TypeOK, Call, Reading, Idle, AsksOne, ServerInv, CallInv
<1>4. CallInv'
  BY <1>1, <1>2, <1>3 DEF ServerInv, CallInv, AsksOne
<1>5. /\ points'.origin # None => points'.origin = transport
      /\ \A h \in points'.rows : points'.named[h] \in {points'.origin, "failed"}
  <2>1. CASE points' = points
    BY <2>1 DEF ServerInv, PointsOfServerInEffect, OneServerPerReading
  <2>2. CASE points' = Unavailable
    BY <2>2 DEF Unavailable
  <2>3. CASE End(c) /\ call[c].same
    <3>1. AsksOne(call[c]) /\ points' = call[c].read
      BY <2>3 DEF End, ServerInv, CallInv
    <3>2. \A h \in call[c].read.rows : h \in Hanas /\ call[c].read.named[h] # None
      BY <2>3, RecordTypes DEF End, Ending, Untaken, Asking
    <3> QED BY <3>1, <3>2 DEF AsksOne
  <2> QED BY <2>1, <2>2, <2>3 DEF Answered, Fails, End
<1> QED BY <1>1, <1>4, <1>5 DEF ServerInv, PointsOfServerInEffect, NamesOfServerInEffect,
                                OneServerPerReading

LEMMA ServerStep ==
  ASSUME Exclusive PROVE TypeOK /\ ServerInv /\ [Next]_vars => ServerInv'
<1> SUFFICES ASSUME TypeOK, ServerInv, [Next]_vars PROVE ServerInv'
  OBVIOUS
<1> DEFINE aside == SetConsent \/ Register \/ Recover \/ Clear \/ Age
<1>1. CASE aside \/ UNCHANGED vars
  BY <1>1 DEF SetConsent, Register, Recover, Clear, Age, settings, vars, ServerInv, CallInv,
              AsksOne, PointsOfServerInEffect, NamesOfServerInEffect, OneServerPerReading,
              Unavailable
<1>2. CASE SetServer \/ ServerStored \/ ServerRefused
  BY <1>2, SaveStep
<1>3. CASE \E c \in Calls : Refresh(c) \/ RefreshWithout(c) \/ Progress(c)
  BY <1>3, StartStep, WorkerStep, ResultStep DEF Progress
<1> QED BY <1>1, <1>2, <1>3 DEF Next

\* When no refresh starts while a server is saved, the points shown and the names
\* kept are those of the server in effect, and no reading mixes servers (controller.ts,
\* refreshPoints() and #hanaName(): the checks of the server generation).
THEOREM PointsOfOneServer ==
  ASSUME Exclusive
  PROVE  Spec => []OneServer
<1>1. Init => ServerInv
  BY DEF Init, Idle, Unavailable, ServerInv, CallInv, PointsOfServerInEffect,
         NamesOfServerInEffect, OneServerPerReading
<1>2. ServerInv => OneServer
  BY DEF ServerInv, OneServer
<1> QED BY <1>1, <1>2, TypeCorrect, ServerStep, PTL DEF Spec
=============================================================================
