------------------------ MODULE SessionControllerProofs ------------------------
(***************************************************************************)
(* Proofs about SessionController, for any number of overlapping calls,    *)
(* servers and websites: type correctness, that no update is lost in the   *)
(* publication chain and that what was withdrawn or disposed stays quiet;  *)
(* and, when no settings write is overtaken by the start of another one or *)
(* of a registration (Exclusive), that one server is in effect, nothing is *)
(* sent without consent, a bind link matches what it was asked for, no     *)
(* registration is forgotten, and the settings are the register of         *)
(* DurableSettings.                                                        *)
(***************************************************************************)
EXTENDS SessionController, SequenceTheorems, TLAPS

(***************************************************************************)
(* Types.  A call's argument has the type its operation asks for.          *)
(***************************************************************************)
ArgOK(r) ==
  /\ r.op = "consent" => r.arg \in Consent
  /\ r.op = "server" => r.arg \in OptServer
  /\ r.op \in {"website", "bind"} => r.arg \in OptWebsite
CallsOK(cs) == cs \in [Calls -> Call] /\ \A c \in Calls : ArgOK(cs[c])
Typed == TypeOK /\ CallsOK(call) /\ (writing = "yes" => queue # <<>>)

PC == {"idle", "challenge", "devices", "queued", "resolved", "rejected"}

LEMMA IdleType == Idle \in Call /\ ArgOK(Idle)
  BY DEF Idle, Call, ArgOK, OptServer

\* A call that goes on keeps its type.
LEMMA PcType ==
  ASSUME NEW r \in Call, ArgOK(r), NEW pc \in PC
  PROVE  [r EXCEPT !.pc = pc] \in Call /\ ArgOK([r EXCEPT !.pc = pc])
  BY DEF Call, ArgOK, PC

LEMMA FlagsType ==
  ASSUME NEW r \in Call, ArgOK(r), NEW h \in SUBSET Flags
  PROVE  [r EXCEPT !.has = h] \in Call /\ ArgOK([r EXCEPT !.has = h])
  BY DEF Call, ArgOK

LEMMA HasType ==
  ASSUME NEW r \in Call, NEW h
  PROVE  /\ r.has \in SUBSET Flags /\ r.has \ h \in SUBSET Flags
         /\ r.has \cup {"ok"} \in SUBSET Flags
  BY DEF Call, Flags

LEMMA RegisteringType ==
  ASSUME NEW o \in OptServer, NEW h \in SUBSET {"auto"}
  PROVE  Registering(o, h) \in Call /\ ArgOK(Registering(o, h))
  BY DEF Registering, Idle, Call, ArgOK, Flags, OptServer

\* What a setting, a bind link or a marker starts with.
LEMMA StartType ==
  /\ \A a \in Consent : LET r == [Idle EXCEPT !.op = "consent", !.arg = a]
                        IN  r \in Call /\ ArgOK(r)
  /\ \A a \in OptServer, h \in SUBSET {"changed"} :
       LET r == [Idle EXCEPT !.op = "server", !.arg = a, !.has = h] IN r \in Call /\ ArgOK(r)
  /\ \A a \in OptWebsite : LET r == [Idle EXCEPT !.op = "website", !.arg = a]
                           IN  r \in Call /\ ArgOK(r)
  /\ \A op \in {"points", "mark"} : LET r == [Idle EXCEPT !.op = op] IN r \in Call /\ ArgOK(r)
  /\ \A a \in OptWebsite, o \in OptServer :
       LET r == [Idle EXCEPT !.op = "bind", !.pc = "challenge", !.arg = a, !.origin = o,
                             !.has = {"same", "live"}]
       IN  r \in Call /\ ArgOK(r)
  BY DEF Idle, Call, ArgOK, Flags, OptServer, OptWebsite

LEMMA BumpedType ==
  ASSUME CallsOK(call), NEW ops PROVE CallsOK(Bumped(ops))
<1>1. ASSUME NEW c \in Calls
      PROVE  Bumped(ops)[c] \in Call /\ ArgOK(Bumped(ops)[c])
  <2>1. call[c] \in Call /\ ArgOK(call[c])
    BY DEF CallsOK
  <2>2. call[c].has \ {"same"} \in SUBSET Flags
    BY <2>1, HasType
  <2>3. /\ [call[c] EXCEPT !.has = call[c].has \ {"same"}] \in Call
        /\ ArgOK([call[c] EXCEPT !.has = call[c].has \ {"same"}])
    BY <2>1, <2>2, FlagsType
  <2> QED
    BY <2>1, <2>3 DEF Bumped
<1> QED
  BY <1>1 DEF Bumped, CallsOK

\* The update of a well typed call makes a snapshot of a snapshot.
LEMMA UpdateType ==
  ASSUME NEW r \in Call, ArgOK(r), NEW c \in Calls, NEW m \in Snapshot
  PROVE  Update(r, c, m) \in Snapshot
<1> USE DEF Snapshot, Update, ArgOK
<1>1. CASE r.op = "consent"
  BY <1>1
<1>2. CASE r.op = "server"
  BY <1>2 DEF OptServer
<1>3. CASE r.op = "website"
  BY <1>3
<1>4. CASE r.op = "register"
  BY <1>4 DEF Call
<1>5. CASE r.op = "points"
  BY <1>5
<1>6. CASE r.op = "mark"
  BY <1>6
<1>7. CASE r.op \in {"none", "bind"}
  BY <1>7
<1> QED
  BY <1>1, <1>2, <1>3, <1>4, <1>5, <1>6, <1>7 DEF Call

\* The part of the state the publication chain is about.
ChainTyped ==
  /\ stored \in Snapshot /\ mem \in Snapshot /\ next \in Snapshot
  /\ queue \in Seq(Calls) /\ writing \in {"yes", "no"}
  /\ writing = "yes" => queue # <<>>
  /\ CallsOK(call)

LEMMA TurnType ==
  ASSUME NEW q \in Seq(Calls), NEW m \in Snapshot, NEW cs, CallsOK(cs), Turn(q, m, cs)
  PROVE  queue' \in Seq(Calls) /\ writing' \in {"yes", "no"} /\ next' \in Snapshot
         /\ (writing' = "yes" => queue' # <<>>)
<1>1. CASE q # <<>> /\ running = "up"
  <2>1. Head(q) \in Calls
    BY <1>1
  <2>2. Update(cs[Head(q)], Head(q), m) \in Snapshot
    BY <2>1, UpdateType DEF CallsOK
  <2> QED
    BY <1>1, <2>2 DEF Turn
<1> QED
  BY <1>1 DEF Turn

LEMMA EnqueueType ==
  ASSUME ChainTyped, NEW cs, CallsOK(cs), NEW c \in Calls, NEW r \in Call, ArgOK(r),
         Enqueue(cs, c, r)
  PROVE  ChainTyped'
<1> DEFINE queued == [cs EXCEPT ![c] = [r EXCEPT !.pc = "queued"]]
<1>1. CallsOK(queued)
  BY PcType DEF CallsOK, PC
<1>2. queue' \in Seq(Calls) /\ writing' \in {"yes", "no"} /\ next' \in Snapshot
         /\ (writing' = "yes" => queue' # <<>>)
  <2>1. CASE queue = <<>>
    <3>1. Turn(<<c>>, mem, queued)
      BY <2>1 DEF Enqueue
    <3>2. <<c>> \in Seq(Calls)
      OBVIOUS
    <3> HIDE DEF queued
    <3> QED
      BY <1>1, <3>1, <3>2, TurnType DEF ChainTyped
  <2>2. CASE queue # <<>>
    BY <2>2, AppendProperties DEF Enqueue, ChainTyped
  <2> QED
    BY <2>1, <2>2
<1> QED
  BY <1>1, <1>2 DEF Enqueue, ChainTyped

LEMMA ReturnType ==
  ASSUME ChainTyped, NEW c \in Calls, Return(c) PROVE ChainTyped'
  BY IdleType DEF ChainTyped, CallsOK, Return, Unpublished

LEMMA BackgroundType ==
  ASSUME ChainTyped, NEW cs, CallsOK(cs), NEW c \in Calls, NEW o \in OptServer, NEW starts,
         Background(cs, c, o, starts)
  PROVE  ChainTyped'
<1>1. Registering(o, {"auto"}) \in Call /\ ArgOK(Registering(o, {"auto"}))
  BY RegisteringType
<1> QED
  BY <1>1, IdleType DEF ChainTyped, CallsOK, Background, Unpublished

\* The head of the chain leaves it, having got pc.
LEMMA HeadType ==
  ASSUME ChainTyped, queue # <<>>, NEW pc \in PC, NEW m \in Snapshot
  PROVE  /\ Head(queue) \in Calls /\ Tail(queue) \in Seq(Calls)
         /\ CallsOK([call EXCEPT ![Head(queue)].pc = pc])
         /\ Turn(Tail(queue), m, call) =>
              /\ queue' \in Seq(Calls) /\ writing' \in {"yes", "no"} /\ next' \in Snapshot
              /\ (writing' = "yes" => queue' # <<>>)
<1>1. Head(queue) \in Calls /\ Tail(queue) \in Seq(Calls)
  BY DEF ChainTyped
<1>2. CallsOK([call EXCEPT ![Head(queue)].pc = pc])
  BY <1>1, PcType DEF ChainTyped, CallsOK
<1>3. ASSUME Turn(Tail(queue), m, call)
      PROVE  queue' \in Seq(Calls) /\ writing' \in {"yes", "no"} /\ next' \in Snapshot
         /\ (writing' = "yes" => queue' # <<>>)
  BY <1>1, <1>3, TurnType DEF ChainTyped
<1> QED
  BY <1>1, <1>2, <1>3

\* The part the chain is not about.
RestTyped ==
  /\ running \in {"down", "up", "disposed", "closed"}
  /\ override \in OptServer /\ website \in OptWebsite /\ transport \in OptServer
  /\ timer \in {"on", "off"} /\ failure \in {"set", "null"}
  /\ asked \in Consent /\ heard \in Consent
  /\ link \in [website : OptWebsite, server : OptServer]

LEMMA TypedParts ==
  /\ Typed <=> ChainTyped /\ RestTyped
  /\ Typed' <=> ChainTyped' /\ RestTyped'
  BY DEF Typed, ChainTyped, RestTyped, TypeOK, CallsOK

LEMMA CallAt ==
  ASSUME ChainTyped, NEW c \in Calls
  PROVE  /\ call[c] \in Call /\ ArgOK(call[c])
         /\ call[c].origin \in OptServer /\ call[c].has \in SUBSET Flags
  BY DEF ChainTyped, CallsOK, Call

LEMMA HeadSteps ==
  ASSUME Typed, FinishHead \/ FailHead \/ RejectHead PROVE Typed'
<1> ChainTyped /\ RestTyped
  BY TypedParts
<1>1. CASE FinishHead
  <2>1. /\ CallsOK([call EXCEPT ![Head(queue)].pc = "resolved"])
        /\ queue' \in Seq(Calls) /\ writing' \in {"yes", "no"} /\ next' \in Snapshot
        /\ (writing' = "yes" => queue' # <<>>)
    BY <1>1, HeadType DEF FinishHead, ChainTyped, PC
  <2>2. ChainTyped'
    BY <1>1, <2>1 DEF FinishHead, ChainTyped
  <2>3. RestTyped'
    BY <1>1 DEF FinishHead, RestTyped
  <2> QED
    BY <2>2, <2>3, TypedParts
<1>2. CASE FailHead
  <2>1. /\ CallsOK([call EXCEPT ![Head(queue)].pc = "rejected"])
        /\ queue' \in Seq(Calls) /\ writing' \in {"yes", "no"} /\ next' \in Snapshot
        /\ (writing' = "yes" => queue' # <<>>)
    BY <1>2, HeadType DEF FailHead, MayFail, ChainTyped, PC
  <2>2. ChainTyped'
    BY <1>2, <2>1 DEF FailHead, ChainTyped
  <2>3. RestTyped'
    BY <1>2 DEF FailHead, RestTyped
  <2> QED
    BY <2>2, <2>3, TypedParts
<1>3. CASE RejectHead
  <2>1. /\ CallsOK([call EXCEPT ![Head(queue)].pc = "rejected"])
        /\ Tail(queue) \in Seq(Calls)
    BY <1>3, HeadType DEF RejectHead, ChainTyped, PC
  <2>2. ChainTyped'
    BY <1>3, <2>1 DEF RejectHead, ChainTyped
  <2>3. RestTyped'
    BY <1>3 DEF RejectHead, RestTyped
  <2> QED
    BY <2>2, <2>3, TypedParts
<1> QED
  BY <1>1, <1>2, <1>3

LEMMA TimerType ==
  ASSUME RestTyped, StartTimer \/ UNCHANGED timer PROVE timer' \in {"on", "off"}
  BY DEF RestTyped, StartTimer

LEMMA RegistrationFailsType ==
  ASSUME ChainTyped, RestTyped, NEW c \in Calls, RegistrationFails(c)
  PROVE  ChainTyped' /\ timer' \in {"on", "off"} /\ failure' \in {"set", "null"}
<1>1. CASE Same(call[c], mem)
  <2>1. call[c].has \ {"ok"} \in SUBSET Flags
    BY CallAt, HasType
  <2>2. [call[c] EXCEPT !.has = @ \ {"ok"}] \in Call
        /\ ArgOK([call[c] EXCEPT !.has = @ \ {"ok"}])
    BY <2>1, CallAt, FlagsType
  <2>3. CallsOK(call)
    BY DEF ChainTyped
  <2>4. ChainTyped'
    BY <1>1, <2>2, <2>3, EnqueueType DEF RegistrationFails
  <2> QED
    BY <1>1, <2>4 DEF RegistrationFails, RestTyped
<1>2. CASE ~Same(call[c], mem)
  BY <1>2, ReturnType, TimerType DEF RegistrationFails, RegisterReturns, RestTyped
<1> QED
  BY <1>1, <1>2

LEMMA RegisterSteps ==
  ASSUME Typed, NEW c \in Calls,
         \/ Register(c) \/ SendDevice(c) \/ RetryWithoutLabel(c) \/ Registered(c)
         \/ RequestFails(c) \/ RegisterContinues(c)
  PROVE  Typed'
<1> ChainTyped /\ RestTyped /\ CallsOK(call)
  BY TypedParts DEF Typed
<1>1. CASE Register(c)
  <2>1. transport \in OptServer /\ None \in OptServer
    BY DEF RestTyped, OptServer
  <2>2. /\ Registering(transport, {}) \in Call /\ ArgOK(Registering(transport, {}))
        /\ Registering(None, {}) \in Call /\ ArgOK(Registering(None, {}))
    BY <2>1, RegisteringType
  <2>3. ChainTyped'
    <3>1. CASE transport # None
      BY <1>1, <2>2, <3>1 DEF Register, ChainTyped, CallsOK, Unpublished
    <3>2. CASE transport = None
      BY <1>1, <2>2, <3>2, EnqueueType DEF Register
    <3> QED
      BY <3>1, <3>2
  <2>4. RestTyped'
    BY <1>1 DEF Register, RestTyped
  <2> QED
    BY <2>3, <2>4, TypedParts
<1>2. CASE SendDevice(c) \/ RetryWithoutLabel(c)
  <2>1. call[c].has \ {"label"} \in SUBSET Flags
    BY CallAt, HasType
  <2>2. [call[c] EXCEPT !.pc = "devices"] \in Call /\ ArgOK([call[c] EXCEPT !.pc = "devices"])
    BY CallAt, PcType DEF PC
  <2>3. [call[c] EXCEPT !.pc = "challenge"] \in Call /\ ArgOK([call[c] EXCEPT !.pc = "challenge"])
    BY CallAt, PcType DEF PC
  <2>4. LET r == [call[c] EXCEPT !.pc = "challenge", !.has = @ \ {"label"}]
        IN  r \in Call /\ ArgOK(r)
    BY <2>1, CallAt DEF Call, ArgOK
  <2>5. ChainTyped'
    BY <1>2, <2>2, <2>4 DEF SendDevice, RetryWithoutLabel, ChainTyped, CallsOK, Unpublished
  <2>6. RestTyped'
    BY <1>2 DEF SendDevice, RetryWithoutLabel, RestTyped
  <2> QED
    BY <2>5, <2>6, TypedParts
<1>3. CASE Registered(c)
  <2>1. call[c].has \cup {"ok"} \in SUBSET Flags
    BY CallAt, HasType
  <2>2. [call[c] EXCEPT !.has = @ \cup {"ok"}] \in Call
        /\ ArgOK([call[c] EXCEPT !.has = @ \cup {"ok"}])
    BY <2>1, CallAt, FlagsType
  <2>3. ChainTyped' /\ timer' \in {"on", "off"}
    <3>1. CASE Same(call[c], mem)
      BY <1>3, <2>2, <3>1, EnqueueType DEF Registered, RestTyped
    <3>2. CASE ~Same(call[c], mem)
      BY <1>3, <3>2, ReturnType, TimerType DEF Registered, RegisterReturns
    <3> QED
      BY <3>1, <3>2
  <2>4. RestTyped'
    BY <1>3, <2>3 DEF Registered, RestTyped
  <2> QED
    BY <2>3, <2>4, TypedParts
<1>4. CASE RequestFails(c)
  <2>1. ChainTyped' /\ timer' \in {"on", "off"} /\ failure' \in {"set", "null"}
    BY <1>4, RegistrationFailsType DEF RequestFails
  <2>2. RestTyped'
    BY <1>4, <2>1 DEF RequestFails, RestTyped
  <2> QED
    BY <2>1, <2>2, TypedParts
<1>5. CASE RegisterContinues(c)
  <2>1. ChainTyped' /\ timer' \in {"on", "off"} /\ failure' \in {"set", "null"}
    <3>1. CASE call[c].pc = "resolved" /\ RegisterReturns(c)
               /\ failure' = IF Same(call[c], mem) THEN "null" ELSE failure
      BY <3>1, ReturnType, TimerType DEF RegisterReturns, RestTyped
    <3>2. CASE RegistrationFails(c)
      BY <3>2, RegistrationFailsType
    <3>3. CASE Return(c) /\ UNCHANGED <<failure, timer>>
      BY <3>3, ReturnType DEF RestTyped
    <3> QED
      BY <1>5, <3>1, <3>2, <3>3 DEF RegisterContinues
  <2>2. RestTyped'
    BY <1>5, <2>1 DEF RegisterContinues, RestTyped
  <2> QED
    BY <2>1, <2>2, TypedParts
<1> QED
  BY <1>1, <1>2, <1>3, <1>4, <1>5

LEMMA SettingSteps ==
  ASSUME Typed, NEW c \in Calls, SetConsent(c) \/ SetServer(c) \/ SetWebsite(c)
  PROVE  Typed'
<1> ChainTyped /\ RestTyped /\ CallsOK(call)
  BY TypedParts DEF Typed
<1> \A ops : CallsOK(Bumped(ops))
  BY BumpedType
<1>1. CASE SetConsent(c)
  <2>1. PICK a \in Consent :
          /\ asked' = a
          /\ Enqueue(Bumped({"register"}), c, [Idle EXCEPT !.op = "consent", !.arg = a])
    BY <1>1 DEF SetConsent
  <2>2. ChainTyped'
    BY <2>1, StartType, EnqueueType
  <2>3. RestTyped'
    BY <1>1, <2>1 DEF SetConsent, RestTyped
  <2> QED
    BY <2>2, <2>3, TypedParts
<1>2. CASE SetServer(c)
  <2>1. PICK a \in OptServer :
          LET changed == Effective(a) # Effective(override)
          IN  Enqueue(Bumped(IF changed THEN {"register", "bind"} ELSE {"bind"}), c,
                      [Idle EXCEPT !.op = "server", !.arg = a,
                                   !.has = IF changed THEN {"changed"} ELSE {}])
    BY <1>2 DEF SetServer
  <2>2. ChainTyped'
    <3>1. CASE Effective(a) # Effective(override)
      <4>1. Enqueue(Bumped({"register", "bind"}), c,
                    [Idle EXCEPT !.op = "server", !.arg = a, !.has = {"changed"}])
        BY <2>1, <3>1
      <4> QED
        BY <4>1, StartType, EnqueueType
    <3>2. CASE Effective(a) = Effective(override)
      <4>1. Enqueue(Bumped({"bind"}), c, [Idle EXCEPT !.op = "server", !.arg = a, !.has = {}])
        BY <2>1, <3>2
      <4> QED
        BY <4>1, StartType, EnqueueType
    <3> QED
      BY <3>1, <3>2
  <2>3. RestTyped'
    BY <1>2 DEF SetServer, RestTyped
  <2> QED
    BY <2>2, <2>3, TypedParts
<1>3. CASE SetWebsite(c)
  <2>1. PICK a \in OptWebsite :
          Enqueue(Bumped({"bind"}), c, [Idle EXCEPT !.op = "website", !.arg = a])
    BY <1>3 DEF SetWebsite
  <2>2. ChainTyped'
    BY <2>1, StartType, EnqueueType
  <2>3. RestTyped'
    BY <1>3 DEF SetWebsite, RestTyped
  <2> QED
    BY <2>2, <2>3, TypedParts
<1> QED
  BY <1>1, <1>2, <1>3

LEMMA EffectiveType == ASSUME NEW o \in OptServer PROVE Effective(o) \in OptServer
  BY ServerAssumption DEF Effective, OptServer

LEMMA SettingContinues ==
  ASSUME Typed, NEW c \in Calls,
         ConsentContinues(c) \/ ServerContinues(c) \/ WebsiteContinues(c)
  PROVE  Typed'
<1> ChainTyped /\ RestTyped /\ CallsOK(call)
  BY TypedParts DEF Typed
<1> \A ops : CallsOK(Bumped(ops))
  BY BumpedType
<1> call[c] \in Call /\ ArgOK(call[c])
  BY CallAt
<1> None \in OptServer
  BY DEF OptServer
<1>1. CASE ConsentContinues(c)
  <2>1. CASE call[c].pc = "resolved"
    <3>1. ChainTyped'
      BY <1>1, <2>1, BackgroundType DEF ConsentContinues, RestTyped
    <3>2. timer' \in {"on", "off"}
      BY <1>1, <2>1, TimerType DEF ConsentContinues
    <3>3. heard' \in Consent /\ asked' \in Consent
      BY <1>1, <2>1 DEF ConsentContinues, RestTyped, ArgOK
    <3>4. RestTyped'
      BY <1>1, <3>2, <3>3 DEF ConsentContinues, RestTyped
    <3> QED
      BY <3>1, <3>4, TypedParts
  <2>2. CASE call[c].pc # "resolved"
    <3>1. ChainTyped'
      BY <1>1, <2>2, ReturnType DEF ConsentContinues
    <3>2. asked' \in Consent
      BY <1>1, <2>2 DEF ConsentContinues, RestTyped, ChainTyped, Snapshot
    <3>3. RestTyped'
      BY <1>1, <2>2, <3>2 DEF ConsentContinues, RestTyped
    <3> QED
      BY <3>1, <3>3, TypedParts
  <2> QED
    BY <2>1, <2>2
<1>2. CASE ServerContinues(c)
  <2> call[c].arg \in OptServer /\ Effective(call[c].arg) \in OptServer
    BY <1>2, EffectiveType DEF ServerContinues, ArgOK
  <2>1. CASE call[c].pc = "resolved" /\ "changed" \in call[c].has
    <3> DEFINE cs == [d \in Calls |-> [call[d] EXCEPT !.has = @ \ (IF call[d].op = "bind"
                                                                   THEN {"live", "same"}
                                                                   ELSE {"live"})]]
    <3>1. ASSUME NEW d \in Calls PROVE cs[d] \in Call /\ ArgOK(cs[d])
      <4>1. call[d] \in Call /\ ArgOK(call[d])
        BY CallAt
      <4>2. \A h : call[d].has \ h \in SUBSET Flags
        BY <4>1, HasType
      <4> QED
        BY <4>1, <4>2, FlagsType
    <3>2. CallsOK(cs)
      BY <3>1 DEF CallsOK
    <3>3. transport' \in OptServer /\ Background(cs, c, transport', TRUE)
      BY <1>2, <2>1 DEF ServerContinues
    <3>4. ChainTyped'
      <4> HIDE DEF cs
      <4> QED
        BY <3>2, <3>3, BackgroundType
    <3>5. RestTyped'
      BY <1>2, <2>1, <3>3 DEF ServerContinues, RestTyped
    <3> QED
      BY <3>4, <3>5, TypedParts
  <2>2. CASE ~(call[c].pc = "resolved" /\ "changed" \in call[c].has)
    <3>1. ChainTyped'
      BY <1>2, <2>2, BackgroundType DEF ServerContinues
    <3>2. RestTyped'
      BY <1>2, <2>2 DEF ServerContinues, RestTyped
    <3> QED
      BY <3>1, <3>2, TypedParts
  <2> QED
    BY <2>1, <2>2
<1>3. CASE WebsiteContinues(c)
  <2>1. ChainTyped'
    BY <1>3, BackgroundType DEF WebsiteContinues
  <2>2. RestTyped'
    BY <1>3 DEF WebsiteContinues, RestTyped, ArgOK
  <2> QED
    BY <2>1, <2>2, TypedParts
<1> QED
  BY <1>1, <1>2, <1>3

LEMMA LinkAndMarkSteps ==
  ASSUME Typed, NEW c \in Calls,
         \/ BindLink(c) \/ BindAnswered(c) \/ BindFails(c)
         \/ MarkPoints(c) \/ MarkConsent(c) \/ MarkContinues(c)
  PROVE  Typed'
<1> ChainTyped /\ RestTyped /\ CallsOK(call)
  BY TypedParts DEF Typed
<1> EffectiveWebsite \in OptWebsite
  BY WebsiteAssumption DEF EffectiveWebsite, OptWebsite, RestTyped
<1> call[c] \in Call
  BY CallAt
<1>1. CASE BindLink(c)
  <2>1. ChainTyped'
    BY <1>1, StartType DEF BindLink, RestTyped, ChainTyped, CallsOK, Unpublished
  <2>2. RestTyped'
    BY <1>1 DEF BindLink, RestTyped
  <2> QED
    BY <2>1, <2>2, TypedParts
<1>2. CASE BindAnswered(c) \/ BindFails(c)
  <2>1. ChainTyped'
    BY <1>2, ReturnType DEF BindAnswered, BindFails
  <2>2. call[c].op = "bind" /\ "same" \in call[c].has => call[c].arg \in OptWebsite
    BY CallAt DEF ArgOK
  <2>3. RestTyped'
    BY <1>2, <2>2 DEF BindAnswered, BindFails, RestTyped, Call
  <2> QED
    BY <2>1, <2>3, TypedParts
<1>3. CASE MarkPoints(c) \/ MarkConsent(c)
  <2>1. ChainTyped'
    BY <1>3, StartType, EnqueueType DEF MarkPoints, MarkConsent
  <2>2. RestTyped'
    BY <1>3 DEF MarkPoints, MarkConsent, RestTyped
  <2> QED
    BY <2>1, <2>2, TypedParts
<1>4. CASE MarkContinues(c)
  <2>1. ChainTyped'
    BY <1>4, ReturnType DEF MarkContinues
  <2>2. RestTyped'
    BY <1>4 DEF MarkContinues, RestTyped
  <2> QED
    BY <2>1, <2>2, TypedParts
<1> QED
  BY <1>1, <1>2, <1>3, <1>4

LEMMA LifeSteps ==
  ASSUME Typed, Boot \/ Dispose \/ Close \/ Crash PROVE Typed'
<1> ChainTyped /\ RestTyped /\ CallsOK(call)
  BY TypedParts DEF Typed
<1> stored \in Snapshot /\ next \in Snapshot /\ stored.override \in OptServer
    /\ stored.website \in OptWebsite /\ stored.consent \in Consent /\ next.consent \in Consent
  BY DEF ChainTyped, Snapshot
<1>1. CASE Boot
  <2>1. transport' \in OptServer
    BY <1>1, EffectiveType DEF Boot
  <2>2. Registering(transport', {"auto"}) \in Call /\ ArgOK(Registering(transport', {"auto"}))
    BY <2>1, RegisteringType
  <2>3. CallsOK(call)'
    BY <1>1, <2>2 DEF Boot, CallsOK
  <2>4. ChainTyped'
    BY <1>1, <2>3 DEF Boot, ChainTyped
  <2>5. RestTyped'
    BY <1>1, <2>1 DEF Boot, RestTyped
  <2> QED
    BY <2>4, <2>5, TypedParts
<1>2. CASE Dispose \/ Close
  <2>1. ASSUME NEW d \in Calls
        PROVE  /\ [call[d] EXCEPT !.has = @ \ {"live"}] \in Call
               /\ ArgOK([call[d] EXCEPT !.has = @ \ {"live"}])
    <3>1. call[d] \in Call /\ ArgOK(call[d])
      BY CallAt
    <3>2. call[d].has \ {"live"} \in SUBSET Flags
      BY <3>1, HasType
    <3> QED
      BY <3>1, <3>2, FlagsType
  <2>2. ChainTyped'
    BY <1>2, <2>1 DEF Dispose, Close, ChainTyped, CallsOK, Unpublished
  <2>3. RestTyped'
    BY <1>2 DEF Dispose, Close, RestTyped
  <2> QED
    BY <2>2, <2>3, TypedParts
<1>3. CASE Crash
  <2>1. ChainTyped'
    BY <1>3, IdleType DEF Crash, ChainTyped, CallsOK
  <2>2. RestTyped'
    BY <1>3 DEF Crash, RestTyped
  <2> QED
    BY <2>1, <2>2, TypedParts
<1> QED
  BY <1>1, <1>2, <1>3

LEMMA TypedInit == Init => Typed
<1> SUFFICES ASSUME Init PROVE Typed
  OBVIOUS
<1>1. Fresh \in Snapshot
  BY DEF Fresh, Snapshot, OptServer, OptWebsite, Consent
<1>2. ChainTyped
  BY <1>1, IdleType DEF Init, ChainTyped, CallsOK
<1>3. RestTyped
  BY DEF Init, RestTyped, OptServer, OptWebsite, Consent, NoLink
<1> QED
  BY <1>2, <1>3, TypedParts

LEMMA TypedStep == Typed /\ [Next]_vars => Typed'
<1> SUFFICES ASSUME Typed, [Next]_vars PROVE Typed'
  OBVIOUS
<1>1. ASSUME NEW c \in Calls, Continue(c) PROVE Typed'
  BY <1>1, RegisterSteps, SettingContinues, LinkAndMarkSteps DEF Continue
<1>2. CASE UNCHANGED vars
  BY <1>2 DEF vars, Typed, TypeOK, CallsOK
<1> QED
  BY <1>1, <1>2, HeadSteps, RegisterSteps, SettingSteps, LinkAndMarkSteps, LifeSteps DEF Next

\* Type correctness of the session controller.
THEOREM TypeCorrect == Spec => []TypeOK
<1>1. Spec => []Typed
  BY TypedInit, TypedStep, PTL DEF Spec
<1>2. Typed => TypeOK
  BY DEF Typed
<1> QED
  BY <1>1, <1>2, PTL

(***************************************************************************)
(* The invariant of the publication chain.                                 *)
(***************************************************************************)

\* A call that is over is forgotten, a bind link writes nothing; a process that is
\* gone has no calls.
ShapeInv ==
  \A c \in Calls :
    /\ running = "down" => call[c] = Idle
    /\ call[c].pc = "idle" => call[c] = Idle
    /\ call[c].op = "none" => call[c].pc = "idle"
    /\ call[c].op = "bind" => call[c].pc = "challenge"

\* Who is in the chain waits there, once, while the plugin is up or being disposed; as
\* long as it is up the head's update is with the store.
QueueInv ==
  /\ \A i \in 1..Len(queue) : call[queue[i]].pc = "queued"
  /\ \A i, j \in 1..Len(queue) : queue[i] = queue[j] => i = j
  /\ queue # <<>> => running \in {"up", "disposed"}
  /\ queue # <<>> /\ running = "up" => writing = "yes"

\* What n, the update of m by the call with record r, has of them.
Writes(r, m, n) ==
  /\ \A f \in DOMAIN m : n[f] # m[f] => f \in Owned(r)
  /\ r.op = "consent" => n.consent = r.arg
  /\ r.op = "server" => n.override = r.arg
  /\ m.status # "unregistered" /\ n.status = "unregistered" => r.op = "server" /\ "changed" \in r.has

\* What the head writes differs from the published snapshot in its own fields.
NextInv == writing = "yes" => Writes(call[Head(queue)], mem, next)

\* A marker that is there is on the disk, and nobody is about to stamp another one.
MarkInv ==
  /\ mem.mark # None => stored.mark = mem.mark
  /\ \A c \in Calls : call[c].op = "mark" /\ call[c].pc = "queued" => mem.mark = None
  /\ \A c, d \in Calls : call[c].op = "mark" /\ call[d].op = "mark" => c = d

\* A consent that was written is the one in force until its caller goes on.
ConsentInv ==
  \A c \in Calls : call[c].op = "consent" /\ call[c].pc = "resolved" => call[c].arg = mem.consent

KeptInv ==
  ShapeInv /\ QueueInv /\ NextInv /\ MarkInv /\ ConsentInv /\ HeardIsCurrent /\ StaysQuiet

(***************************************************************************)
(* The invariant of the settings when none is overtaken.                   *)
(***************************************************************************)

Wanted(d) == call[d].op = "register" /\ "same" \in call[d].has
Changing(c) == call[c].op = "server" /\ "changed" \in call[c].has

OneSetting == \A c, d \in Calls : call[c].op \in Settings /\ call[d].op \in Settings => c = d

\* A registration that is still wanted began under the consent in force and with the
\* server in effect, and no call is about to change either.
WantedInv ==
  \A d \in Calls : Wanted(d) =>
    /\ running = "up" => mem.consent = "granted" /\ call[d].origin = transport
    /\ \A c \in Calls : call[c].op # "consent" /\ ~Changing(c)

AskedInv ==
  /\ \A c \in Calls : call[c].op = "consent" => asked = call[c].arg
  /\ running = "up" /\ ~Busy({"consent"}) => asked = mem.consent

\* The address in effect, while one is saved and after it.
OriginInv ==
  running = "up" =>
    /\ transport = Effective(override)
    /\ \A c \in Calls : call[c].op = "server" =>
         /\ "changed" \in call[c].has <=> Effective(call[c].arg) # Effective(override)
         /\ call[c].pc = "resolved" => mem.override = call[c].arg
    /\ mem.override # override => \E c \in Calls : call[c].op = "server" /\ call[c].pc = "resolved"

IssuerOf(m) == m.status = "registered" => m.issuer = Effective(m.override)
IssuerInv == IssuerOf(stored) /\ IssuerOf(mem) /\ IssuerOf(next)

LinkInv ==
  \A d \in Calls : call[d].op = "bind" /\ "same" \in call[d].has =>
    /\ ~Saving
    /\ running = "up" => call[d].arg = EffectiveWebsite /\ call[d].origin = Effective(override)

\* What a wanted registration writes, or has written, is an outcome; one that has none
\* to write has kept why it failed.
HeadRecords == writing = "yes" /\ running = "up" /\ Wanted(Head(queue)) => next.status # "unregistered"
RecordInv ==
  /\ HeadRecords
  /\ \A c \in Calls : Wanted(c) /\ call[c].pc = "resolved" /\ running = "up" => mem.status # "unregistered"
  /\ \A c \in Calls : Wanted(c) /\ "ok" \notin call[c].has /\ call[c].pc \in {"queued", "rejected"} =>
       failure = "set" \/ mem.status # "unregistered"

\* Whoever is to register, or to see to it.
Duty(c) ==
  \/ Wanted(c) /\ call[c].pc # "resolved"
  \/ call[c].op = "consent" \/ Changing(c)

\* While the store takes every setting, somebody always is.
DutyInv ==
  running = "up" =>
    /\ \A c \in Calls : call[c].op \in Settings => call[c].pc # "rejected"
    /\ Registers(transport, mem) /\ mem.status = "unregistered" /\ failure = "null" =>
         \E c \in Calls : Duty(c)

SettledInv ==
  /\ OneSetting /\ WantedInv /\ AskedInv /\ OriginInv /\ IssuerInv /\ LinkInv /\ RecordInv
  /\ "refusal" \notin Ops => DutyInv

(***************************************************************************)
(* What a step does to the calls and to the chain.                         *)
(***************************************************************************)

\* r is what is left of record q when counters are bumped and transports disposed.
Rest(q, r) ==
  /\ r.op = q.op /\ r.pc = q.pc /\ r.arg = q.arg /\ r.origin = q.origin
  /\ r.has \subseteq q.has /\ q.has \ {"same", "live"} \subseteq r.has
Spares(c) == \A d \in Calls \ {c} : Rest(call[d], call'[d])

\* Call c enters the chain.
Enters(c) ==
  /\ call'[c].pc = "queued" /\ UNCHANGED <<stored, mem>>
  /\ IF queue = <<>> THEN Turn(<<c>>, mem, call')
     ELSE queue' = Append(queue, c) /\ UNCHANGED <<writing, next>>

LEMMA BumpedRests ==
  ASSUME Typed, NEW ops
  PROVE  /\ \A d \in Calls : Rest(call[d], Bumped(ops)[d]) /\ Rest(call[d], call[d])
         /\ \A d \in Calls : call[d].op \in ops => "same" \notin Bumped(ops)[d].has
         /\ \A d \in Calls : call[d].op \notin ops => Bumped(ops)[d] = call[d]
         /\ Bumped(ops) \in [Calls -> Call]
<1>1. \A d \in Calls : call[d] \in Call
  BY DEF Typed, CallsOK
<1>2. CallsOK(Bumped(ops))
  BY BumpedType DEF Typed
<1> QED BY <1>1, <1>2 DEF Bumped, Rest, Call, CallsOK

LEMMA EnqueueEnters ==
  ASSUME NEW c \in Calls, NEW r \in Call, NEW cs \in [Calls -> Call],
         \A d \in Calls \ {c} : Rest(call[d], cs[d]), Enqueue(cs, c, r)
  PROVE  /\ Enters(c) /\ Spares(c)
         /\ call'[c] = [r EXCEPT !.pc = "queued"]
         /\ \A d \in Calls \ {c} : call'[d] = cs[d]
<1>1. call' = [cs EXCEPT ![c] = [r EXCEPT !.pc = "queued"]]
  BY DEF Enqueue
<1>2. call'[c] = [r EXCEPT !.pc = "queued"] /\ \A d \in Calls \ {c} : call'[d] = cs[d]
  BY <1>1
<1>3. call'[c].pc = "queued"
  BY <1>2 DEF Call
<1> QED BY <1>1, <1>2, <1>3 DEF Enqueue, Enters, Spares

\* What an update changes is its own.
LEMMA UpdateOwns ==
  ASSUME NEW r \in Call, ArgOK(r), NEW c \in Calls, NEW m \in Snapshot
  PROVE  LET n == Update(r, c, m)
         IN  DOMAIN n = DOMAIN m /\ Writes(r, m, n)
<1> USE DEF Snapshot, Update, ArgOK, Owned, Writes
<1>1. CASE r.op = "consent"
  BY <1>1
<1>2. CASE r.op = "server"
  BY <1>2 DEF OptServer
<1>3. CASE r.op = "website"
  BY <1>3
<1>4. CASE r.op = "register"
  BY <1>4 DEF Call
<1>5. CASE r.op = "points"
  BY <1>5
<1>6. CASE r.op = "mark"
  BY <1>6
<1>7. CASE r.op \in {"none", "bind"}
  BY <1>7
<1> QED
  BY <1>1, <1>2, <1>3, <1>4, <1>5, <1>6, <1>7 DEF Call

(***************************************************************************)
(* The chain.                                                              *)
(***************************************************************************)

\* A settled head is gone from the chain, and the next one waits behind it.
LEMMA TailFacts ==
  ASSUME queue \in Seq(Calls), queue # <<>>
  PROVE  /\ Head(queue) = queue[1] /\ Head(queue) \in Calls /\ Tail(queue) \in Seq(Calls)
         /\ Len(queue) \in Nat /\ Len(queue) >= 1 /\ Len(Tail(queue)) = Len(queue) - 1
         /\ \A i \in 1..Len(Tail(queue)) : Tail(queue)[i] = queue[i + 1]
         /\ \A i \in 1..Len(queue) : queue[i] \in Calls
         /\ Tail(queue) # <<>> => Head(Tail(queue)) = queue[2] /\ Len(queue) >= 2
BY HeadTailProperties

\* A turn to a waiting call q's head evaluates its update.
LEMMA TurnNext ==
  ASSUME NEW q \in Seq(Calls), NEW m \in Snapshot, NEW cs, CallsOK(cs), Turn(q, m, cs)
  PROVE  /\ queue' = q /\ (writing' = "yes" => q # <<>>)
         /\ q # <<>> /\ running = "up" => writing' = "yes"
         /\ q # <<>> /\ writing' = "yes" =>
              /\ running = "up" /\ next' = Update(cs[Head(q)], Head(q), m)
              /\ Writes(cs[Head(q)], m, next')
         /\ writing' # "yes" => next' = m
<1>1. CASE q # <<>> /\ running = "up"
  <2>1. Head(q) \in Calls
    BY <1>1
  <2>2. cs[Head(q)] \in Call /\ ArgOK(cs[Head(q)])
    BY <2>1 DEF CallsOK
  <2>3. next' = Update(cs[Head(q)], Head(q), m) /\ writing' = "yes" /\ queue' = q
    BY <1>1 DEF Turn
  <2> QED BY <1>1, <2>1, <2>2, <2>3, UpdateOwns
<1>2. CASE ~(q # <<>> /\ running = "up")
  BY <1>2 DEF Turn
<1> QED BY <1>1, <1>2

LEMMA RestWrites ==
  ASSUME NEW q, NEW r, Rest(q, r)
  PROVE  \A m, n : Writes(q, m, n) => Writes(r, m, n)
<1>1. Owned(r) = Owned(q)
  BY DEF Rest, Owned
<1> QED BY <1>1 DEF Rest, Writes

\* Who waits goes on waiting while others go on.
LEMMA ChainStays ==
  ASSUME Typed, QueueInv, NextInv, Typed',
         \A d \in Calls : call[d].pc = "queued" => Rest(call[d], call'[d]),
         UNCHANGED <<mem, queue, writing, next>>, running' \in {running, "disposed"},
         running \in {"up", "disposed"} \/ running' = running
  PROVE  QueueInv' /\ NextInv'
<1>1. /\ queue \in Seq(Calls) /\ (writing = "yes" => queue # <<>>)
      /\ queue # <<>> => Head(queue) = queue[1] /\ 1 \in 1..Len(queue)
  BY TailFacts DEF Typed, TypeOK
<1>2. \A i \in 1..Len(queue) : queue[i] \in Calls
  BY <1>1
<1>3. \A i \in 1..Len(queue) : Rest(call[queue[i]], call'[queue[i]])
  BY <1>2 DEF QueueInv
<1>4. QueueInv'
  BY <1>1, <1>3 DEF QueueInv, Rest
<1>5. NextInv'
  <2> SUFFICES ASSUME writing = "yes" PROVE NextInv'
    BY DEF NextInv
  <2>1. Rest(call[Head(queue)], call'[Head(queue)])
    BY <1>1, <1>3
  <2> QED BY <2>1, RestWrites DEF NextInv
<1> QED BY <1>4, <1>5

\* A call that enters an empty chain is its head, any other one waits at the end.
LEMMA ChainGrows ==
  ASSUME Typed, QueueInv, NextInv, Typed', NEW c \in Calls, call[c].pc # "queued", Spares(c),
         Enters(c), running = "up", UNCHANGED running
  PROVE  QueueInv' /\ NextInv'
<1>1. /\ queue \in Seq(Calls) /\ mem \in Snapshot /\ mem' \in Snapshot /\ CallsOK(call')
      /\ UNCHANGED mem
  BY DEF Typed, TypeOK, Enters
<1>2. CASE queue = <<>>
  <2>1. Turn(<<c>>, mem, call')
    BY <1>2 DEF Enters
  <2>2. <<c>> \in Seq(Calls) /\ <<c>> # <<>> /\ Head(<<c>>) = c /\ Len(<<c>>) = 1 /\ <<c>>[1] = c
    OBVIOUS
  <2>3. queue' = <<c>> /\ writing' = "yes" /\ Writes(call'[c], mem, next')
    BY <1>1, <2>1, <2>2, TurnNext
  <2>4. QueueInv'
    BY <2>2, <2>3 DEF QueueInv, Enters
  <2>5. NextInv'
    BY <1>1, <2>2, <2>3 DEF NextInv
  <2> QED BY <2>4, <2>5
<1>3. CASE queue # <<>>
  <2>1. queue' = Append(queue, c) /\ UNCHANGED <<writing, next>>
    BY <1>3 DEF Enters
  <2>2. /\ Len(queue') = Len(queue) + 1 /\ queue'[Len(queue) + 1] = c /\ Len(queue) \in Nat
        /\ \A i \in 1..Len(queue) : queue'[i] = queue[i] /\ queue[i] \in Calls
        /\ Head(queue') = Head(queue) /\ Head(queue) = queue[1] /\ 1 \in 1..Len(queue)
    BY <1>1, <1>3, <2>1, TailFacts, AppendProperties
  <2>3. \A i \in 1..Len(queue) : queue[i] # c
    BY DEF QueueInv
  <2>4. \A i \in 1..Len(queue) : Rest(call[queue[i]], call'[queue[i]])
    BY <2>2, <2>3 DEF Spares
  <2>5. \A i \in 1..Len(queue') : i \in 1..Len(queue) \/ i = Len(queue) + 1
    BY <2>2
  <2>6. /\ \A i \in 1..Len(queue') : call'[queue'[i]].pc = "queued"
        /\ \A i, j \in 1..Len(queue') : queue'[i] = queue'[j] => i = j
    BY <2>2, <2>3, <2>4, <2>5 DEF QueueInv, Rest, Enters
  <2>7. QueueInv'
    BY <1>3, <2>1, <2>6 DEF QueueInv
  <2>8. Rest(call[Head(queue)], call'[Head(queue)])
    BY <2>2, <2>4
  <2>9. NextInv'
    BY <1>1, <2>1, <2>2, <2>8, RestWrites DEF NextInv
  <2> QED BY <2>7, <2>9
<1> QED BY <1>2, <1>3

\* What a settled publication does: the head has got pc, the snapshot is m, and the
\* next one has its turn.
HeadGets(pc, m) ==
  /\ queue # <<>> /\ call' = [call EXCEPT ![Head(queue)].pc = pc] /\ ~Continuing
  /\ queue' = Tail(queue) /\ UNCHANGED running /\ mem' = m
  /\ Turn(Tail(queue), m, call) \/ (writing = "no" /\ UNCHANGED <<writing, next>>)

LEMMA HeadStepIs ==
  ASSUME Typed, FinishHead \/ FailHead \/ RejectHead
  PROVE  /\ \/ FinishHead /\ HeadGets("resolved", next) /\ stored' = next /\ writing = "yes"
            \/ HeadGets("rejected", mem) /\ stored' \in {stored, next} /\ writing = "yes" /\ FailHead
            \/ HeadGets("rejected", mem) /\ stored' = stored /\ writing = "no"
         /\ UNCHANGED <<override, website, transport, timer, failure, asked, heard, link>>
<1>0. writing = "yes" => queue # <<>>
  BY DEF Typed
<1>1. CASE FinishHead
  <2>1. /\ writing = "yes" /\ ~Continuing /\ stored' = next /\ mem' = next
        /\ call' = [call EXCEPT ![Head(queue)].pc = "resolved"]
        /\ Turn(Tail(queue), next, call)
        /\ UNCHANGED <<running, override, website, transport, timer, failure, asked, heard, link>>
    BY <1>1 DEF FinishHead
  <2>2. queue' = Tail(queue)
    BY <2>1 DEF Turn
  <2> QED BY <1>0, <1>1, <2>1, <2>2 DEF HeadGets
<1>2. CASE FailHead
  <2>1. /\ writing = "yes" /\ ~Continuing /\ stored' \in {stored, next} /\ mem' = mem
        /\ call' = [call EXCEPT ![Head(queue)].pc = "rejected"]
        /\ Turn(Tail(queue), mem, call)
        /\ UNCHANGED <<running, override, website, transport, timer, failure, asked, heard, link>>
    BY <1>2 DEF FailHead, MayFail
  <2>2. queue' = Tail(queue)
    BY <2>1 DEF Turn
  <2> QED BY <1>0, <1>2, <2>1, <2>2 DEF HeadGets
<1>3. CASE RejectHead
  BY <1>3 DEF RejectHead, HeadGets
<1> QED BY <1>1, <1>2, <1>3

LEMMA ChainShrinks ==
  ASSUME Typed, QueueInv, NEW pc \in PC, NEW m \in Snapshot, HeadGets(pc, m),
         writing = "yes" \/ running # "up"
  PROVE  QueueInv' /\ NextInv'
<1> DEFINE t == Tail(queue)
<1>1. /\ queue \in Seq(Calls) /\ queue # <<>> /\ CallsOK(call)
  BY DEF HeadGets, Typed, TypeOK
<1>2. /\ Head(queue) = queue[1] /\ Head(queue) \in Calls /\ Tail(queue) \in Seq(Calls)
      /\ Len(queue) \in Nat /\ Len(queue) >= 1 /\ Len(Tail(queue)) = Len(queue) - 1
      /\ \A i \in 1..Len(Tail(queue)) : Tail(queue)[i] = queue[i + 1]
      /\ \A i \in 1..Len(queue) : queue[i] \in Calls
      /\ Tail(queue) # <<>> => Head(Tail(queue)) = queue[2] /\ Len(queue) >= 2
  BY <1>1, TailFacts
<1>3. \A i \in 1..Len(t) : i + 1 \in 1..Len(queue) /\ t[i] # Head(queue) /\ t[i] \in Calls
  BY <1>2 DEF QueueInv
<1>4. \A d \in Calls : d # Head(queue) => call'[d] = call[d]
  BY <1>1, <1>2 DEF HeadGets, CallsOK
<1>5. \A i \in 1..Len(t) : call'[t[i]] = call[t[i]] /\ call[t[i]].pc = "queued"
  BY <1>2, <1>3, <1>4 DEF QueueInv
<1>6. \A i, j \in 1..Len(t) : t[i] = t[j] => i = j
  BY <1>2, <1>3 DEF QueueInv
<1>7. t # <<>> => Head(t) = t[1] /\ 1 \in 1..Len(t)
  BY <1>2
<1>8. QueueInv'
  <2>1. queue' = t /\ running' = running /\ queue # <<>>
    BY DEF HeadGets
  <2>2. t # <<>> /\ running = "up" => writing' = "yes"
    BY <1>1, <1>2, TurnNext DEF HeadGets
  <2> QED BY <1>5, <1>6, <2>1, <2>2 DEF QueueInv
<1>9. NextInv'
  <2> SUFFICES ASSUME writing' = "yes" PROVE NextInv'
    BY DEF NextInv
  <2>1. Turn(t, m, call)
    BY DEF HeadGets
  <2>2. queue' = t /\ t # <<>>
    BY <1>1, <1>2, <2>1, TurnNext
  <2>3. Writes(call[Head(t)], m, next')
    BY <1>1, <1>2, <2>1, <2>2, TurnNext
  <2>4. call'[Head(t)] = call[Head(t)] /\ mem' = m
    BY <1>5, <1>7, <2>2 DEF HeadGets
  <2> HIDE DEF t
  <2> QED BY <2>2, <2>3, <2>4 DEF NextInv
<1> QED BY <1>8, <1>9

(***************************************************************************)
(* What a call does in a step of its own.                                  *)
(***************************************************************************)

\* The calls other than c are what cs has of them.
OthersAre(c, cs) == \A d \in Calls \ {c} : call'[d] = cs[d]
Is(r, op, pc, arg, origin, has) ==
  r.op = op /\ r.pc = pc /\ r.arg = arg /\ r.origin = origin /\ r.has = has

LEMMA EnqueueIs ==
  ASSUME Typed, NEW c \in Calls, NEW r \in Call
  PROVE  /\ \A ops : Enqueue(Bumped(ops), c, r) =>
              Enters(c) /\ Spares(c) /\ call'[c] = [r EXCEPT !.pc = "queued"] /\ OthersAre(c, Bumped(ops))
         /\ Enqueue(call, c, r) =>
              Enters(c) /\ Spares(c) /\ call'[c] = [r EXCEPT !.pc = "queued"] /\ OthersAre(c, call)
<1>1. ASSUME NEW ops, Enqueue(Bumped(ops), c, r)
      PROVE  Enters(c) /\ Spares(c) /\ call'[c] = [r EXCEPT !.pc = "queued"] /\ OthersAre(c, Bumped(ops))
  <2>1. Bumped(ops) \in [Calls -> Call] /\ \A d \in Calls \ {c} : Rest(call[d], Bumped(ops)[d])
    BY BumpedRests
  <2> QED BY <1>1, <2>1, EnqueueEnters DEF OthersAre
<1>2. ASSUME Enqueue(call, c, r)
      PROVE  Enters(c) /\ Spares(c) /\ call'[c] = [r EXCEPT !.pc = "queued"] /\ OthersAre(c, call)
  <2>1. call \in [Calls -> Call] /\ \A d \in Calls \ {c} : Rest(call[d], call[d])
    BY BumpedRests DEF Typed, CallsOK
  <2> QED BY <1>2, <2>1, EnqueueEnters DEF OthersAre
<1> QED BY <1>1, <1>2

LEMMA SettingIs ==
  ASSUME Typed, NEW c \in Calls, SetConsent(c) \/ SetServer(c) \/ SetWebsite(c)
  PROVE  /\ Enters(c) /\ Spares(c) /\ running = "up" /\ ~Continuing /\ call[c].pc = "idle"
         /\ Exclusive => ~Busy(Settings)
         /\ UNCHANGED <<running, override, website, transport, timer, failure, heard, link>>
         /\ \/ /\ asked' \in Consent
               /\ Is(call'[c], "consent", "queued", asked', None, {}) /\ OthersAre(c, Bumped({"register"}))
            \/ /\ asked' = asked
               /\ \E a \in OptServer :
                    \/ /\ Effective(a) # Effective(override)
                       /\ Is(call'[c], "server", "queued", a, None, {"changed"}) /\ OthersAre(c, Bumped({"register", "bind"}))
                    \/ /\ Effective(a) = Effective(override)
                       /\ Is(call'[c], "server", "queued", a, None, {}) /\ OthersAre(c, Bumped({"bind"}))
            \/ /\ asked' = asked
               /\ \E a \in OptWebsite :
                    Is(call'[c], "website", "queued", a, None, {}) /\ OthersAre(c, Bumped({"bind"}))
<1>2. /\ MayStart("consent", c) \/ MayStart("server", c) \/ MayStart("website", c)
      /\ UNCHANGED <<running, override, website, transport, timer, failure, heard, link>>
  BY DEF SetConsent, SetServer, SetWebsite
<1>3. /\ running = "up" /\ ~Continuing /\ call[c].pc = "idle" /\ (Exclusive => ~Busy(Settings))
  BY <1>2 DEF MayStart, Settings
<1>4. CASE SetConsent(c)
  <2>1. PICK a \in Consent :
          /\ asked' = a
          /\ Enqueue(Bumped({"register"}), c, [Idle EXCEPT !.op = "consent", !.arg = a])
    BY <1>4 DEF SetConsent
  <2> DEFINE r == [Idle EXCEPT !.op = "consent", !.arg = a]
  <2>2. r \in Call /\ Is([r EXCEPT !.pc = "queued"], "consent", "queued", a, None, {})
    <3>1. r \in Call
      BY StartType
    <3>2. Is([r EXCEPT !.pc = "queued"], "consent", "queued", a, None, {})
      BY DEF Idle, Is
    <3> QED BY <3>1, <3>2
  <2>3. Enqueue(Bumped({"register"}), c, r)
    BY <2>1
  <2> HIDE DEF r
  <2>4. /\ Enters(c) /\ Spares(c)
        /\ call'[c] = [r EXCEPT !.pc = "queued"] /\ OthersAre(c, Bumped({"register"}))
    BY <2>2, <2>3, EnqueueIs
  <2>5. Is(call'[c], "consent", "queued", a, None, {}) /\ OthersAre(c, Bumped({"register"}))
    BY <2>2, <2>4
  <2> QED BY <1>2, <1>3, <2>1, <2>4, <2>5
<1>5. CASE SetServer(c)
  <2>1. PICK a \in OptServer :
          LET changed == Effective(a) # Effective(override)
          IN  Enqueue(Bumped(IF changed THEN {"register", "bind"} ELSE {"bind"}), c,
                      [Idle EXCEPT !.op = "server", !.arg = a,
                                   !.has = IF changed THEN {"changed"} ELSE {}])
    BY <1>5 DEF SetServer
  <2>2. asked' = asked
    BY <1>5 DEF SetServer
  <2> DEFINE r(h) == [Idle EXCEPT !.op = "server", !.arg = a, !.has = h]
  <2>3. \A h \in SUBSET {"changed"} :
          r(h) \in Call /\ Is([r(h) EXCEPT !.pc = "queued"], "server", "queued", a, None, h)
    <3>1. \A h \in SUBSET {"changed"} : r(h) \in Call
      BY StartType
    <3>2. \A h : Is([r(h) EXCEPT !.pc = "queued"], "server", "queued", a, None, h)
      BY DEF Idle, Is
    <3> QED BY <3>1, <3>2
  <2>4. CASE Effective(a) # Effective(override)
    <3>1. Enqueue(Bumped({"register", "bind"}), c, r({"changed"}))
      BY <2>1, <2>4
    <3>2. r({"changed"}) \in Call
          /\ Is([r({"changed"}) EXCEPT !.pc = "queued"], "server", "queued", a, None, {"changed"})
      BY <2>3
    <3> HIDE DEF r
    <3>3. /\ Enters(c) /\ Spares(c)
          /\ call'[c] = [r({"changed"}) EXCEPT !.pc = "queued"] /\ OthersAre(c, Bumped({"register", "bind"}))
      BY <3>1, <3>2, EnqueueIs
    <3>4. Is(call'[c], "server", "queued", a, None, {"changed"}) /\ OthersAre(c, Bumped({"register", "bind"}))
      BY <3>2, <3>3
    <3> QED BY <1>2, <1>3, <2>2, <2>4, <3>3, <3>4
  <2>5. CASE Effective(a) = Effective(override)
    <3>1. Enqueue(Bumped({"bind"}), c, r({}))
      BY <2>1, <2>5
    <3>2. r({}) \in Call /\ Is([r({}) EXCEPT !.pc = "queued"], "server", "queued", a, None, {})
      BY <2>3
    <3> HIDE DEF r
    <3>3. /\ Enters(c) /\ Spares(c)
          /\ call'[c] = [r({}) EXCEPT !.pc = "queued"] /\ OthersAre(c, Bumped({"bind"}))
      BY <3>1, <3>2, EnqueueIs
    <3>4. Is(call'[c], "server", "queued", a, None, {}) /\ OthersAre(c, Bumped({"bind"}))
      BY <3>2, <3>3
    <3> QED BY <1>2, <1>3, <2>2, <2>5, <3>3, <3>4
  <2> QED BY <2>4, <2>5
<1>6. CASE SetWebsite(c)
  <2>1. PICK a \in OptWebsite :
          Enqueue(Bumped({"bind"}), c, [Idle EXCEPT !.op = "website", !.arg = a])
    BY <1>6 DEF SetWebsite
  <2>2. asked' = asked
    BY <1>6 DEF SetWebsite
  <2> DEFINE r == [Idle EXCEPT !.op = "website", !.arg = a]
  <2>3. r \in Call /\ Is([r EXCEPT !.pc = "queued"], "website", "queued", a, None, {})
    <3>1. r \in Call
      BY StartType
    <3>2. Is([r EXCEPT !.pc = "queued"], "website", "queued", a, None, {})
      BY DEF Idle, Is
    <3> QED BY <3>1, <3>2
  <2>4. Enqueue(Bumped({"bind"}), c, r)
    BY <2>1
  <2> HIDE DEF r
  <2>5. /\ Enters(c) /\ Spares(c)
        /\ call'[c] = [r EXCEPT !.pc = "queued"] /\ OthersAre(c, Bumped({"bind"}))
    BY <2>3, <2>4, EnqueueIs
  <2>6. Is(call'[c], "website", "queued", a, None, {}) /\ OthersAre(c, Bumped({"bind"}))
    BY <2>3, <2>5
  <2> QED BY <1>2, <1>3, <2>2, <2>5, <2>6
<1> QED BY <1>4, <1>5, <1>6

LEMMA RegisteringIs ==
  ASSUME NEW o, NEW h
  PROVE  /\ Is(Registering(o, h), "register", "challenge", None, o, {"same", "live", "label"} \cup h)
         /\ Is(Idle, "none", "idle", None, None, {})
BY DEF Is, Registering, Idle

\* The other calls stay as they are.
LEMMA SparesAll ==
  ASSUME Typed, NEW c \in Calls
  PROVE  /\ OthersAre(c, call) => Spares(c)
         /\ \A ops : OthersAre(c, Bumped(ops)) => Spares(c)
         /\ Return(c) => /\ call'[c] = Idle /\ OthersAre(c, call) /\ Unpublished
<1>1. /\ \A d \in Calls : Rest(call[d], call[d])
      /\ \A ops : \A d \in Calls : Rest(call[d], Bumped(ops)[d])
  BY BumpedRests
<1>2. Return(c) => /\ call'[c] = Idle /\ OthersAre(c, call) /\ Unpublished
  BY DEF Return, OthersAre, Typed, CallsOK
<1> QED BY <1>1, <1>2 DEF OthersAre, Spares

LEMMA StartIs ==
  ASSUME Typed, NEW c \in Calls, Register(c) \/ BindLink(c) \/ MarkPoints(c) \/ MarkConsent(c)
  PROVE  /\ OthersAre(c, call) /\ running = "up" /\ ~Continuing /\ call[c].pc = "idle"
         /\ UNCHANGED <<running, override, website, transport, timer, asked, heard, link>>
         /\ \/ /\ mem.consent = "granted" /\ (Exclusive => ~Busy(Settings))
               /\ Is(call'[c], "register", "challenge", None, transport, {"same", "live", "label"})
               /\ transport # None /\ Unpublished /\ UNCHANGED failure
            \/ /\ mem.consent = "granted" /\ (Exclusive => ~Busy(Settings))
               /\ Is(call'[c], "register", "queued", None, None, {"same", "live", "label"})
               /\ transport = None /\ Enters(c) /\ failure' = "set"
            \/ /\ ~Saving /\ Unpublished /\ UNCHANGED failure
               /\ Is(call'[c], "bind", "challenge", EffectiveWebsite, transport, {"same", "live"})
            \/ /\ Enters(c) /\ UNCHANGED failure
               /\ \/ Is(call'[c], "points", "queued", None, None, {})
                  \/ Is(call'[c], "mark", "queued", None, None, {}) /\ mem.mark = None /\ ~Busy({"mark"})
<1>1. call \in [Calls -> Call]
  BY DEF Typed, CallsOK
<1>2. transport \in OptServer /\ None \in OptServer
  BY DEF Typed, TypeOK, OptServer
<1>3. CASE Register(c)
  <2>1. /\ running = "up" /\ ~Continuing /\ call[c].pc = "idle" /\ (Exclusive => ~Busy(Settings))
        /\ mem.consent = "granted"
        /\ UNCHANGED <<running, override, website, transport, timer, asked, heard, link>>
    BY <1>3 DEF Register, MayStart, Settings
  <2>2. CASE transport # None
    <3>1. call' = [call EXCEPT ![c] = Registering(transport, {})] /\ Unpublished /\ UNCHANGED failure
      BY <1>3, <2>2 DEF Register
    <3>2. call'[c] = Registering(transport, {}) /\ OthersAre(c, call)
      BY <1>1, <3>1 DEF OthersAre
    <3>3. Is(call'[c], "register", "challenge", None, transport, {"same", "live", "label"})
      BY <3>2, RegisteringIs DEF Is
    <3> QED BY <2>1, <2>2, <3>1, <3>2, <3>3
  <2>3. CASE transport = None
    <3>1. Enqueue(call, c, Registering(None, {})) /\ failure' = "set"
      BY <1>3, <2>3 DEF Register
    <3>2. Registering(None, {}) \in Call
      BY <1>2, RegisteringType
    <3>3. Enters(c) /\ OthersAre(c, call) /\ call'[c] = [Registering(None, {}) EXCEPT !.pc = "queued"]
      BY <3>1, <3>2, EnqueueIs
    <3>4. Is(call'[c], "register", "queued", None, None, {"same", "live", "label"})
      BY <3>2, <3>3, RegisteringIs DEF Is, Call
    <3> QED BY <2>1, <2>3, <3>1, <3>3, <3>4
  <2> QED BY <2>2, <2>3
<1>4. CASE BindLink(c)
  <2>1. /\ running = "up" /\ ~Continuing /\ call[c].pc = "idle" /\ ~Saving /\ Unpublished
        /\ UNCHANGED <<running, override, website, transport, timer, failure, asked, heard, link>>
    BY <1>4 DEF BindLink, MayStart
  <2>2. call' = [call EXCEPT ![c] = [Idle EXCEPT !.op = "bind", !.pc = "challenge",
                !.arg = EffectiveWebsite, !.origin = transport, !.has = {"same", "live"}]]
    BY <1>4 DEF BindLink
  <2>3. Is(call'[c], "bind", "challenge", EffectiveWebsite, transport, {"same", "live"})
    BY <1>1, <2>2 DEF Is, Idle
  <2>4. OthersAre(c, call)
    BY <1>1, <2>2 DEF OthersAre
  <2> QED BY <2>1, <2>3, <2>4
<1>5. CASE MarkPoints(c) \/ MarkConsent(c)
  <2>1. /\ running = "up" /\ ~Continuing /\ call[c].pc = "idle"
        /\ UNCHANGED <<running, override, website, transport, timer, failure, asked, heard, link>>
    BY <1>5 DEF MarkPoints, MarkConsent, MayStart
  <2>2. PICK op \in {"points", "mark"} : /\ Enqueue(call, c, [Idle EXCEPT !.op = op])
                                         /\ op = "mark" => mem.mark = None /\ ~Busy({"mark"})
    BY <1>5 DEF MarkPoints, MarkConsent
  <2> DEFINE r == [Idle EXCEPT !.op = op]
  <2>3. r \in Call
    BY StartType
  <2>4. Is([r EXCEPT !.pc = "queued"], op, "queued", None, None, {})
    BY DEF Is, Idle
  <2>5. Enqueue(call, c, r)
    BY <2>2
  <2> HIDE DEF r
  <2>6. Enters(c) /\ OthersAre(c, call) /\ call'[c] = [r EXCEPT !.pc = "queued"]
    BY <2>3, <2>5, EnqueueIs
  <2> QED BY <2>1, <2>2, <2>4, <2>6
<1> QED BY <1>3, <1>4, <1>5

LEMMA RegisterStepIs ==
  ASSUME Typed, NEW c \in Calls,
         \/ SendDevice(c) \/ RetryWithoutLabel(c) \/ Registered(c) \/ RequestFails(c)
         \/ RegisterContinues(c)
  PROVE  /\ OthersAre(c, call) /\ call[c].op = "register"
         /\ call[c].pc \in {"challenge", "devices", "resolved", "rejected"}
         /\ UNCHANGED <<running, override, website, transport, asked, heard, link>>
         /\ timer' = timer \/ (timer' = "on" /\ Registers(transport, mem))
         /\ \/ /\ Unpublished /\ UNCHANGED failure /\ Same(call[c], mem)
               /\ call'[c].op = "register" /\ call'[c].pc \in {"challenge", "devices"}
               /\ call'[c].arg = call[c].arg /\ call'[c].origin = call[c].origin
               /\ call'[c].has \subseteq call[c].has /\ "same" \in call'[c].has
               /\ "live" \in call[c].has
            \/ /\ Enters(c) /\ Same(call[c], mem) /\ UNCHANGED failure
               /\ Is(call'[c], "register", "queued", call[c].arg, call[c].origin,
                     call[c].has \cup {"ok"})
            \/ /\ Enters(c) /\ Same(call[c], mem) /\ failure' = "set"
               /\ Is(call'[c], "register", "queued", call[c].arg, call[c].origin,
                     call[c].has \ {"ok"})
            \/ /\ call'[c] = Idle /\ Unpublished
               /\ \/ ~Same(call[c], mem) /\ UNCHANGED failure
                  \/ /\ call[c].pc = "resolved" /\ "ok" \in call[c].has
                     /\ failure' = IF Same(call[c], mem) THEN "null" ELSE failure
                  \/ /\ call[c].pc \in {"resolved", "rejected"} /\ "ok" \notin call[c].has
                     /\ UNCHANGED failure
<1>1. call \in [Calls -> Call] /\ call[c] \in Call /\ ArgOK(call[c]) /\ call[c].has \in SUBSET Flags
  BY DEF Typed, CallsOK, Call
<1>2. StartTimer => timer' = timer \/ (timer' = "on" /\ Registers(transport, mem))
  BY DEF StartTimer
<1>3. RegisterReturns(c) =>
        /\ call'[c] = Idle /\ Unpublished /\ OthersAre(c, call)
        /\ timer' = timer \/ (timer' = "on" /\ Registers(transport, mem))
  BY <1>2, SparesAll DEF RegisterReturns
<1>4. CASE RegistrationFails(c) /\ Same(call[c], mem)
  <2>1. failure' = "set" /\ timer' = timer /\ Enqueue(call, c, [call[c] EXCEPT !.has = @ \ {"ok"}])
    BY <1>4 DEF RegistrationFails
  <2> DEFINE r == [call[c] EXCEPT !.has = @ \ {"ok"}]
  <2>2. r \in Call /\ r.op = call[c].op /\ r.arg = call[c].arg /\ r.origin = call[c].origin
        /\ r.has = call[c].has \ {"ok"}
    <3>1. call[c].has \ {"ok"} \in SUBSET Flags
      BY <1>1, HasType
    <3>2. r \in Call
      BY <1>1, <3>1, FlagsType
    <3> QED BY <1>1, <3>2 DEF Call
  <2>3. Enqueue(call, c, r)
    BY <2>1
  <2> HIDE DEF r
  <2>4. Enters(c) /\ OthersAre(c, call) /\ call'[c] = [r EXCEPT !.pc = "queued"]
    BY <2>2, <2>3, EnqueueIs
  <2>5. call[c].op = "register" =>
          Is(call'[c], "register", "queued", call[c].arg, call[c].origin, call[c].has \ {"ok"})
    BY <2>2, <2>4 DEF Is, Call
  <2>6. /\ call[c].op = "register" /\ call[c].pc \in {"challenge", "devices", "resolved", "rejected"}
        /\ UNCHANGED <<running, override, website, transport, asked, heard, link>>
    BY <1>4 DEF SendDevice, RetryWithoutLabel, Registered, RequestFails, RegisterContinues, Answered
  <2> QED BY <1>4, <2>1, <2>4, <2>5, <2>6
<1>5. CASE SendDevice(c) \/ RetryWithoutLabel(c)
  <2>1. PICK r \in Call :
          /\ call' = [call EXCEPT ![c] = r] /\ r.op = "register" /\ r.pc \in {"challenge", "devices"}
          /\ r.arg = call[c].arg /\ r.origin = call[c].origin
          /\ r.has \subseteq call[c].has /\ ("same" \in call[c].has => "same" \in r.has)
    <3>1. CASE SendDevice(c)
      <4> DEFINE r == [call[c] EXCEPT !.pc = "devices"]
      <4>1. r \in Call /\ r.op = "register" /\ r.pc = "devices" /\ r.arg = call[c].arg
            /\ r.origin = call[c].origin /\ r.has = call[c].has
        BY <1>1, <3>1 DEF SendDevice, Answered, Call
      <4>2. call' = [call EXCEPT ![c] = r]
        BY <3>1 DEF SendDevice
      <4> HIDE DEF r
      <4> QED BY <4>1, <4>2
    <3>2. CASE RetryWithoutLabel(c)
      <4> DEFINE r == [call[c] EXCEPT !.pc = "challenge", !.has = @ \ {"label"}]
      <4>0. call[c].has \ {"label"} \in SUBSET Flags
        BY <1>1, HasType
      <4>1. r \in Call /\ r.op = "register" /\ r.pc = "challenge" /\ r.arg = call[c].arg
            /\ r.origin = call[c].origin /\ r.has = call[c].has \ {"label"}
        BY <1>1, <3>2, <4>0 DEF RetryWithoutLabel, Answered, Call
      <4>2. call' = [call EXCEPT ![c] = r]
        BY <3>2 DEF RetryWithoutLabel
      <4> HIDE DEF r
      <4> QED BY <4>1, <4>2
    <3> QED BY <1>5, <3>1, <3>2
  <2>2. /\ call[c].op = "register" /\ call[c].pc \in {"challenge", "devices"} /\ Unpublished
        /\ "live" \in call[c].has /\ Same(call[c], mem)
        /\ UNCHANGED <<running, override, website, transport, timer, failure, asked, heard, link>>
    BY <1>5 DEF SendDevice, RetryWithoutLabel, Answered
  <2>3. call'[c] = r /\ OthersAre(c, call)
    BY <1>1, <2>1 DEF OthersAre
  <2>4. "same" \in call[c].has
    BY <2>2 DEF Same
  <2> QED BY <2>1, <2>2, <2>3, <2>4
<1>6. CASE Registered(c)
  <2>1. /\ call[c].op = "register" /\ call[c].pc = "devices"
        /\ UNCHANGED <<running, override, website, transport, failure, asked, heard, link>>
    BY <1>6 DEF Registered, Answered
  <2>2. CASE Same(call[c], mem)
    <3> DEFINE r == [call[c] EXCEPT !.has = @ \cup {"ok"}]
    <3>1. r \in Call /\ r.op = call[c].op /\ r.arg = call[c].arg /\ r.origin = call[c].origin
          /\ r.has = call[c].has \cup {"ok"}
      <4>1. call[c].has \cup {"ok"} \in SUBSET Flags
        BY <1>1, HasType
      <4>2. r \in Call
        BY <1>1, <4>1, FlagsType
      <4> QED BY <1>1, <4>2 DEF Call
    <3>2. Enqueue(call, c, r) /\ timer' = timer
      BY <1>6, <2>2 DEF Registered
    <3> HIDE DEF r
    <3>3. Enters(c) /\ OthersAre(c, call) /\ call'[c] = [r EXCEPT !.pc = "queued"]
      BY <3>1, <3>2, EnqueueIs
    <3>4. Is(call'[c], "register", "queued", call[c].arg, call[c].origin, call[c].has \cup {"ok"})
      BY <2>1, <3>1, <3>3 DEF Is, Call
    <3> QED BY <2>1, <2>2, <3>2, <3>3, <3>4
  <2>3. CASE ~Same(call[c], mem)
    BY <1>3, <1>6, <2>1, <2>3 DEF Registered
  <2> QED BY <2>2, <2>3
<1>7. CASE RequestFails(c) /\ ~Same(call[c], mem)
  BY <1>3, <1>7 DEF RequestFails, RegistrationFails
<1>8. CASE RegisterContinues(c) /\ ~(RegistrationFails(c) /\ Same(call[c], mem))
  <2>1. /\ call[c].op = "register" /\ call[c].pc \in {"resolved", "rejected"}
        /\ UNCHANGED <<running, override, website, transport, asked, heard, link>>
    BY <1>8 DEF RegisterContinues
  <2>2. CASE /\ call[c].pc = "resolved" /\ "ok" \in call[c].has /\ RegisterReturns(c)
             /\ failure' = IF Same(call[c], mem) THEN "null" ELSE failure
    BY <1>3, <2>1, <2>2
  <2>3. CASE ~Same(call[c], mem) /\ RegistrationFails(c)
    BY <1>3, <2>1, <2>3 DEF RegistrationFails
  <2>4. CASE /\ call[c].pc \in {"resolved", "rejected"} /\ "ok" \notin call[c].has
             /\ Return(c) /\ UNCHANGED <<failure, timer>>
    BY <2>1, <2>4, SparesAll
  <2> QED BY <1>8, <2>2, <2>3, <2>4 DEF RegisterContinues
<1> QED BY <1>4, <1>5, <1>6, <1>7, <1>8 DEF RequestFails

\* The call goes on to register with origin, or it is over.
GoesOn(c, origin, starts) ==
  IF starts /\ Registers(origin, mem)
  THEN Is(call'[c], "register", "challenge", None, origin, {"same", "live", "label", "auto"})
  ELSE call'[c] = Idle

LEMMA BackgroundIs ==
  ASSUME Typed, NEW c \in Calls, NEW cs \in [Calls -> Call], NEW o, NEW starts, Background(cs, c, o, starts)
  PROVE  GoesOn(c, o, starts) /\ OthersAre(c, cs) /\ Unpublished
<1>1. call'[c] = (IF starts /\ Registers(o, mem) THEN Registering(o, {"auto"}) ELSE Idle)
      /\ OthersAre(c, cs) /\ Unpublished
  BY DEF Background, OthersAre
<1>2. Is(Registering(o, {"auto"}), "register", "challenge", None, o, {"same", "live", "label", "auto"})
  <2>1. {"same", "live", "label"} \cup {"auto"} = {"same", "live", "label", "auto"}
    OBVIOUS
  <2> QED BY <2>1, RegisteringIs
<1> QED BY <1>1, <1>2 DEF GoesOn

LEMMA ConsentGoesOn ==
  ASSUME Typed, NEW c \in Calls, ConsentContinues(c)
  PROVE  /\ call[c].op = "consent" /\ OthersAre(c, call) /\ Unpublished
         /\ UNCHANGED <<running, override, website, transport, failure, link>>
         /\ \/ /\ call[c].pc = "resolved" /\ asked' = asked
               /\ heard' = (IF running = "up" THEN call[c].arg ELSE heard)
               /\ timer' = "on" => /\ call[c].arg = "granted"
                                   /\ timer = "on" \/ Registers(transport, mem)
               /\ GoesOn(c, transport, call[c].arg = "granted" /\ mem.status # "registered")
            \/ /\ call[c].pc = "rejected" /\ UNCHANGED <<heard, timer>> /\ call'[c] = Idle
               /\ \/ asked' = mem.consent
                  \/ asked' = asked /\ \E d \in Calls \ {c} : call[d].op = "consent"
<1>1. call \in [Calls -> Call]
  BY DEF Typed, CallsOK
<1>2. /\ call[c].op = "consent"
      /\ UNCHANGED <<running, override, website, transport, failure, link>>
  BY DEF ConsentContinues
<1>3. CASE call[c].pc = "resolved"
  <2>1. GoesOn(c, transport, call[c].arg = "granted" /\ mem.status # "registered")
        /\ OthersAre(c, call) /\ Unpublished
    BY <1>1, <1>3, BackgroundIs DEF ConsentContinues
  <2>2. timer' = "on" => call[c].arg = "granted" /\ (timer = "on" \/ Registers(transport, mem))
    BY <1>3 DEF ConsentContinues, StartTimer
  <2>3. asked' = asked /\ heard' = (IF running = "up" THEN call[c].arg ELSE heard)
    BY <1>3 DEF ConsentContinues
  <2> QED BY <1>2, <1>3, <2>1, <2>2, <2>3
<1>4. CASE call[c].pc # "resolved"
  <2>1. /\ call[c].pc = "rejected" /\ Return(c) /\ UNCHANGED <<heard, timer>>
        /\ asked' = IF \E d \in Calls \ {c} : call[d].op = "consent" THEN asked ELSE mem.consent
    BY <1>4 DEF ConsentContinues
  <2>2. call'[c] = Idle /\ OthersAre(c, call) /\ Unpublished
    BY <2>1, SparesAll
  <2> QED BY <1>2, <2>1, <2>2
<1> QED BY <1>3, <1>4

\* The transport of the other calls is disposed, the bind links they wait for are dropped.
CutOff(c) ==
  \A d \in Calls \ {c} : /\ Rest(call[d], call'[d]) /\ "live" \notin call'[d].has
                         /\ call[d].op = "bind" => "same" \notin call'[d].has
                         /\ call[d].op # "bind" => call'[d].has = call[d].has \ {"live"}

LEMMA ServerGoesOn ==
  ASSUME Typed, NEW c \in Calls, ServerContinues(c)
  PROVE  /\ call[c].op = "server" /\ Spares(c) /\ Unpublished
         /\ UNCHANGED <<running, website, asked, heard, link>>
         /\ \/ /\ call[c].pc = "resolved" /\ "changed" \in call[c].has /\ CutOff(c)
               /\ override' = call[c].arg /\ transport' = Effective(call[c].arg)
               /\ timer' = "off" /\ failure' = "null"
               /\ GoesOn(c, transport', TRUE)
            \/ /\ call[c].pc \in {"resolved", "rejected"}
               /\ call[c].pc = "resolved" => "changed" \notin call[c].has
               /\ OthersAre(c, Bumped({"bind"})) /\ call'[c] = Idle
               /\ override' = IF call[c].pc = "resolved" THEN call[c].arg ELSE override
               /\ UNCHANGED <<transport, timer, failure>>
<1>1. call \in [Calls -> Call] /\ Bumped({"bind"}) \in [Calls -> Call]
  BY BumpedRests DEF Typed, CallsOK
<1>2. call[c].op = "server" /\ UNCHANGED <<running, website, asked, heard, link>>
  BY DEF ServerContinues
<1>3. CASE call[c].pc = "resolved" /\ "changed" \in call[c].has
  <2> DEFINE cs == [d \in Calls |-> [call[d] EXCEPT !.has = @ \ (IF call[d].op = "bind"
                                                                 THEN {"live", "same"}
                                                                 ELSE {"live"})]]
  <2>1. /\ override' = call[c].arg /\ timer' = "off" /\ failure' = "null"
        /\ transport' = Effective(call[c].arg) /\ Background(cs, c, transport', TRUE)
    BY <1>3 DEF ServerContinues
  <2>2. ASSUME NEW d \in Calls
        PROVE  /\ cs[d] \in Call /\ Rest(call[d], cs[d]) /\ "live" \notin cs[d].has
               /\ call[d].op = "bind" => "same" \notin cs[d].has
               /\ call[d].op # "bind" => cs[d].has = call[d].has \ {"live"}
    <3>1. call[d] \in Call /\ call[d].has \ {"live", "same"} \in SUBSET Flags
          /\ call[d].has \ {"live"} \in SUBSET Flags
      BY <1>1, HasType
    <3>2. CASE call[d].op = "bind"
      <4>1. cs[d] = [call[d] EXCEPT !.has = call[d].has \ {"live", "same"}]
        BY <3>2
      <4> HIDE DEF cs
      <4> QED BY <3>1, <3>2, <4>1 DEF Call, Rest
    <3>3. CASE call[d].op # "bind"
      <4>1. cs[d] = [call[d] EXCEPT !.has = call[d].has \ {"live"}]
        BY <3>3
      <4> HIDE DEF cs
      <4> QED BY <3>1, <3>3, <4>1 DEF Call, Rest
    <3> QED BY <3>2, <3>3
  <2>3. cs \in [Calls -> Call]
    BY <2>2
  <2> HIDE DEF cs
  <2>4. GoesOn(c, transport', TRUE) /\ OthersAre(c, cs) /\ Unpublished
    BY <2>1, <2>3, BackgroundIs
  <2>5. CutOff(c) /\ Spares(c)
    BY <2>2, <2>4 DEF OthersAre, CutOff, Spares
  <2> QED BY <1>2, <1>3, <2>1, <2>4, <2>5
<1>4. CASE ~(call[c].pc = "resolved" /\ "changed" \in call[c].has)
  <2>1. /\ call[c].pc \in {"resolved", "rejected"} /\ Background(Bumped({"bind"}), c, None, FALSE)
        /\ override' = (IF call[c].pc = "resolved" THEN call[c].arg ELSE override)
        /\ UNCHANGED <<transport, timer, failure>>
    BY <1>4 DEF ServerContinues
  <2>2. call'[c] = Idle /\ OthersAre(c, Bumped({"bind"})) /\ Unpublished
    BY <1>1, <2>1, BackgroundIs DEF GoesOn
  <2>3. Spares(c)
    BY <2>2, SparesAll
  <2> QED BY <1>2, <1>4, <2>1, <2>2, <2>3
<1> QED BY <1>3, <1>4

LEMMA WebsiteGoesOn ==
  ASSUME Typed, NEW c \in Calls, WebsiteContinues(c)
  PROVE  /\ call[c].op = "website" /\ OthersAre(c, Bumped({"bind"})) /\ call'[c] = Idle /\ Unpublished
         /\ call[c].pc \in {"resolved", "rejected"}
         /\ UNCHANGED <<running, override, transport, timer, failure, asked, heard, link>>
<1>1. Bumped({"bind"}) \in [Calls -> Call] /\ Background(Bumped({"bind"}), c, None, FALSE)
  BY BumpedRests DEF WebsiteContinues
<1>2. call'[c] = Idle /\ OthersAre(c, Bumped({"bind"})) /\ Unpublished
  BY <1>1, BackgroundIs DEF GoesOn
<1> QED BY <1>2 DEF WebsiteContinues

LEMMA LinkOrMarkGoesOn ==
  ASSUME Typed, NEW c \in Calls, BindAnswered(c) \/ BindFails(c) \/ MarkContinues(c)
  PROVE  /\ OthersAre(c, call) /\ call'[c] = Idle /\ Unpublished
         /\ call[c].op \in {"bind", "points", "mark"}
         /\ call[c].op = "bind" \/ call[c].pc \in {"resolved", "rejected"}
         /\ UNCHANGED <<running, override, website, transport, timer, failure, asked, heard>>
         /\ link' # link => /\ call[c].op = "bind" /\ "same" \in call[c].has /\ "live" \in call[c].has
                            /\ link' = [website |-> call[c].arg, server |-> call[c].origin]
<1>1. Return(c)
  BY DEF BindAnswered, BindFails, MarkContinues
<1>2. OthersAre(c, call) /\ call'[c] = Idle /\ Unpublished
  BY <1>1, SparesAll
<1> QED BY <1>2 DEF BindAnswered, BindFails, MarkContinues

(***************************************************************************)
(* No step breaks the invariant of the chain.                              *)
(***************************************************************************)

LEMMA RestOfIdle ==
  ASSUME NEW r \in Call, Rest(Idle, r) PROVE r = Idle
<1>1. r.op = "none" /\ r.pc = "idle" /\ r.arg = None /\ r.origin = None /\ r.has = {}
  BY DEF Rest, Idle
<1> QED BY <1>1 DEF Call, Idle

\* A step of call c that keeps to itself, or enters the chain.
OwnStep(c) ==
  /\ Spares(c) /\ UNCHANGED running /\ call[c].pc # "queued"
  /\ Unpublished \/ (Enters(c) /\ running = "up")
  /\ \/ call'[c] = Idle
     \/ /\ running = "up" /\ call'[c].pc \in {"queued", "challenge", "devices"}
        /\ call'[c].op # "none" /\ (call'[c].op = "bind" => call'[c].pc = "challenge")
  /\ call'[c].op = "mark" => mem.mark = None /\ ~Busy({"mark"})
  /\ timer' = "on" => timer = "on" \/ Registers(transport, mem)
  /\ \/ heard' = heard /\ (call[c].op = "consent" => call[c].pc # "resolved")
     \/ /\ heard' = (IF running = "up" THEN mem.consent ELSE heard)
        /\ timer' = "on" => mem.consent = "granted"

LEMMA OwnStepKeeps ==
  ASSUME Typed, Typed', KeptInv, NEW c \in Calls, OwnStep(c)
  PROVE  KeptInv'
<1>1. /\ \A d \in Calls : call[d] \in Call /\ call'[d] \in Call
      /\ \A d \in Calls \ {c} : Rest(call[d], call'[d])
      /\ UNCHANGED <<running, mem, stored>>
  BY DEF Typed, CallsOK, OwnStep, Spares, Unpublished, Enters
<1>2. QueueInv' /\ NextInv'
  <2>1. \A d \in Calls : call[d].pc = "queued" => Rest(call[d], call'[d])
    BY <1>1 DEF OwnStep
  <2>2. CASE Unpublished
    BY <1>1, <2>1, <2>2, ChainStays DEF KeptInv, Unpublished
  <2>3. CASE Enters(c) /\ running = "up"
    BY <1>1, <2>3, ChainGrows DEF KeptInv, OwnStep
  <2> QED BY <2>2, <2>3 DEF OwnStep
<1>3. ShapeInv'
  <2>1. ASSUME NEW d \in Calls \ {c}
        PROVE  /\ running = "down" => call'[d] = Idle
               /\ call'[d].pc = "idle" => call'[d] = Idle
               /\ call'[d].op = "none" => call'[d].pc = "idle"
               /\ call'[d].op = "bind" => call'[d].pc = "challenge"
    <3>1. Rest(call[d], call'[d]) /\ call'[d] \in Call
      BY <1>1
    <3>2. /\ running = "down" => call[d] = Idle
          /\ call[d].pc = "idle" => call[d] = Idle
          /\ call[d].op = "none" => call[d].pc = "idle"
          /\ call[d].op = "bind" => call[d].pc = "challenge"
      BY DEF KeptInv, ShapeInv
    <3>3. call'[d].pc = call[d].pc /\ call'[d].op = call[d].op
      BY <3>1 DEF Rest
    <3>4. call[d] = Idle => call'[d] = Idle
      BY <3>1, RestOfIdle
    <3> QED BY <3>2, <3>3, <3>4
  <2>2. /\ running = "down" => call'[c] = Idle
        /\ call'[c].pc = "idle" => call'[c] = Idle
        /\ call'[c].op = "none" => call'[c].pc = "idle"
        /\ call'[c].op = "bind" => call'[c].pc = "challenge"
    BY DEF OwnStep, Idle
  <2> QED BY <1>1, <2>1, <2>2 DEF ShapeInv
<1>4. MarkInv'
  <2>1. \A d \in Calls \ {c} : call'[d].op = call[d].op /\ call'[d].pc = call[d].pc
    BY <1>1 DEF Rest
  <2> QED BY <1>1, <2>1 DEF KeptInv, MarkInv, OwnStep, Busy
<1>5. ConsentInv'
  <2>1. call'[c].pc # "resolved"
    BY DEF OwnStep, Idle
  <2> QED BY <1>1, <2>1 DEF KeptInv, ConsentInv, Rest
<1>6. ASSUME NEW a, NEW d \in Calls, heard' = heard, call[c].op = "consent" => call[c].pc # "resolved",
             call[d].op = "consent", call[d].pc = "resolved", call[d].arg = a
      PROVE  call'[d].op = "consent" /\ call'[d].pc = "resolved" /\ call'[d].arg = a
  BY <1>1, <1>6 DEF Rest
<1>7. HeardIsCurrent'
  <2> SUFFICES ASSUME running = "up", heard' # mem.consent
               PROVE  \E d \in Calls : /\ call'[d].op = "consent" /\ call'[d].pc = "resolved"
                                       /\ call'[d].arg = mem.consent
    BY <1>1 DEF HeardIsCurrent
  <2>1. heard' = heard /\ (call[c].op = "consent" => call[c].pc # "resolved")
    BY DEF OwnStep
  <2>2. PICK d \in Calls : call[d].op = "consent" /\ call[d].pc = "resolved" /\ call[d].arg = mem.consent
    BY <2>1 DEF KeptInv, HeardIsCurrent
  <2> QED BY <1>6, <2>1, <2>2
<1>8. TimerStops'
  <2> SUFFICES ASSUME timer' = "on" PROVE TimerStops'
    BY DEF TimerStops
  <2>1. timer = "on" \/ (running = "up" /\ mem.consent = "granted")
    BY DEF OwnStep, Registers
  <2> QED BY <1>1, <1>6, <2>1 DEF KeptInv, StaysQuiet, TimerStops, OwnStep
<1>9. DisposedIsQuiet'
  <2> SUFFICES ASSUME running \in {"disposed", "closed"}
               PROVE  timer' = "off" /\ \A d \in Calls : "live" \notin call'[d].has
    BY <1>1 DEF DisposedIsQuiet
  <2>1. timer = "off" /\ \A d \in Calls : "live" \notin call[d].has
    BY DEF KeptInv, StaysQuiet, DisposedIsQuiet
  <2>2. timer' # "on"
    BY <2>1 DEF OwnStep, Registers
  <2>3. timer' = "off"
    BY <2>2 DEF Typed, TypeOK
  <2>4. "live" \notin call'[c].has
    BY DEF OwnStep, Idle
  <2> QED BY <1>1, <2>1, <2>3, <2>4 DEF Rest
<1> QED BY <1>2, <1>3, <1>4, <1>5, <1>7, <1>8, <1>9 DEF KeptInv, StaysQuiet

LEMMA StartsOwn ==
  ASSUME Typed, NEW c \in Calls,
         \/ SetConsent(c) \/ SetServer(c) \/ SetWebsite(c)
         \/ Register(c) \/ BindLink(c) \/ MarkPoints(c) \/ MarkConsent(c)
  PROVE  OwnStep(c)
<1>1. CASE SetConsent(c) \/ SetServer(c) \/ SetWebsite(c)
  <2>1. /\ Enters(c) /\ Spares(c) /\ running = "up" /\ call[c].pc = "idle"
        /\ call'[c].pc = "queued" /\ call'[c].op \in {"consent", "server", "website"}
        /\ UNCHANGED <<running, timer, heard>>
    BY <1>1, SettingIs DEF Is
  <2> QED BY <2>1 DEF OwnStep
<1>2. CASE Register(c) \/ BindLink(c) \/ MarkPoints(c) \/ MarkConsent(c)
  <2>1. /\ OthersAre(c, call) /\ running = "up" /\ call[c].pc = "idle"
        /\ UNCHANGED <<running, timer, heard>>
        /\ Unpublished \/ Enters(c)
        /\ call'[c].pc \in {"queued", "challenge"}
        /\ call'[c].op \in {"register", "bind", "points", "mark"}
        /\ call'[c].op = "bind" => call'[c].pc = "challenge"
        /\ call'[c].op = "mark" => mem.mark = None /\ ~Busy({"mark"})
    BY <1>2, StartIs DEF Is
  <2>2. Spares(c)
    BY <2>1, SparesAll
  <2>3. call[c].op = "consent" => call[c].pc # "resolved"
    BY <2>1
  <2> QED BY <2>1, <2>2, <2>3 DEF OwnStep
<1> QED BY <1>1, <1>2

LEMMA RegisterOwn ==
  ASSUME Typed, NEW c \in Calls,
         \/ SendDevice(c) \/ RetryWithoutLabel(c) \/ Registered(c) \/ RequestFails(c)
         \/ RegisterContinues(c)
  PROVE  OwnStep(c)
<1>1. /\ OthersAre(c, call) /\ call[c].op = "register"
      /\ call[c].pc \in {"challenge", "devices", "resolved", "rejected"}
      /\ UNCHANGED <<running, heard>>
      /\ timer' = timer \/ Registers(transport, mem)
      /\ \/ /\ Unpublished /\ running = "up"
            /\ call'[c].op = "register" /\ call'[c].pc \in {"challenge", "devices"}
         \/ Enters(c) /\ running = "up" /\ call'[c].pc = "queued" /\ call'[c].op = "register"
         \/ call'[c] = Idle /\ Unpublished
  BY RegisterStepIs DEF Is, Same
<1>2. Spares(c)
  BY <1>1, SparesAll
<1>3. call'[c].op # "mark"
  BY <1>1 DEF Idle
<1> QED BY <1>1, <1>2, <1>3 DEF OwnStep

LEMMA ContinuesOwn ==
  ASSUME Typed, ShapeInv, ConsentInv, NEW c \in Calls,
         \/ ConsentContinues(c) \/ ServerContinues(c) \/ WebsiteContinues(c)
         \/ BindAnswered(c) \/ BindFails(c) \/ MarkContinues(c)
  PROVE  OwnStep(c)
<1>1. \A o, starts : GoesOn(c, o, starts) =>
        \/ call'[c] = Idle
        \/ running = "up" /\ call'[c].pc = "challenge" /\ call'[c].op = "register"
  BY DEF GoesOn, Is, Registers
<1>2. Idle.op # "mark"
  BY DEF Idle
<1>3. CASE ConsentContinues(c)
  <2>1. /\ call[c].op = "consent" /\ OthersAre(c, call) /\ Unpublished
        /\ UNCHANGED <<running, override, website, transport, failure, link>>
        /\ \/ /\ call[c].pc = "resolved" /\ heard' = (IF running = "up" THEN call[c].arg ELSE heard)
              /\ timer' = "on" => call[c].arg = "granted" /\ (timer = "on" \/ Registers(transport, mem))
              /\ GoesOn(c, transport, call[c].arg = "granted" /\ mem.status # "registered")
           \/ /\ call[c].pc = "rejected" /\ UNCHANGED <<heard, timer>> /\ call'[c] = Idle
    BY <1>3, ConsentGoesOn
  <2>2. Spares(c)
    BY <2>1, SparesAll
  <2>3. call[c].pc = "resolved" => call[c].arg = mem.consent
    BY <2>1 DEF ConsentInv
  <2> QED BY <1>1, <1>2, <2>1, <2>2, <2>3 DEF OwnStep
<1>4. CASE ServerContinues(c)
  <2>1. /\ call[c].op = "server" /\ Spares(c) /\ Unpublished /\ UNCHANGED <<running, heard>>
        /\ call[c].pc \in {"resolved", "rejected"}
        /\ timer' \in {timer, "off"}
        /\ call'[c] = Idle \/ GoesOn(c, transport', TRUE)
    BY <1>4, ServerGoesOn
  <2> QED BY <1>1, <1>2, <2>1 DEF OwnStep
<1>5. CASE WebsiteContinues(c)
  <2>1. /\ call[c].op = "website" /\ OthersAre(c, Bumped({"bind"})) /\ call'[c] = Idle /\ Unpublished
        /\ call[c].pc \in {"resolved", "rejected"} /\ UNCHANGED <<running, timer, heard>>
    BY <1>5, WebsiteGoesOn
  <2>2. Spares(c)
    BY <2>1, SparesAll
  <2> QED BY <1>2, <2>1, <2>2 DEF OwnStep
<1>6. CASE BindAnswered(c) \/ BindFails(c) \/ MarkContinues(c)
  <2>1. /\ OthersAre(c, call) /\ call'[c] = Idle /\ Unpublished
        /\ call[c].op \in {"bind", "points", "mark"}
        /\ call[c].op = "bind" \/ call[c].pc \in {"resolved", "rejected"}
        /\ UNCHANGED <<running, timer, heard>>
    BY <1>6, LinkOrMarkGoesOn
  <2>2. Spares(c)
    BY <2>1, SparesAll
  <2>3. call[c].pc # "queued" /\ (call[c].op = "consent" => call[c].pc # "resolved")
    BY <2>1 DEF ShapeInv
  <2> QED BY <1>2, <2>1, <2>2, <2>3 DEF OwnStep
<1> QED BY <1>3, <1>4, <1>5, <1>6

LEMMA HeadKeeps ==
  ASSUME Typed, Typed', KeptInv, FinishHead \/ FailHead \/ RejectHead
  PROVE  KeptInv'
<1> DEFINE h == Head(queue)
<1>1. /\ \/ HeadGets("resolved", next) /\ stored' = next /\ writing = "yes"
         \/ HeadGets("rejected", mem) /\ stored' \in {stored, next} /\ writing = "yes"
         \/ HeadGets("rejected", mem) /\ stored' = stored /\ writing = "no"
      /\ UNCHANGED <<override, website, transport, timer, failure, asked, heard, link>>
  BY HeadStepIs
<1>2. PICK pc \in {"resolved", "rejected"}, m \in {mem, next} :
        /\ HeadGets(pc, m) /\ (pc = "resolved" => writing = "yes" /\ m = next /\ stored' = next)
        /\ pc = "rejected" => m = mem /\ stored' \in {stored, next}
        /\ writing = "no" => m = mem /\ stored' = stored
  <2>1. CASE HeadGets("resolved", next) /\ stored' = next /\ writing = "yes"
    BY <2>1
  <2>2. CASE HeadGets("rejected", mem) /\ stored' \in {stored, next} /\ writing = "yes"
    BY <2>2
  <2>3. CASE HeadGets("rejected", mem) /\ stored' = stored /\ writing = "no"
    BY <2>3
  <2> QED BY <1>1, <2>1, <2>2, <2>3
<1>3. /\ queue # <<>> /\ ~Continuing /\ mem' = m /\ UNCHANGED running /\ queue \in Seq(Calls)
      /\ mem \in Snapshot /\ next \in Snapshot /\ call \in [Calls -> Call] /\ writing \in {"yes", "no"}
  BY <1>2 DEF HeadGets, Typed, TypeOK, CallsOK
<1>4. h \in Calls /\ h = queue[1] /\ 1 \in 1..Len(queue)
  BY <1>3, TailFacts
<1>5. /\ call'[h].pc = pc /\ call'[h].op = call[h].op /\ call'[h].arg = call[h].arg
      /\ call'[h].has = call[h].has
      /\ \A d \in Calls \ {h} : call'[d] = call[d]
  BY <1>2, <1>3, <1>4 DEF HeadGets, Call
<1>6. call[h].pc = "queued" /\ \A d \in Calls : call[d].pc \notin {"resolved", "rejected"}
  BY <1>3, <1>4 DEF KeptInv, QueueInv, Continuing
<1>7. call[h].op \in {"consent", "server", "website", "register", "points", "mark"}
  BY <1>3, <1>4, <1>6 DEF KeptInv, ShapeInv, Call
<1>8. writing = "yes" => /\ \A f \in DOMAIN mem : next[f] # mem[f] => f \in Owned(call[h])
                         /\ call[h].op = "consent" => next.consent = call[h].arg
  BY DEF KeptInv, NextInv, Writes
<1>9. /\ next.consent # mem.consent /\ writing = "yes" =>
           call[h].op = "consent" /\ call[h].arg = next.consent
      /\ next.mark # mem.mark /\ writing = "yes" => call[h].op = "mark"
  <2>1. "consent" \in DOMAIN mem /\ "mark" \in DOMAIN mem
    BY <1>3 DEF Snapshot
  <2>2. "consent" \in Owned(call[h]) => call[h].op = "consent"
    BY <1>7 DEF Owned
  <2>3. "mark" \in Owned(call[h]) => call[h].op = "mark"
    BY <1>7 DEF Owned
  <2> QED BY <1>8, <2>1, <2>2, <2>3
<1> HIDE DEF h
<1>10. QueueInv' /\ NextInv'
  <2>1. pc \in PC /\ m \in Snapshot
    BY <1>3 DEF PC
  <2>2. writing = "yes" \/ running # "up"
    BY <1>3 DEF KeptInv, QueueInv
  <2> QED BY <1>2, <2>1, <2>2, ChainShrinks DEF KeptInv
<1>11. ShapeInv'
  BY <1>3, <1>4, <1>5, <1>7 DEF QueueInv, KeptInv, ShapeInv
<1>12. MarkInv'
  <2>1. mem'.mark # None => stored'.mark = mem'.mark
    BY <1>2, <1>3, <1>4, <1>6, <1>9 DEF KeptInv, MarkInv
  <2>2. ASSUME NEW d \in Calls, call'[d].op = "mark", call'[d].pc = "queued" PROVE mem'.mark = None
    <3>1. d # h /\ call[d].op = "mark" /\ call[d].pc = "queued"
      BY <1>4, <1>5, <2>2
    <3>2. call[h].op # "mark" /\ mem.mark = None
      BY <1>4, <3>1 DEF KeptInv, MarkInv
    <3> QED BY <1>2, <1>3, <1>9, <3>2
  <2>3. \A c, d \in Calls : call'[c].op = "mark" /\ call'[d].op = "mark" => c = d
    BY <1>4, <1>5 DEF KeptInv, MarkInv
  <2> QED BY <2>1, <2>2, <2>3 DEF MarkInv
<1>13. ConsentInv'
  BY <1>2, <1>3, <1>4, <1>5, <1>6, <1>8 DEF ConsentInv
<1>14. HeardIsCurrent'
  <2>1. running = "up" => heard = mem.consent
    BY <1>6 DEF KeptInv, HeardIsCurrent
  <2>2. m # mem => pc = "resolved" /\ writing = "yes" /\ m = next
    BY <1>2
  <2> QED BY <1>1, <1>3, <1>4, <1>5, <1>9, <2>1, <2>2 DEF HeardIsCurrent
<1>15. TimerStops'
  <2>1. timer = "on" => running = "up" /\ mem.consent # "withheld"
    BY <1>6 DEF KeptInv, StaysQuiet, TimerStops
  <2>2. m # mem => pc = "resolved" /\ writing = "yes" /\ m = next
    BY <1>2
  <2> QED BY <1>1, <1>3, <1>4, <1>5, <1>9, <2>1, <2>2 DEF TimerStops
<1>16. DisposedIsQuiet'
  BY <1>1, <1>3, <1>4, <1>5 DEF KeptInv, StaysQuiet, DisposedIsQuiet
<1> QED BY <1>10, <1>11, <1>12, <1>13, <1>14, <1>15, <1>16 DEF KeptInv, StaysQuiet

\* Every call is as if it had not been made.
Resting ==
  /\ \A c \in Calls : call[c] = Idle
  /\ queue = <<>> /\ writing = "no" /\ timer = "off"
  /\ heard = mem.consent /\ mem = stored

LEMMA NothingRuns == (Resting => KeptInv) /\ (Resting' => KeptInv')
<1>1. Idle.op = "none" /\ Idle.pc = "idle" /\ Idle.has = {}
  BY DEF Idle
<1>2. Resting => KeptInv
  BY <1>1 DEF Resting, KeptInv, ShapeInv, QueueInv, NextInv, MarkInv, ConsentInv, HeardIsCurrent,
              StaysQuiet, TimerStops, DisposedIsQuiet
<1>3. Resting' => KeptInv'
  BY <1>1 DEF Resting, KeptInv, ShapeInv, QueueInv, NextInv, MarkInv, ConsentInv, HeardIsCurrent,
              StaysQuiet, TimerStops, DisposedIsQuiet
<1> QED BY <1>2, <1>3

LEMMA LifeKeeps ==
  ASSUME Typed, Typed', KeptInv, Boot \/ Dispose \/ Close \/ Crash
  PROVE  KeptInv'
<1>1. /\ queue \in Seq(Calls) /\ writing \in {"yes", "no"} /\ timer \in {"on", "off"}
      /\ call \in [Calls -> Call] /\ (writing = "yes" => queue # <<>>)
  BY DEF Typed, TypeOK, CallsOK
<1>2. CASE Boot
  <2>1. /\ running \in {"down", "closed"} /\ running' = "up" /\ mem' = stored /\ stored' = stored
        /\ \A c \in Calls : call[c] = Idle
        /\ heard' = mem'.consent /\ UNCHANGED <<queue, writing, timer>>
    BY <1>2 DEF Boot
  <2>2. queue = <<>> /\ writing = "no"
    BY <1>1, <2>1 DEF KeptInv, QueueInv
  <2>3. timer = "off"
    BY <1>1, <2>1 DEF KeptInv, StaysQuiet, TimerStops
  <2>4. CASE UNCHANGED call
    BY <2>1, <2>2, <2>3, <2>4, NothingRuns DEF Resting
  <2>5. CASE ~UNCHANGED call
    <3>1. PICK c \in Calls : call' = [call EXCEPT ![c] = Registering(transport', {"auto"})]
      BY <1>2, <2>5 DEF Boot
    <3>2. /\ call'[c].op = "register" /\ call'[c].pc = "challenge"
          /\ \A d \in Calls \ {c} : call'[d] = Idle
      BY <1>1, <2>1, <3>1, RegisteringIs DEF Is
    <3>3. Idle.op = "none" /\ Idle.pc = "idle"
      BY DEF Idle
    <3>4. ShapeInv'
      BY <2>1, <3>2, <3>3 DEF ShapeInv
    <3>5. QueueInv' /\ NextInv'
      BY <2>1, <2>2 DEF QueueInv, NextInv
    <3>6. MarkInv' /\ ConsentInv'
      BY <2>1, <3>2, <3>3 DEF MarkInv, ConsentInv
    <3>7. HeardIsCurrent' /\ StaysQuiet'
      BY <2>1, <2>3 DEF HeardIsCurrent, StaysQuiet, TimerStops, DisposedIsQuiet
    <3> QED BY <3>4, <3>5, <3>6, <3>7 DEF KeptInv
  <2> QED BY <2>4, <2>5
<1>3. CASE Dispose
  <2>1. /\ running = "up" /\ running' = "disposed" /\ timer' = "off" /\ ~Continuing
        /\ UNCHANGED <<mem, stored, heard, queue, writing, next>>
    BY <1>3 DEF Dispose, Unpublished
  <2>2. ASSUME NEW d \in Calls
        PROVE  /\ Rest(call[d], call'[d]) /\ "live" \notin call'[d].has
               /\ call[d] = Idle => call'[d] = Idle
    <3>1. call'[d] = [call[d] EXCEPT !.has = call[d].has \ {"live"}]
      BY <1>3 DEF Dispose
    <3>2. call[d] \in Call /\ call'[d] \in Call
      BY DEF Typed, CallsOK
    <3>3. Rest(call[d], call'[d]) /\ "live" \notin call'[d].has
      BY <3>1, <3>2 DEF Rest, Call
    <3> QED BY <3>2, <3>3, RestOfIdle
  <2>3. QueueInv' /\ NextInv'
    BY <2>1, <2>2, ChainStays DEF KeptInv
  <2>4. \A d \in Calls : call'[d].op = call[d].op /\ call'[d].pc = call[d].pc /\ call'[d].arg = call[d].arg
    BY <2>2 DEF Rest
  <2>5. ShapeInv'
    BY <2>1, <2>2, <2>4 DEF KeptInv, ShapeInv
  <2>6. MarkInv' /\ ConsentInv'
    BY <2>1, <2>4 DEF KeptInv, MarkInv, ConsentInv
  <2>7. HeardIsCurrent' /\ StaysQuiet'
    BY <2>1, <2>2 DEF HeardIsCurrent, StaysQuiet, TimerStops, DisposedIsQuiet
  <2> QED BY <2>3, <2>5, <2>6, <2>7 DEF KeptInv
<1>4. CASE Close
  <2>1. /\ running = "disposed" /\ running' = "closed" /\ queue = <<>> /\ writing = "no"
        /\ UNCHANGED <<mem, stored, heard, timer, queue, writing, next, call>>
    BY <1>1, <1>4 DEF Close, Unpublished
  <2> QED BY <2>1 DEF KeptInv, ShapeInv, QueueInv, NextInv, MarkInv, ConsentInv, HeardIsCurrent,
                      StaysQuiet, TimerStops, DisposedIsQuiet
<1>5. CASE Crash
  <2>1. /\ \A c \in Calls : call'[c] = Idle
        /\ queue' = <<>> /\ writing' = "no" /\ timer' = "off" /\ heard' = mem'.consent /\ mem' = stored'
    BY <1>5 DEF Crash
  <2> QED BY <2>1, NothingRuns DEF Resting
<1> QED BY <1>2, <1>3, <1>4, <1>5

LEMMA KeptInit == Init => Typed /\ KeptInv
<1> SUFFICES ASSUME Init PROVE Typed /\ KeptInv
  OBVIOUS
<1>1. /\ \A c \in Calls : call[c] = Idle
      /\ queue = <<>> /\ writing = "no" /\ timer = "off" /\ heard = mem.consent /\ mem = stored
  BY DEF Init, Fresh
<1> QED BY <1>1, NothingRuns, TypedInit DEF Resting

LEMMA KeptStep == Typed /\ KeptInv /\ [Next]_vars => Typed' /\ KeptInv'
<1> SUFFICES ASSUME Typed, KeptInv, [Next]_vars PROVE Typed' /\ KeptInv'
  OBVIOUS
<1>1. Typed'
  BY TypedStep
<1>2. CASE FinishHead \/ FailHead \/ RejectHead
  BY <1>1, <1>2, HeadKeeps
<1>3. CASE Boot \/ Dispose \/ Close \/ Crash
  BY <1>1, <1>3, LifeKeeps
<1>4. ASSUME NEW c \in Calls,
             \/ SetConsent(c) \/ SetServer(c) \/ SetWebsite(c)
             \/ Register(c) \/ BindLink(c) \/ MarkPoints(c) \/ MarkConsent(c)
      PROVE  KeptInv'
  BY <1>1, <1>4, StartsOwn, OwnStepKeeps
<1>5. ASSUME NEW c \in Calls,
             \/ SendDevice(c) \/ RetryWithoutLabel(c) \/ Registered(c) \/ RequestFails(c)
             \/ RegisterContinues(c)
      PROVE  KeptInv'
  BY <1>1, <1>5, RegisterOwn, OwnStepKeeps
<1>6. ASSUME NEW c \in Calls,
             \/ ConsentContinues(c) \/ ServerContinues(c) \/ WebsiteContinues(c)
             \/ BindAnswered(c) \/ BindFails(c) \/ MarkContinues(c)
      PROVE  KeptInv'
  BY <1>1, <1>6, ContinuesOwn, OwnStepKeeps DEF KeptInv
<1>7. CASE UNCHANGED vars
  <2>1. QueueInv' /\ NextInv'
    BY <1>7 DEF vars, KeptInv, QueueInv, NextInv
  <2>2. ShapeInv' /\ MarkInv' /\ ConsentInv'
    BY <1>7 DEF vars, KeptInv, ShapeInv, MarkInv, ConsentInv
  <2>3. HeardIsCurrent' /\ StaysQuiet'
    BY <1>7 DEF vars, KeptInv, HeardIsCurrent, StaysQuiet, TimerStops, DisposedIsQuiet
  <2> QED BY <1>1, <2>1, <2>2, <2>3 DEF KeptInv
<1> QED BY <1>1, <1>2, <1>3, <1>4, <1>5, <1>6, <1>7 DEF Next, Continue

(***************************************************************************)
(* The theorems about the chain, whatever overtakes what.                  *)
(***************************************************************************)

\* dispose() and a withdrawal silence the plugin: no timer, no request that could
\* still be answered (controller.ts, dispose and setConsent).
THEOREM WithdrawnIsQuiet == Spec => []StaysQuiet
<1>1. Spec => [](Typed /\ KeptInv)
  BY KeptInit, KeptStep, PTL DEF Spec
<1>2. Typed /\ KeptInv => StaysQuiet
  BY DEF KeptInv
<1> QED
  BY <1>1, <1>2, PTL

\* A crash or the store's answer brings the snapshot the head wrote, nothing else.
LEMMA StoredChanges ==
  ASSUME Typed, KeptInv, Next
  PROVE  /\ stored' # stored => writing = "yes" /\ stored' = next
         /\ mem' # mem => \/ writing = "yes" /\ mem' = next
                          \/ mem' \in {stored, stored'}
<1>1. CASE FinishHead \/ FailHead \/ RejectHead
  BY <1>1, HeadStepIs DEF HeadGets
<1>2. CASE Boot \/ Dispose \/ Close \/ Crash
  BY <1>2 DEF Boot, Dispose, Close, Crash, Unpublished
<1>3. ASSUME NEW c \in Calls,
             \/ SetConsent(c) \/ SetServer(c) \/ SetWebsite(c)
             \/ Register(c) \/ BindLink(c) \/ MarkPoints(c) \/ MarkConsent(c)
             \/ SendDevice(c) \/ RetryWithoutLabel(c) \/ Registered(c) \/ RequestFails(c)
             \/ RegisterContinues(c)
             \/ ConsentContinues(c) \/ ServerContinues(c) \/ WebsiteContinues(c)
             \/ BindAnswered(c) \/ BindFails(c) \/ MarkContinues(c)
      PROVE  UNCHANGED <<stored, mem>>
  <2>1. OwnStep(c)
    BY <1>3, StartsOwn, RegisterOwn, ContinuesOwn DEF KeptInv
  <2> QED BY <2>1 DEF OwnStep, Unpublished, Enters
<1> QED BY <1>1, <1>2, <1>3 DEF Next, Continue

\* Every write keeps what the writes before it set, the consent prompt's marker is stamped
\* once, a closed store stays as it is and the listeners hear of the consent, in every order
\* of calls, failures of the store, dispose() and crashes (controller.ts, #publish).
THEOREM NothingIsLost == Spec => WritesAreKept
<1>1. Typed /\ KeptInv /\ [Next]_vars =>
        [NoLostUpdate /\ MarkedOnce /\ NoWriteAfterClose /\ HeardIsCurrent']_vars
  <2> SUFFICES ASSUME Typed, KeptInv, Next
               PROVE  NoLostUpdate /\ MarkedOnce /\ NoWriteAfterClose /\ HeardIsCurrent'
    OBVIOUS
  <2>1. HeardIsCurrent'
    BY KeptStep DEF KeptInv
  <2>2. /\ stored \in Snapshot /\ mem \in Snapshot /\ next \in Snapshot
        /\ writing = "yes" => queue # <<>>
        /\ queue \in Seq(Calls)
    BY DEF Typed, TypeOK
  <2>3. /\ stored' # stored => writing = "yes" /\ stored' = next
        /\ mem' # mem => \/ writing = "yes" /\ mem' = next
                         \/ mem' \in {stored, stored'}
    BY StoredChanges
  <2>4. NoLostUpdate
    <3>1. DOMAIN stored = DOMAIN mem
      BY <2>2 DEF Snapshot
    <3> QED BY <2>3, <3>1 DEF NoLostUpdate, KeptInv, NextInv, Writes
  <2>5. MarkedOnce
    <3> SUFFICES ASSUME mem.mark # None PROVE mem'.mark = mem.mark
      BY DEF MarkedOnce
    <3>1. stored.mark = mem.mark
      BY DEF KeptInv, MarkInv
    <3>2. ASSUME writing = "yes" PROVE next.mark = mem.mark
      <4>1. Head(queue) = queue[1] /\ Head(queue) \in Calls /\ 1 \in 1..Len(queue)
        BY <2>2, <3>2, TailFacts
      <4>2. call[Head(queue)].pc = "queued"
        BY <4>1 DEF KeptInv, QueueInv
      <4>3. call[Head(queue)].op \in {"consent", "server", "website", "register", "points"}
        BY <4>1, <4>2 DEF KeptInv, ShapeInv, MarkInv, Typed, CallsOK, Call
      <4>4. "mark" \notin Owned(call[Head(queue)])
        BY <4>3 DEF Owned
      <4>5. "mark" \in DOMAIN mem
        BY <2>2 DEF Snapshot
      <4> QED BY <3>2, <4>4, <4>5 DEF KeptInv, NextInv, Writes
    <3>3. stored'.mark = mem.mark
      BY <2>3, <3>1, <3>2
    <3> QED BY <2>3, <3>1, <3>2, <3>3
  <2>6. NoWriteAfterClose
    BY <2>2, <2>3 DEF NoWriteAfterClose, KeptInv, QueueInv
  <2> QED BY <2>1, <2>4, <2>5, <2>6
<1>2. WritesAreKept <=> [][NoLostUpdate /\ MarkedOnce /\ NoWriteAfterClose /\ HeardIsCurrent']_vars
  BY DEF WritesAreKept
<1> QED
  BY <1>1, <1>2, KeptInit, KeptStep, PTL DEF Spec

(***************************************************************************)
(* No step unsettles the settings, unless one overtakes another.           *)
(***************************************************************************)

\* An update records the outcome of a wanted registration, for the server in effect.
LEMMA UpdateSettles ==
  ASSUME NEW r \in Call, ArgOK(r), NEW c \in Calls, NEW m \in Snapshot, IssuerOf(m),
         r.op = "server" /\ "changed" \notin r.has => Effective(r.arg) = Effective(m.override),
         r.op = "register" /\ Same(r, m) => r.origin = Effective(m.override)
  PROVE  /\ IssuerOf(Update(r, c, m))
         /\ r.op = "register" /\ Same(r, m) => Update(r, c, m).status # "unregistered"
<1> USE DEF Snapshot, Update, ArgOK, IssuerOf
<1>1. CASE r.op = "consent"
  BY <1>1
<1>2. CASE r.op = "server"
  BY <1>2 DEF OptServer
<1>3. CASE r.op = "website"
  BY <1>3
<1>4. CASE r.op = "register"
  BY <1>4 DEF Call
<1>5. CASE r.op = "points"
  BY <1>5
<1>6. CASE r.op = "mark"
  BY <1>6
<1>7. CASE r.op \in {"none", "bind"}
  BY <1>7
<1> QED
  BY <1>1, <1>2, <1>3, <1>4, <1>5, <1>6, <1>7 DEF Call

\* The chain gets the turn of q's head, on the snapshot m.
LEMMA TurnSettles ==
  ASSUME NEW q \in Seq(Calls), NEW m \in Snapshot, NEW cs, CallsOK(cs), Turn(q, m, cs), IssuerOf(m),
         q # <<>> /\ running = "up" =>
           LET r == cs[Head(q)]
           IN  /\ r.op = "server" /\ "changed" \notin r.has => Effective(r.arg) = Effective(m.override)
               /\ r.op = "register" /\ Same(r, m) => r.origin = Effective(m.override)
  PROVE  /\ IssuerOf(next')
         /\ LET r == cs[Head(q)]
            IN  writing' = "yes" /\ r.op = "register" /\ Same(r, m) => next'.status # "unregistered"
<1>1. CASE q # <<>> /\ running = "up"
  <2>1. Head(q) \in Calls
    BY <1>1
  <2>2. cs[Head(q)] \in Call /\ ArgOK(cs[Head(q)])
    BY <2>1 DEF CallsOK
  <2>3. next' = Update(cs[Head(q)], Head(q), m) /\ writing' = "yes" /\ queue' = q
    BY <1>1 DEF Turn
  <2> QED BY <1>1, <2>1, <2>2, <2>3, UpdateSettles
<1>2. CASE ~(q # <<>> /\ running = "up")
  BY <1>2 DEF Turn
<1> QED BY <1>1, <1>2

Unwanted(c) == \A d \in Calls \ {c} : call[d].op = "register" => "same" \notin call'[d].has
NoLinks(c) == \A d \in Calls \ {c} : call[d].op = "bind" => "same" \notin call'[d].has
NobodyElse(c, ops) == \A d \in Calls \ {c} : call[d].op \notin ops

\* What a step of call c does about the registrations that are wanted, about the consent,
\* the addresses, the bind links and what is left to do.
WantedStep(c) ==
  /\ Wanted(c)' =>
       /\ running = "up" /\ mem.consent = "granted"
       /\ call'[c].origin = transport' /\ transport' = Effective(mem.override)
       /\ \A d \in Calls \ {c} : call[d].op # "consent" /\ ~Changing(d)
       /\ call'[c].pc = "queued" /\ "ok" \notin call'[c].has => failure' = "set"
  /\ call'[c].op = "consent" \/ Changing(c)' \/ transport' # transport => Unwanted(c)
  /\ failure' = failure \/ failure' = "set" \/ mem.status # "unregistered" \/ Unwanted(c)
AskedStep(c) ==
  \/ /\ asked' = asked /\ call'[c].op # "consent"
     /\ running = "up" /\ call[c].op = "consent" => asked = mem.consent
  \/ /\ NobodyElse(c, {"consent"})
     /\ asked' = IF call'[c].op = "consent" THEN call'[c].arg ELSE mem.consent
OriginStep(c) ==
  \/ /\ UNCHANGED <<override, transport>> /\ call'[c].op # "server"
     /\ call[c].op = "server" => mem.override = override
  \/ /\ UNCHANGED <<override, transport>> /\ call'[c].op = "server" /\ NobodyElse(c, {"server"})
     /\ mem.override = override /\ call'[c].arg \in OptServer
     /\ "changed" \in call'[c].has <=> Effective(call'[c].arg) # Effective(override)
  \/ /\ NobodyElse(c, {"server"}) /\ call'[c].op # "server"
     /\ override' = mem.override /\ transport' = Effective(override')
LinkStep(c) ==
  /\ UNCHANGED <<override, website>> \/ NoLinks(c)
  /\ call'[c].op \in {"server", "website"} => NoLinks(c)
  /\ call'[c].op = "bind" =>
       /\ UNCHANGED <<override, website>> /\ NobodyElse(c, {"server", "website"})
       /\ call'[c].arg = EffectiveWebsite /\ call'[c].origin = Effective(override)
DutyStep(c) ==
  running = "up" /\ Registers(transport', mem) /\ mem.status = "unregistered" /\ failure' = "null" =>
    \/ Duty(c)'
    \/ /\ transport' = transport /\ failure = "null" /\ ~Duty(c)
       /\ \A d \in Calls \ {c} : Wanted(d) => "same" \in call'[d].has
SettledStep(c) ==
  /\ OwnStep(c) /\ WantedStep(c) /\ AskedStep(c) /\ LinkStep(c)
  /\ running = "up" => OriginStep(c)
  /\ call'[c].op \in Settings => running = "up" /\ ~Busy(Settings)
  /\ "refusal" \notin Ops => DutyStep(c)

LEMMA SettledStepKeeps ==
  ASSUME Typed, Typed', KeptInv, KeptInv', SettledInv, NEW c \in Calls, SettledStep(c)
  PROVE  SettledInv'
<1>1. /\ \A d \in Calls : call[d] \in Call /\ call'[d] \in Call /\ ArgOK(call'[d])
      /\ \A d \in Calls \ {c} : Rest(call[d], call'[d])
      /\ UNCHANGED <<running, mem, stored>> /\ call[c].pc # "queued"
      /\ call'[c].pc \in {"idle", "queued", "challenge", "devices"}
      /\ mem \in Snapshot /\ queue \in Seq(Calls) /\ CallsOK(call')
  BY DEF Typed, TypeOK, CallsOK, SettledStep, OwnStep, Spares, Unpublished, Enters, Idle
<1>2. \A d \in Calls \ {c} :
        /\ call'[d].op = call[d].op /\ call'[d].pc = call[d].pc
        /\ call'[d].arg = call[d].arg /\ call'[d].origin = call[d].origin
        /\ "changed" \in call'[d].has <=> "changed" \in call[d].has
        /\ "ok" \in call'[d].has <=> "ok" \in call[d].has
        /\ "same" \in call'[d].has => "same" \in call[d].has
  BY <1>1 DEF Rest
<1>3. /\ \A d \in Calls \ {c} : Wanted(d)' => Wanted(d)
      /\ \A d \in Calls \ {c} : Changing(d)' <=> Changing(d)
      /\ Unwanted(c) => \A d \in Calls \ {c} : ~Wanted(d)'
  BY <1>2 DEF Wanted, Changing, Unwanted
<1>4. OneSetting'
  <2>1. call'[c].op \in Settings => \A d \in Calls : call[d].op \notin Settings
    BY DEF SettledStep, Busy
  <2> QED BY <1>2, <2>1 DEF SettledInv, OneSetting
<1>5. WantedInv'
  <2>1. ASSUME NEW d \in Calls \ {c}, Wanted(d)'
        PROVE  /\ running = "up" => mem.consent = "granted" /\ call'[d].origin = transport'
               /\ \A e \in Calls : call'[e].op # "consent" /\ ~Changing(e)'
    <3>1. Wanted(d) /\ ~Unwanted(c)
      BY <1>3, <2>1
    <3>2. transport' = transport /\ call'[c].op # "consent" /\ ~Changing(c)'
      BY <3>1 DEF SettledStep, WantedStep
    <3> QED BY <1>2, <1>3, <3>1, <3>2 DEF SettledInv, WantedInv
  <2>2. ASSUME Wanted(c)'
        PROVE  /\ running = "up" => mem.consent = "granted" /\ call'[c].origin = transport'
               /\ \A e \in Calls : call'[e].op # "consent" /\ ~Changing(e)'
    <3>1. call'[c].op # "consent" /\ ~Changing(c)'
      BY <2>2 DEF Wanted, Changing
    <3> QED BY <1>2, <1>3, <2>2, <3>1 DEF SettledStep, WantedStep
  <2> QED BY <1>1, <2>1, <2>2 DEF WantedInv
<1>6. AskedInv'
  <2>1. /\ \A d \in Calls : call[d].op = "consent" => asked = call[d].arg
        /\ running = "up" /\ ~Busy({"consent"}) => asked = mem.consent
    BY DEF SettledInv, AskedInv
  <2>2. CASE /\ asked' = asked /\ call'[c].op # "consent"
             /\ running = "up" /\ call[c].op = "consent" => asked = mem.consent
    BY <1>1, <1>2, <2>1, <2>2 DEF AskedInv, Busy
  <2>3. CASE /\ NobodyElse(c, {"consent"})
             /\ asked' = IF call'[c].op = "consent" THEN call'[c].arg ELSE mem.consent
    BY <1>1, <1>2, <2>3 DEF AskedInv, Busy, NobodyElse
  <2> QED BY <2>2, <2>3 DEF SettledStep, AskedStep
<1>7. OriginInv'
  <2> SUFFICES ASSUME running = "up" PROVE OriginInv'
    BY <1>1 DEF OriginInv
  <2>1. /\ transport = Effective(override)
        /\ \A d \in Calls : call[d].op = "server" =>
             /\ "changed" \in call[d].has <=> Effective(call[d].arg) # Effective(override)
             /\ call[d].pc = "resolved" => mem.override = call[d].arg
        /\ mem.override # override => \E d \in Calls : call[d].op = "server" /\ call[d].pc = "resolved"
    BY DEF SettledInv, OriginInv
  <2>2. \A o : Effective(o)' = Effective(o)
    BY DEF Effective
  <2>3. CASE /\ UNCHANGED <<override, transport>> /\ call'[c].op # "server"
             /\ call[c].op = "server" => mem.override = override
    <3>1. mem.override # override => \E d \in Calls : call'[d].op = "server" /\ call'[d].pc = "resolved"
      BY <1>2, <2>1, <2>3
    <3> QED BY <1>1, <1>2, <2>1, <2>3, <3>1 DEF OriginInv, Effective
  <2>4. CASE /\ UNCHANGED <<override, transport>> /\ call'[c].op = "server" /\ NobodyElse(c, {"server"})
             /\ mem.override = override
             /\ "changed" \in call'[c].has <=> Effective(call'[c].arg) # Effective(override)
    BY <1>1, <1>2, <2>1, <2>4 DEF OriginInv, Effective, NobodyElse
  <2>5. CASE /\ NobodyElse(c, {"server"}) /\ call'[c].op # "server"
             /\ override' = mem.override /\ transport' = Effective(override')
    BY <1>1, <1>2, <2>5 DEF OriginInv, Effective, NobodyElse
  <2> QED BY <2>3, <2>4, <2>5 DEF SettledStep, OriginStep
<1>8. IssuerInv' /\ HeadRecords'
  <2>1. IssuerOf(stored) /\ IssuerOf(mem) /\ IssuerOf(next)
    BY DEF SettledInv, IssuerInv
  <2>2. /\ IssuerOf(stored)' <=> IssuerOf(stored)
        /\ IssuerOf(mem)' <=> IssuerOf(mem)
        /\ IssuerOf(next)' <=> IssuerOf(next')
    BY <1>1 DEF IssuerOf, Effective
  <2>3. CASE UNCHANGED <<queue, writing, next>>
    <3>1. IssuerInv'
      BY <2>1, <2>2, <2>3 DEF IssuerInv, IssuerOf, Effective
    <3>2. HeadRecords'
      <4> SUFFICES ASSUME writing = "yes", running = "up", Wanted(Head(queue))'
                   PROVE  next.status # "unregistered"
        BY <1>1, <2>3 DEF HeadRecords
      <4>1. Head(queue) = queue[1] /\ Head(queue) \in Calls /\ 1 \in 1..Len(queue)
        BY <1>1, TailFacts DEF Typed
      <4>2. Head(queue) # c
        BY <1>1, <4>1 DEF KeptInv, QueueInv
      <4>3. Wanted(Head(queue))
        BY <1>3, <2>3, <4>1, <4>2 DEF Wanted
      <4> QED BY <4>3 DEF SettledInv, RecordInv, HeadRecords
    <3> QED BY <3>1, <3>2
  <2>4. CASE Enters(c) /\ queue = <<>> /\ running = "up"
    <3>1. Turn(<<c>>, mem, call') /\ UNCHANGED <<stored, mem>>
      BY <2>4 DEF Enters
    <3>2. <<c>> \in Seq(Calls) /\ <<c>> # <<>> /\ Head(<<c>>) = c
      OBVIOUS
    <3>3. call'[c].op = "server" /\ "changed" \notin call'[c].has =>
            Effective(call'[c].arg) = Effective(mem.override)
      BY <2>4 DEF SettledStep, OriginStep
    <3>4. call'[c].op = "register" /\ Same(call'[c], mem) => call'[c].origin = Effective(mem.override)
      BY <2>4 DEF SettledStep, WantedStep, Wanted, Same
    <3>5. /\ IssuerOf(next') /\ queue' = <<c>>
          /\ writing' = "yes" /\ call'[c].op = "register" /\ Same(call'[c], mem) => next'.status # "unregistered"
      BY <1>1, <2>1, <3>1, <3>2, <3>3, <3>4, TurnSettles DEF Turn
    <3>6. Wanted(c)' => call'[c].op = "register" /\ Same(call'[c], mem)
      BY <2>4 DEF SettledStep, WantedStep, Wanted, Same
    <3>7. HeadRecords'
      BY <3>2, <3>5, <3>6 DEF HeadRecords, Wanted
    <3> QED BY <2>1, <2>2, <3>5, <3>7 DEF IssuerInv
  <2>5. CASE Enters(c) /\ queue # <<>>
    <3>1. queue' = Append(queue, c) /\ UNCHANGED <<writing, next>>
      BY <2>5 DEF Enters
    <3>2. Head(queue') = Head(queue) /\ Head(queue) = queue[1] /\ Head(queue) \in Calls /\ 1 \in 1..Len(queue)
      BY <1>1, <2>5, <3>1, TailFacts, AppendProperties
    <3>3. IssuerInv'
      BY <2>1, <2>2, <3>1 DEF IssuerInv, IssuerOf, Effective
    <3>4. Head(queue) # c
      BY <1>1, <3>2 DEF KeptInv, QueueInv
    <3>5. Wanted(Head(queue))' => Wanted(Head(queue))
      BY <1>3, <3>2, <3>4 DEF Wanted
    <3>6. HeadRecords'
      BY <1>1, <3>1, <3>2, <3>5 DEF SettledInv, RecordInv, HeadRecords
    <3> QED BY <3>3, <3>6
  <2> QED BY <2>3, <2>4, <2>5 DEF SettledStep, OwnStep, Unpublished
<1>9. LinkInv'
  <2>1. EffectiveWebsite' = EffectiveWebsite \/ website' # website
    BY DEF EffectiveWebsite
  <2>2. ASSUME NEW d \in Calls \ {c}, call'[d].op = "bind", "same" \in call'[d].has
        PROVE  /\ ~Saving'
               /\ running = "up" => call'[d].arg = EffectiveWebsite' /\ call'[d].origin = Effective(override')
    <3>1. call[d].op = "bind" /\ "same" \in call[d].has /\ ~NoLinks(c)
      BY <1>2, <2>2 DEF NoLinks
    <3>2. UNCHANGED <<override, website>> /\ call'[c].op \notin {"server", "website"}
      BY <3>1 DEF SettledStep, LinkStep
    <3>3. ~Saving /\ (running = "up" => call[d].arg = EffectiveWebsite /\ call[d].origin = Effective(override))
      BY <3>1 DEF SettledInv, LinkInv
    <3>4. ~Saving'
      BY <1>2, <3>2, <3>3 DEF Saving, Busy
    <3> QED BY <1>2, <2>1, <3>2, <3>3, <3>4
  <2>3. ASSUME call'[c].op = "bind"
        PROVE  /\ ~Saving'
               /\ call'[c].arg = EffectiveWebsite' /\ call'[c].origin = Effective(override')
    <3>1. UNCHANGED <<override, website>> /\ NobodyElse(c, {"server", "website"})
          /\ call'[c].arg = EffectiveWebsite /\ call'[c].origin = Effective(override)
      BY <2>3 DEF SettledStep, LinkStep
    <3>2. ~Saving'
      BY <1>2, <2>3, <3>1 DEF NobodyElse, Saving, Busy
    <3> QED BY <2>1, <3>1, <3>2
  <2> QED BY <1>1, <2>2, <2>3 DEF LinkInv, Effective
<1>10. RecordInv'
  <2>1. ASSUME NEW d \in Calls \ {c}, Wanted(d)'
        PROVE  /\ call'[d].pc = "resolved" /\ running = "up" => mem.status # "unregistered"
               /\ "ok" \notin call'[d].has /\ call'[d].pc \in {"queued", "rejected"} =>
                    failure' = "set" \/ mem.status # "unregistered"
    <3>1. Wanted(d) /\ ~Unwanted(c)
      BY <1>3, <2>1
    <3>2. failure' = failure \/ failure' = "set" \/ mem.status # "unregistered"
      BY <3>1 DEF SettledStep, WantedStep
    <3> QED BY <1>2, <3>1, <3>2 DEF SettledInv, RecordInv
  <2>2. ASSUME Wanted(c)'
        PROVE  /\ call'[c].pc \notin {"resolved", "rejected"}
               /\ "ok" \notin call'[c].has /\ call'[c].pc = "queued" => failure' = "set"
    BY <1>1, <2>2 DEF SettledStep, WantedStep
  <2> QED BY <1>1, <1>8, <2>1, <2>2 DEF RecordInv
<1>11. ASSUME "refusal" \notin Ops PROVE DutyInv'
  <2> SUFFICES ASSUME running = "up" PROVE DutyInv'
    BY <1>1 DEF DutyInv
  <2>1. DutyInv /\ DutyStep(c)
    BY <1>11 DEF SettledInv, SettledStep
  <2>2. \A d \in Calls : call'[d].op \in Settings => call'[d].pc # "rejected"
    BY <1>1, <1>2, <2>1 DEF DutyInv
  <2>3. ASSUME Registers(transport', mem), mem.status = "unregistered", failure' = "null", ~Duty(c)'
        PROVE  \E d \in Calls : Duty(d)'
    <3>1. /\ transport' = transport /\ failure = "null" /\ ~Duty(c)
          /\ \A d \in Calls \ {c} : Wanted(d) => "same" \in call'[d].has
      BY <2>1, <2>3 DEF DutyStep
    <3>2. PICK d \in Calls : Duty(d)
      BY <2>1, <2>3, <3>1 DEF DutyInv
    <3>3. d # c
      BY <3>1, <3>2
    <3>4. CASE Wanted(d) /\ call[d].pc # "resolved"
      <4>1. Wanted(d)' /\ call'[d].pc # "resolved"
        BY <1>2, <3>1, <3>3, <3>4 DEF Wanted
      <4> QED BY <4>1 DEF Duty
    <3>5. CASE call[d].op = "consent" \/ Changing(d)
      <4>1. call'[d].op = "consent" \/ Changing(d)'
        BY <1>2, <1>3, <3>3, <3>5
      <4> QED BY <4>1 DEF Duty
    <3> QED BY <3>2, <3>4, <3>5 DEF Duty
  <2>4. Registers(transport, mem)' <=> Registers(transport', mem)
    BY <1>1 DEF Registers
  <2> QED BY <1>1, <2>2, <2>3, <2>4 DEF DutyInv
<1> QED BY <1>4, <1>5, <1>6, <1>7, <1>8, <1>9, <1>10, <1>11 DEF SettledInv

LEMMA SettingsSettle ==
  ASSUME Typed, ShapeInv, SettledInv, Exclusive, NEW c \in Calls,
         SetConsent(c) \/ SetServer(c) \/ SetWebsite(c)
  PROVE  SettledStep(c)
<1>1. OwnStep(c)
  BY StartsOwn
<1>2. /\ Enters(c) /\ Spares(c) /\ running = "up" /\ ~Continuing /\ call[c].pc = "idle" /\ ~Busy(Settings)
      /\ UNCHANGED <<running, override, website, transport, failure, mem>>
      /\ call'[c].pc = "queued"
  BY SettingIs DEF Enters
<1>3. /\ \A ops : \A d \in Calls : call[d].op \in ops => "same" \notin Bumped(ops)[d].has
      /\ \A ops : \A d \in Calls : call[d].op \notin ops => Bumped(ops)[d] = call[d]
  BY BumpedRests
<1>4. /\ \A d \in Calls : call[d].op \notin {"consent", "server", "website"}
      /\ \A d \in Calls : ~Changing(d)
      /\ mem.override = override /\ asked = mem.consent /\ transport = Effective(override)
  BY <1>2 DEF Busy, Settings, Changing, SettledInv, OriginInv, AskedInv
<1>5. CASE /\ asked' \in Consent
           /\ Is(call'[c], "consent", "queued", asked', None, {}) /\ OthersAre(c, Bumped({"register"}))
  <2>1. Unwanted(c) /\ call'[c].op = "consent" /\ call'[c].arg = asked' /\ call'[c].has = {}
    BY <1>3, <1>5 DEF Unwanted, OthersAre, Is
  <2>2. WantedStep(c)
    BY <1>2, <2>1 DEF WantedStep, Wanted
  <2>3. AskedStep(c)
    BY <1>4, <2>1 DEF AskedStep, NobodyElse
  <2>4. OriginStep(c) /\ LinkStep(c)
    BY <1>2, <1>4, <2>1 DEF OriginStep, LinkStep
  <2>5. DutyStep(c)
    BY <2>1 DEF DutyStep, Duty
  <2> QED BY <1>1, <1>2, <2>2, <2>3, <2>4, <2>5 DEF SettledStep
<1>6. ASSUME NEW a \in OptServer, asked' = asked, Effective(a) # Effective(override),
             Is(call'[c], "server", "queued", a, None, {"changed"}), OthersAre(c, Bumped({"register", "bind"}))
      PROVE  SettledStep(c)
  <2>1. /\ Unwanted(c) /\ NoLinks(c)
        /\ call'[c].op = "server" /\ call'[c].arg = a /\ call'[c].has = {"changed"}
    BY <1>3, <1>6 DEF Unwanted, NoLinks, OthersAre, Is
  <2>2. WantedStep(c)
    BY <1>2, <2>1 DEF WantedStep, Wanted
  <2>3. AskedStep(c)
    BY <1>4, <1>6, <2>1 DEF AskedStep
  <2>4. OriginStep(c) /\ LinkStep(c)
    BY <1>2, <1>4, <1>6, <2>1 DEF OriginStep, LinkStep, NobodyElse
  <2>5. DutyStep(c)
    BY <2>1 DEF DutyStep, Duty, Changing
  <2> QED BY <1>1, <1>2, <2>2, <2>3, <2>4, <2>5 DEF SettledStep
<1>7. ASSUME asked' = asked, OthersAre(c, Bumped({"bind"})), call'[c].has = {},
             \/ /\ call'[c].op = "server" /\ call'[c].arg \in OptServer
                /\ Effective(call'[c].arg) = Effective(override)
             \/ call'[c].op = "website"
      PROVE  SettledStep(c)
  <2>1. /\ NoLinks(c)
        /\ \A d \in Calls \ {c} : Wanted(d) => "same" \in call'[d].has
    BY <1>3, <1>7 DEF NoLinks, OthersAre, Wanted
  <2>2. WantedStep(c)
    BY <1>2, <1>7 DEF WantedStep, Wanted, Changing
  <2>3. AskedStep(c)
    BY <1>4, <1>7 DEF AskedStep
  <2>4. OriginStep(c) /\ LinkStep(c)
    BY <1>2, <1>4, <1>7, <2>1 DEF OriginStep, LinkStep, NobodyElse
  <2>5. ASSUME "refusal" \notin Ops PROVE DutyStep(c)
    <3>1. ~Duty(c)
      <4>1. ~Wanted(c)
        BY <1>2 DEF ShapeInv, Wanted, Idle
      <4> QED BY <1>4, <4>1 DEF Duty
    <3> QED BY <1>2, <2>1, <3>1 DEF DutyStep
  <2> QED BY <1>1, <1>2, <1>7, <2>2, <2>3, <2>4, <2>5 DEF SettledStep
<1> QED BY <1>5, <1>6, <1>7, SettingIs DEF Is

LEMMA StartsSettle ==
  ASSUME Typed, ShapeInv, SettledInv, Exclusive, NEW c \in Calls,
         Register(c) \/ BindLink(c) \/ MarkPoints(c) \/ MarkConsent(c)
  PROVE  SettledStep(c)
<1>1. OwnStep(c)
  BY StartsOwn
<1>2. /\ OthersAre(c, call) /\ running = "up" /\ ~Continuing /\ call[c].pc = "idle" /\ call[c] = Idle
      /\ UNCHANGED <<running, override, website, transport, asked>>
  BY StartIs DEF ShapeInv
<1>3. call[c].op = "none" /\ ~Wanted(c) /\ ~Changing(c) /\ ~Duty(c)
  BY <1>2 DEF Idle, Wanted, Changing, Duty
<1>4. \A d \in Calls \ {c} : call'[d] = call[d]
  BY <1>2 DEF OthersAre
<1>5. transport = Effective(override)
  BY <1>2 DEF SettledInv, OriginInv
<1>6. call'[c].op \in {"register", "bind", "points", "mark"} => AskedStep(c) /\ OriginStep(c)
  BY <1>2, <1>3 DEF AskedStep, OriginStep
<1>7. ASSUME mem.consent = "granted", ~Busy(Settings), call'[c].op = "register",
             call'[c].origin = transport, call'[c].pc = "challenge" \/ failure' = "set",
             call'[c].pc # "resolved", "same" \in call'[c].has, failure' \in {failure, "set"}
      PROVE  SettledStep(c)
  <2>1. /\ \A d \in Calls : call[d].op \notin {"consent", "server", "website"}
        /\ \A d \in Calls : ~Changing(d)
        /\ mem.override = override
    BY <1>2, <1>7 DEF Busy, Settings, Changing, SettledInv, OriginInv
  <2>2. WantedStep(c)
    BY <1>2, <1>5, <1>7, <2>1 DEF WantedStep, Changing
  <2>3. LinkStep(c) /\ call'[c].op \notin Settings
    BY <1>2, <1>7 DEF LinkStep, Settings
  <2>4. DutyStep(c)
    BY <1>7 DEF DutyStep, Duty, Wanted
  <2> QED BY <1>1, <1>6, <1>7, <2>2, <2>3, <2>4 DEF SettledStep
<1>8. ASSUME call'[c].op \in {"bind", "points", "mark"}, UNCHANGED failure,
             call'[c].op = "bind" => ~Saving /\ Is(call'[c], "bind", "challenge", EffectiveWebsite, transport, {"same", "live"})
      PROVE  SettledStep(c)
  <2>1. WantedStep(c) /\ call'[c].op \notin Settings
    BY <1>2, <1>8 DEF WantedStep, Wanted, Changing, Settings
  <2>2. LinkStep(c)
    BY <1>2, <1>5, <1>8 DEF LinkStep, Saving, Busy, NobodyElse, Is
  <2>3. DutyStep(c)
    BY <1>2, <1>3, <1>4, <1>8 DEF DutyStep, Wanted
  <2> QED BY <1>1, <1>6, <1>8, <2>1, <2>2, <2>3 DEF SettledStep
<1> QED
  <2>1. \/ /\ mem.consent = "granted" /\ ~Busy(Settings)
           /\ call'[c].op = "register" /\ call'[c].origin = transport
           /\ call'[c].pc = "challenge" \/ (call'[c].pc = "queued" /\ failure' = "set")
           /\ "same" \in call'[c].has /\ failure' \in {failure, "set"}
        \/ /\ call'[c].op \in {"bind", "points", "mark"} /\ UNCHANGED failure
           /\ call'[c].op = "bind" => ~Saving /\ Is(call'[c], "bind", "challenge", EffectiveWebsite, transport, {"same", "live"})
    BY StartIs DEF Is
  <2> QED BY <1>7, <1>8, <2>1

\* A registration goes on, or it is over.
LEMMA RegistrationsSettle ==
  ASSUME Typed, KeptInv, SettledInv, NEW c \in Calls,
         \/ SendDevice(c) \/ RetryWithoutLabel(c) \/ Registered(c) \/ RequestFails(c)
         \/ RegisterContinues(c)
  PROVE  SettledStep(c)
<1>1. OwnStep(c)
  BY RegisterOwn
<1>2. /\ OthersAre(c, call) /\ call[c].op = "register"
      /\ call[c].pc \in {"challenge", "devices", "resolved", "rejected"}
      /\ UNCHANGED <<running, override, website, transport, asked>>
  BY RegisterStepIs
<1>3. \A d \in Calls \ {c} : call'[d] = call[d]
  BY <1>2 DEF OthersAre
<1>4. /\ ~Changing(c) /\ (Duty(c) <=> Wanted(c) /\ call[c].pc # "resolved")
      /\ Wanted(c) <=> "same" \in call[c].has
  BY <1>2 DEF Changing, Duty, Wanted
<1>5. ASSUME call'[c].op \in {"register", "none"}
      PROVE  AskedStep(c) /\ OriginStep(c) /\ LinkStep(c) /\ call'[c].op \notin Settings
  BY <1>2, <1>5 DEF AskedStep, OriginStep, LinkStep, Settings
<1>6. ASSUME Same(call[c], mem), call'[c].op = "register", call'[c].origin = call[c].origin,
             "same" \in call'[c].has, call'[c].pc \in {"challenge", "devices", "queued"},
             failure' \in {failure, "set"},
             call'[c].pc = "queued" /\ "ok" \notin call'[c].has => failure' = "set"
      PROVE  SettledStep(c)
  <2>1. running = "up" /\ mem.consent = "granted" /\ Wanted(c)
    BY <1>4, <1>6 DEF Same
  <2>2. call[c].origin = transport /\ \A d \in Calls : call[d].op # "consent" /\ ~Changing(d)
    BY <2>1 DEF SettledInv, WantedInv
  <2>3. transport = Effective(mem.override)
    <3>1. CASE mem.override = override
      BY <2>1, <3>1 DEF SettledInv, OriginInv
    <3>2. CASE mem.override # override
      <4>1. PICK d \in Calls : call[d].op = "server" /\ call[d].pc = "resolved"
        BY <2>1, <3>2 DEF SettledInv, OriginInv
      <4>2. mem.override = call[d].arg /\ Effective(call[d].arg) = Effective(override)
        BY <2>1, <2>2, <4>1 DEF SettledInv, OriginInv, Changing
      <4> QED BY <2>1, <4>2 DEF SettledInv, OriginInv
    <3> QED BY <3>1, <3>2
  <2>4. WantedStep(c)
    BY <1>2, <1>6, <2>1, <2>2, <2>3 DEF WantedStep, Changing
  <2>5. DutyStep(c)
    BY <1>6 DEF DutyStep, Duty, Wanted
  <2> QED BY <1>1, <1>5, <1>6, <2>4, <2>5 DEF SettledStep
<1>7. ASSUME call'[c] = Idle,
             \/ ~Same(call[c], mem) /\ UNCHANGED failure
             \/ /\ call[c].pc = "resolved"
                /\ failure' = IF Same(call[c], mem) THEN "null" ELSE failure
             \/ /\ call[c].pc \in {"resolved", "rejected"} /\ "ok" \notin call[c].has
                /\ UNCHANGED failure
      PROVE  SettledStep(c)
  <2>1. call'[c].op = "none" /\ call'[c].has = {}
    BY <1>7 DEF Idle
  <2>2. Wanted(c) /\ running = "up" => Same(call[c], mem)
    BY <1>4 DEF SettledInv, WantedInv, Same
  <2>3. Same(call[c], mem) /\ call[c].pc = "resolved" => mem.status # "unregistered"
    BY <1>4 DEF Same, SettledInv, RecordInv
  <2>4. Same(call[c], mem) /\ call[c].pc = "rejected" /\ "ok" \notin call[c].has =>
          failure = "set" \/ mem.status # "unregistered"
    BY <1>4 DEF Same, SettledInv, RecordInv
  <2>5. WantedStep(c)
    BY <1>2, <1>7, <2>1, <2>3 DEF WantedStep, Wanted, Changing
  <2>6. DutyStep(c)
    <3> SUFFICES ASSUME running = "up", mem.status = "unregistered", failure' = "null"
                 PROVE  /\ failure = "null" /\ ~Duty(c)
                        /\ \A d \in Calls \ {c} : Wanted(d) => "same" \in call'[d].has
      BY <1>2 DEF DutyStep
    <3>1. failure = "null"
      BY <1>7, <2>3
    <3>2. ~Duty(c)
      BY <1>4, <1>7, <2>2, <2>4, <3>1
    <3> QED BY <1>3, <3>1, <3>2 DEF Wanted
  <2> QED BY <1>1, <1>5, <2>1, <2>5, <2>6 DEF SettledStep
<1>8. \/ /\ Same(call[c], mem) /\ UNCHANGED failure
         /\ call'[c].op = "register" /\ call'[c].pc \in {"challenge", "devices"}
         /\ call'[c].origin = call[c].origin /\ "same" \in call'[c].has
      \/ /\ Same(call[c], mem) /\ UNCHANGED failure
         /\ Is(call'[c], "register", "queued", call[c].arg, call[c].origin, call[c].has \cup {"ok"})
      \/ /\ Same(call[c], mem) /\ failure' = "set"
         /\ Is(call'[c], "register", "queued", call[c].arg, call[c].origin, call[c].has \ {"ok"})
      \/ /\ call'[c] = Idle
         /\ \/ ~Same(call[c], mem) /\ UNCHANGED failure
            \/ /\ call[c].pc = "resolved"
               /\ failure' = IF Same(call[c], mem) THEN "null" ELSE failure
            \/ /\ call[c].pc \in {"resolved", "rejected"} /\ "ok" \notin call[c].has
               /\ UNCHANGED failure
  BY RegisterStepIs
<1> QED BY <1>6, <1>7, <1>8 DEF Is, Same

\* The caller of a settled publication goes on.
LEMMA ConsentSettles ==
  ASSUME Typed, KeptInv, SettledInv, NEW c \in Calls, ConsentContinues(c)
  PROVE  SettledStep(c)
<1>1. OwnStep(c)
  BY ContinuesOwn DEF KeptInv
<1>2. /\ call[c].op = "consent" /\ OthersAre(c, call)
      /\ UNCHANGED <<running, override, website, transport, failure>>
      /\ \/ /\ call[c].pc = "resolved" /\ asked' = asked
            /\ GoesOn(c, transport, call[c].arg = "granted" /\ mem.status # "registered")
         \/ /\ call[c].pc = "rejected" /\ call'[c] = Idle
            /\ \/ asked' = mem.consent
               \/ asked' = asked /\ \E d \in Calls \ {c} : call[d].op = "consent"
  BY ConsentGoesOn
<1>3. /\ \A d \in Calls \ {c} : call'[d] = call[d] /\ call[d].op \notin Settings
      /\ ~Changing(c) /\ \A d \in Calls : ~Changing(d)
  BY <1>2 DEF OthersAre, SettledInv, OneSetting, Settings, Changing
<1>4. asked = call[c].arg /\ (call[c].pc = "resolved" => call[c].arg = mem.consent)
  BY <1>2 DEF SettledInv, AskedInv, KeptInv, ConsentInv
<1>5. running = "up" => transport = Effective(override) /\ mem.override = override
  BY <1>2, <1>3 DEF SettledInv, OriginInv, Settings
<1>6. Idle.op = "none" /\ Idle.has = {}
  BY DEF Idle
<1>7. /\ call'[c].op \in {"none", "register"}
      /\ call'[c].op = "register" =>
           /\ call[c].pc = "resolved" /\ Registers(transport, mem)
           /\ call'[c].origin = transport /\ call'[c].pc = "challenge" /\ "same" \in call'[c].has
      /\ call'[c].op = "none" => call'[c].has = {}
  BY <1>2, <1>6 DEF GoesOn, Is
<1>8. WantedStep(c)
  BY <1>2, <1>3, <1>5, <1>7 DEF WantedStep, Wanted, Changing, Settings, Registers
<1>9. AskedStep(c)
  BY <1>2, <1>3, <1>4, <1>7 DEF AskedStep, NobodyElse, Settings
<1>10. LinkStep(c) /\ OriginStep(c) /\ call'[c].op \notin Settings
  BY <1>2, <1>7 DEF LinkStep, OriginStep, Settings
<1>11. ASSUME "refusal" \notin Ops PROVE DutyStep(c)
  <2> SUFFICES ASSUME running = "up", Registers(transport, mem), mem.status = "unregistered"
               PROVE  Duty(c)'
    BY <1>2 DEF DutyStep
  <2>1. call[c].pc = "resolved"
    BY <1>2, <1>11 DEF SettledInv, DutyInv, Settings
  <2>2. call[c].arg = "granted"
    BY <1>4, <2>1 DEF Registers
  <2>3. call'[c].op = "register" /\ call'[c].pc = "challenge" /\ "same" \in call'[c].has
    BY <1>2, <2>1, <2>2 DEF GoesOn, Is
  <2> QED BY <2>3 DEF Duty, Wanted
<1> QED BY <1>1, <1>8, <1>9, <1>10, <1>11 DEF SettledStep

LEMMA ServerSettles ==
  ASSUME Typed, KeptInv, SettledInv, NEW c \in Calls, ServerContinues(c)
  PROVE  SettledStep(c)
<1>1. OwnStep(c)
  BY ContinuesOwn DEF KeptInv
<1>2. /\ call[c].op = "server" /\ Spares(c) /\ UNCHANGED <<running, website, asked>>
      /\ \/ /\ call[c].pc = "resolved" /\ "changed" \in call[c].has /\ CutOff(c)
            /\ override' = call[c].arg /\ transport' = Effective(call[c].arg) /\ failure' = "null"
            /\ GoesOn(c, transport', TRUE)
         \/ /\ call[c].pc \in {"resolved", "rejected"}
            /\ call[c].pc = "resolved" => "changed" \notin call[c].has
            /\ OthersAre(c, Bumped({"bind"})) /\ call'[c] = Idle
            /\ override' = IF call[c].pc = "resolved" THEN call[c].arg ELSE override
            /\ UNCHANGED <<transport, failure>>
  BY ServerGoesOn
<1>3. \A d \in Calls \ {c} : call[d].op \notin Settings /\ ~Changing(d)
  BY <1>2 DEF SettledInv, OneSetting, Settings, Changing
<1>4. Idle.op = "none" /\ Idle.has = {} /\ Idle.pc = "idle"
  BY DEF Idle
<1>5. AskedStep(c)
  <2>1. call'[c].op # "consent"
    BY <1>2, <1>4 DEF GoesOn, Is
  <2> QED BY <1>2, <2>1 DEF AskedStep
<1>6. running = "up" =>
        /\ call[c].pc = "resolved" => mem.override = call[c].arg
        /\ call[c].pc = "rejected" => mem.override = override
        /\ "changed" \notin call[c].has => Effective(call[c].arg) = Effective(override)
        /\ transport = Effective(override)
  BY <1>2, <1>3 DEF SettledInv, OriginInv, Settings
<1>7. CASE /\ call[c].pc = "resolved" /\ "changed" \in call[c].has /\ CutOff(c)
           /\ override' = call[c].arg /\ transport' = Effective(call[c].arg) /\ failure' = "null"
           /\ GoesOn(c, transport', TRUE)
  <2>1. \A d \in Calls : ~Wanted(d)
    BY <1>2, <1>7 DEF SettledInv, WantedInv, Changing
  <2>2. Unwanted(c) /\ NoLinks(c)
    BY <1>7, <2>1 DEF Unwanted, NoLinks, CutOff, Wanted, Rest
  <2>3. /\ call'[c].op \in {"none", "register"}
        /\ call'[c].op = "register" =>
             /\ Registers(transport', mem)
             /\ call'[c].origin = transport' /\ call'[c].pc = "challenge" /\ "same" \in call'[c].has
        /\ Registers(transport', mem) => call'[c].op = "register"
        /\ call'[c].op = "none" => call'[c].has = {}
    BY <1>4, <1>7 DEF GoesOn, Is
  <2>4. WantedStep(c)
    BY <1>3, <1>6, <1>7, <2>2, <2>3 DEF WantedStep, Wanted, Changing, Settings, Registers
  <2>5. running = "up" => OriginStep(c)
    BY <1>3, <1>6, <1>7, <2>3 DEF OriginStep, NobodyElse, Settings
  <2>6. LinkStep(c) /\ call'[c].op \notin Settings
    BY <2>2, <2>3 DEF LinkStep, Settings
  <2>7. DutyStep(c)
    BY <2>3 DEF DutyStep, Duty, Wanted
  <2> QED BY <1>1, <1>5, <2>4, <2>5, <2>6, <2>7 DEF SettledStep
<1>8. CASE /\ call[c].pc \in {"resolved", "rejected"}
           /\ call[c].pc = "resolved" => "changed" \notin call[c].has
           /\ OthersAre(c, Bumped({"bind"})) /\ call'[c] = Idle
           /\ override' = (IF call[c].pc = "resolved" THEN call[c].arg ELSE override)
           /\ UNCHANGED <<transport, failure>>
  <2>1. /\ NoLinks(c)
        /\ \A d \in Calls \ {c} : Wanted(d) => "same" \in call'[d].has
    BY <1>8, BumpedRests DEF NoLinks, OthersAre, Wanted
  <2>2. WantedStep(c)
    BY <1>4, <1>8 DEF WantedStep, Wanted, Changing
  <2>3. running = "up" => OriginStep(c)
    BY <1>3, <1>4, <1>6, <1>8 DEF OriginStep, NobodyElse, Settings
  <2>4. LinkStep(c) /\ call'[c].op \notin Settings
    BY <1>4, <1>8, <2>1 DEF LinkStep, Settings
  <2>5. ASSUME "refusal" \notin Ops PROVE DutyStep(c)
    <3> SUFFICES ASSUME running = "up", failure' = "null" PROVE ~Duty(c) /\ failure = "null"
      BY <1>8, <2>1 DEF DutyStep
    <3>1. call[c].pc = "resolved"
      BY <1>2, <1>8, <2>5 DEF SettledInv, DutyInv, Settings
    <3> QED BY <1>2, <1>8, <3>1 DEF Duty, Wanted, Changing
  <2> QED BY <1>1, <1>5, <2>2, <2>3, <2>4, <2>5 DEF SettledStep
<1> QED BY <1>2, <1>7, <1>8

LEMMA OthersSettle ==
  ASSUME Typed, KeptInv, SettledInv, NEW c \in Calls,
         WebsiteContinues(c) \/ BindAnswered(c) \/ BindFails(c) \/ MarkContinues(c)
  PROVE  SettledStep(c)
<1>1. OwnStep(c)
  BY ContinuesOwn DEF KeptInv
<1>2. /\ call[c].op \in {"website", "bind", "points", "mark"} /\ call'[c] = Idle
      /\ UNCHANGED <<running, override, transport, failure, asked>>
      /\ \/ OthersAre(c, Bumped({"bind"}))
         \/ OthersAre(c, call) /\ UNCHANGED website
  BY WebsiteGoesOn, LinkOrMarkGoesOn
<1>3. call'[c].op = "none" /\ call'[c].has = {}
  BY <1>2 DEF Idle
<1>4. /\ UNCHANGED website \/ NoLinks(c)
      /\ \A d \in Calls \ {c} : Wanted(d) => "same" \in call'[d].has
  BY <1>2, BumpedRests DEF NoLinks, OthersAre, Wanted
<1>5. WantedStep(c) /\ AskedStep(c) /\ OriginStep(c) /\ LinkStep(c) /\ call'[c].op \notin Settings
  BY <1>2, <1>3, <1>4 DEF WantedStep, Wanted, Changing, AskedStep, OriginStep, LinkStep, Settings
<1>6. DutyStep(c)
  BY <1>2, <1>4 DEF DutyStep, Duty, Wanted, Changing
<1> QED BY <1>1, <1>5, <1>6 DEF SettledStep

LEMMA HeadSettles ==
  ASSUME Typed, Typed', KeptInv, KeptInv', SettledInv, FinishHead \/ FailHead \/ RejectHead
  PROVE  SettledInv'
<1>0. PICK h \in Calls, t \in Seq(Calls) : h = Head(queue) /\ t = Tail(queue)
  <2>1. queue \in Seq(Calls) /\ queue # <<>>
    BY HeadStepIs DEF Typed, TypeOK, HeadGets
  <2> QED BY <2>1, TailFacts
<1>1. /\ \/ HeadGets("resolved", next) /\ stored' = next /\ writing = "yes"
         \/ HeadGets("rejected", mem) /\ stored' \in {stored, next} /\ writing = "yes" /\ FailHead
         \/ HeadGets("rejected", mem) /\ stored' = stored /\ writing = "no"
      /\ UNCHANGED <<override, website, transport, timer, failure, asked, heard, link>>
  BY HeadStepIs
<1>2. PICK pc \in {"resolved", "rejected"}, m \in {mem, next} :
        /\ HeadGets(pc, m) /\ stored' \in {stored, next}
        /\ \/ pc = "resolved" /\ writing = "yes" /\ m = next
           \/ pc = "rejected" /\ m = mem /\ (FailHead \/ writing = "no")
  <2>1. CASE HeadGets("resolved", next) /\ stored' = next /\ writing = "yes"
    BY <2>1
  <2>2. CASE HeadGets("rejected", mem) /\ stored' \in {stored, next} /\ writing = "yes" /\ FailHead
    BY <2>2
  <2>3. CASE HeadGets("rejected", mem) /\ stored' = stored /\ writing = "no"
    BY <2>3
  <2> QED BY <1>1, <2>1, <2>2, <2>3
<1>3. /\ queue # <<>> /\ ~Continuing /\ mem' = m /\ UNCHANGED running /\ queue \in Seq(Calls)
      /\ mem \in Snapshot /\ next \in Snapshot /\ m \in Snapshot /\ CallsOK(call)
      /\ queue' = t
      /\ Turn(t, m, call) \/ (writing = "no" /\ UNCHANGED <<writing, next>>)
  BY <1>0, <1>2 DEF HeadGets, Typed, TypeOK
<1>4. h \in Calls /\ h = queue[1] /\ 1 \in 1..Len(queue) /\ t \in Seq(Calls)
      /\ (t # <<>> => Head(t) = queue[2] /\ Head(t) \in Calls /\ Head(t) # h)
  <2>1. /\ Head(queue) = queue[1] /\ Head(queue) \in Calls /\ Tail(queue) \in Seq(Calls)
        /\ Len(queue) \in Nat /\ Len(queue) >= 1
        /\ \A i \in 1..Len(queue) : queue[i] \in Calls
        /\ Tail(queue) # <<>> => Head(Tail(queue)) = queue[2] /\ Len(queue) >= 2
    BY <1>3, TailFacts
  <2>2. Len(queue) >= 2 => queue[2] # queue[1] /\ 2 \in 1..Len(queue)
    BY <2>1 DEF KeptInv, QueueInv
  <2> QED BY <1>0, <2>1, <2>2
<1>5. /\ call'[h].pc = pc /\ call'[h].op = call[h].op /\ call'[h].arg = call[h].arg
      /\ call'[h].origin = call[h].origin /\ call'[h].has = call[h].has
      /\ \A d \in Calls \ {h} : call'[d] = call[d]
  BY <1>0, <1>2, <1>3, <1>4 DEF HeadGets, Call, CallsOK
<1>6. call[h].pc = "queued" /\ \A d \in Calls : call[d].pc \notin {"resolved", "rejected"}
  BY <1>3, <1>4 DEF KeptInv, QueueInv, Continuing
<1>7. call[h].op \in {"consent", "server", "website", "register", "points", "mark"}
  BY <1>3, <1>4, <1>6 DEF KeptInv, ShapeInv, Call, CallsOK
<1>8. /\ \A d \in Calls : Wanted(d)' <=> Wanted(d)
      /\ \A d \in Calls : Changing(d)' <=> Changing(d)
      /\ \A d \in Calls : call'[d].op = call[d].op /\ call'[d].arg = call[d].arg
                          /\ call'[d].origin = call[d].origin /\ call'[d].has = call[d].has
  BY <1>4, <1>5 DEF Wanted, Changing
\* What the head has written, if it has.
<1>9. /\ m.consent # mem.consent => call[h].op = "consent"
      /\ m.override # mem.override => call[h].op = "server"
      /\ call[h].op = "server" /\ m = next /\ writing = "yes" => m.override = call[h].arg
      /\ mem.status # "unregistered" /\ m.status = "unregistered" => Changing(h)
  <2>1. CASE m = mem
    <3>1. writing = "yes" /\ call[h].op = "server" => next.override = call[h].arg
      BY <1>0 DEF KeptInv, NextInv, Writes
    <3> QED BY <2>1, <3>1
  <2>2. CASE m = next /\ writing = "yes"
    <3>1. Writes(call[h], mem, next)
      BY <1>0, <2>2 DEF KeptInv, NextInv
    <3>2. "consent" \in DOMAIN mem /\ "override" \in DOMAIN mem
      BY <1>3 DEF Snapshot
    <3>3. "consent" \in Owned(call[h]) => call[h].op = "consent"
      BY <1>7 DEF Owned
    <3>4. "override" \in Owned(call[h]) => call[h].op = "server"
      BY <1>7 DEF Owned
    <3> QED BY <2>2, <3>1, <3>2, <3>3, <3>4 DEF Writes, Changing
  <2> QED BY <1>2, <2>1, <2>2
<1>10. OneSetting'
  BY <1>8 DEF SettledInv, OneSetting
<1>11. ASSUME NEW d \in Calls, Wanted(d)
       PROVE  /\ running = "up" => m.consent = "granted" /\ call[d].origin = transport
              /\ \A c \in Calls : call[c].op # "consent" /\ ~Changing(c)
  BY <1>4, <1>9, <1>11 DEF SettledInv, WantedInv
<1>12. WantedInv'
  BY <1>1, <1>3, <1>8, <1>11 DEF WantedInv
<1>13. AskedInv'
  BY <1>1, <1>3, <1>4, <1>8, <1>9 DEF SettledInv, AskedInv, Busy
\* The address in effect is the one the snapshot has, or a change is under way.
<1>14. ASSUME running = "up", \A c \in Calls : ~Changing(c) PROVE Effective(m.override) = Effective(override)
  <2>1. mem.override = override
    BY <1>6, <1>14 DEF SettledInv, OriginInv
  <2>2. CASE m.override = mem.override
    BY <2>1, <2>2
  <2>3. CASE m.override # mem.override
    <3>1. call[h].op = "server" /\ m.override = call[h].arg
      BY <1>2, <1>9, <2>3
    <3> QED BY <1>4, <1>14, <3>1 DEF SettledInv, OriginInv, Changing
  <2> QED BY <2>2, <2>3
<1>15. OriginInv'
  <2> SUFFICES ASSUME running = "up" PROVE OriginInv'
    BY <1>3 DEF OriginInv
  <2>1. /\ transport = Effective(override) /\ mem.override = override
        /\ \A c \in Calls : call[c].op = "server" =>
             ("changed" \in call[c].has <=> Effective(call[c].arg) # Effective(override))
    BY <1>6 DEF SettledInv, OriginInv
  <2>2. ASSUME NEW c \in Calls, call[c].op = "server", call'[c].pc = "resolved" PROVE m.override = call[c].arg
    BY <1>2, <1>5, <1>6, <1>9, <2>2
  <2>3. m.override # override => \E c \in Calls : call'[c].op = "server" /\ call'[c].pc = "resolved"
    BY <1>2, <1>4, <1>5, <1>9, <2>1
  <2> QED BY <1>1, <1>3, <1>8, <2>1, <2>2, <2>3 DEF OriginInv, Effective
<1>16. IssuerInv' /\ HeadRecords'
  <2>1. IssuerOf(stored) /\ IssuerOf(mem) /\ IssuerOf(next) /\ IssuerOf(m)
    BY <1>2 DEF SettledInv, IssuerInv
  <2>2. /\ IssuerOf(stored)' <=> IssuerOf(stored')
        /\ IssuerOf(mem)' <=> IssuerOf(mem')
        /\ IssuerOf(next)' <=> IssuerOf(next')
    BY DEF IssuerOf, Effective
  <2>3. CASE Turn(t, m, call)
    <3>1. ASSUME t # <<>>, running = "up"
          PROVE  LET r == call[Head(t)]
                 IN  /\ r.op = "server" /\ "changed" \notin r.has => Effective(r.arg) = Effective(m.override)
                     /\ r.op = "register" /\ Same(r, m) => r.origin = Effective(m.override)
      <4>1. Head(t) \in Calls /\ Head(t) # h
        BY <1>4, <3>1
      <4>2. ASSUME call[Head(t)].op = "server", "changed" \notin call[Head(t)].has
            PROVE  Effective(call[Head(t)].arg) = Effective(m.override)
        <5>1. call[h].op # "server"
          BY <1>4, <4>1, <4>2 DEF SettledInv, OneSetting, Settings
        <5>2. m.override = override
          BY <1>6, <1>9, <3>1, <5>1 DEF SettledInv, OriginInv
        <5> QED BY <3>1, <4>1, <4>2, <5>2 DEF SettledInv, OriginInv
      <4>3. ASSUME call[Head(t)].op = "register", Same(call[Head(t)], m)
            PROVE  call[Head(t)].origin = Effective(m.override)
        <5>1. Wanted(Head(t))
          BY <4>3 DEF Wanted, Same
        <5>2. call[Head(t)].origin = transport /\ Effective(m.override) = Effective(override)
          BY <1>11, <1>14, <3>1, <4>1, <5>1
        <5> QED BY <3>1, <5>2 DEF SettledInv, OriginInv
      <4> QED BY <4>2, <4>3
    <3>2. /\ IssuerOf(next')
          /\ LET r == call[Head(t)]
             IN  writing' = "yes" /\ r.op = "register" /\ Same(r, m) => next'.status # "unregistered"
      BY <1>3, <1>4, <2>1, <2>3, <3>1, TurnSettles
    <3>3. HeadRecords'
      <4> SUFFICES ASSUME writing' = "yes", running = "up", Wanted(Head(t))'
                   PROVE  next'.status # "unregistered"
        BY <1>3 DEF HeadRecords, Wanted
      <4>1. t # <<>>
        BY <1>3 DEF Typed
      <4>2. Wanted(Head(t))
        BY <1>4, <1>8, <4>1 DEF Wanted
      <4>3. Same(call[Head(t)], m) /\ call[Head(t)].op = "register"
        BY <1>4, <1>11, <4>1, <4>2 DEF Same, Wanted
      <4> QED BY <3>2, <4>3
    <3> QED BY <1>2, <1>3, <2>1, <2>2, <3>2, <3>3 DEF IssuerInv
  <2>4. CASE writing = "no" /\ UNCHANGED <<writing, next>>
    <3>1. HeadRecords'
      BY <2>4 DEF HeadRecords
    <3> QED BY <1>2, <1>3, <2>1, <2>2, <2>4, <3>1 DEF IssuerInv
  <2> QED BY <1>3, <2>3, <2>4
<1>17. LinkInv'
  BY <1>1, <1>3, <1>8 DEF SettledInv, LinkInv, Saving, Busy, EffectiveWebsite, Effective
<1>18. RecordInv'
  <2>1. ASSUME NEW c \in Calls, Wanted(c), call'[c].pc = "resolved", running = "up"
        PROVE  m.status # "unregistered"
    <3>1. c = h /\ m = next /\ writing = "yes"
      BY <1>2, <1>5, <1>6, <2>1
    <3> QED BY <1>0, <2>1, <3>1 DEF SettledInv, RecordInv, HeadRecords
  <2>2. ASSUME NEW c \in Calls, Wanted(c), "ok" \notin call[c].has, call'[c].pc \in {"queued", "rejected"}
        PROVE  failure = "set" \/ m.status # "unregistered"
    <3>1. call[c].pc = "queued"
      BY <1>5, <1>6, <2>2
    <3>2. failure = "set" \/ mem.status # "unregistered"
      BY <2>2, <3>1 DEF SettledInv, RecordInv
    <3>3. ~Changing(h)
      BY <1>4, <1>11, <2>2
    <3> QED BY <1>9, <3>2, <3>3
  <2> QED BY <1>1, <1>3, <1>8, <1>16, <2>1, <2>2 DEF RecordInv
<1>19. ASSUME "refusal" \notin Ops PROVE DutyInv'
  <2> SUFFICES ASSUME running = "up" PROVE DutyInv'
    BY <1>3 DEF DutyInv
  <2>1. DutyInv
    BY <1>19 DEF SettledInv
  <2>2. \A c \in Calls : call'[c].op \in Settings => call'[c].pc # "rejected"
    <3> SUFFICES ASSUME pc = "rejected", call[h].op \in Settings PROVE FALSE
      BY <1>4, <1>5, <1>6
    <3>1. FailHead
      BY <1>2, <1>3 DEF KeptInv, QueueInv
    <3> QED BY <1>0, <1>19, <3>1 DEF FailHead, MayFail
  <2>3. ASSUME Registers(transport, m), m.status = "unregistered", failure = "null"
        PROVE  \E c \in Calls : Duty(c)'
    <3>1. CASE call[h].op = "consent" \/ Changing(h)
      <4>1. Duty(h)'
        BY <1>4, <1>5, <1>8, <3>1 DEF Duty
      <4> QED BY <1>4, <4>1
    <3>2. CASE call[h].op # "consent" /\ ~Changing(h)
      <4>1. Registers(transport, mem) /\ mem.status = "unregistered"
        BY <1>9, <2>3, <3>2 DEF Registers, Snapshot
      <4>2. PICK c \in Calls : Duty(c)
        BY <2>1, <2>3, <4>1 DEF DutyInv
      <4>3. CASE c # h
        <5>1. Duty(c)'
          BY <1>5, <1>8, <4>2, <4>3 DEF Duty
        <5> QED BY <5>1
      <4>4. CASE c = h
        <5>1. Wanted(h)
          BY <3>2, <4>2, <4>4 DEF Duty
        <5>2. pc = "rejected"
          <6> SUFFICES ASSUME pc = "resolved" PROVE FALSE
            OBVIOUS
          <6>1. m = next /\ writing = "yes"
            BY <1>2
          <6> QED BY <1>0, <2>3, <5>1, <6>1 DEF SettledInv, RecordInv, HeadRecords
        <5>3. Duty(h)'
          BY <1>4, <1>5, <1>8, <5>1, <5>2 DEF Duty
        <5> QED BY <1>4, <5>3
      <4> QED BY <4>3, <4>4
    <3> QED BY <3>1, <3>2
  <2>4. Registers(transport, mem)' <=> Registers(transport, m)
    BY <1>1, <1>3 DEF Registers
  <2> QED BY <1>1, <1>3, <2>2, <2>3, <2>4 DEF DutyInv
<1> QED BY <1>10, <1>12, <1>13, <1>15, <1>16, <1>17, <1>18, <1>19 DEF SettledInv

\* Nobody is under way: what is stored is what is in effect.
Afresh ==
  /\ \A c \in Calls : call[c].op \notin {"consent", "server", "website", "bind"}
  /\ mem = stored /\ next = stored /\ IssuerOf(stored) /\ writing = "no"
  /\ running = "up" => /\ override = mem.override /\ transport = Effective(override)
                       /\ asked = mem.consent
  /\ \A c \in Calls : Wanted(c) => /\ call[c].pc = "challenge" /\ call[c].origin = transport
                                   /\ mem.consent = "granted"
  /\ running = "up" /\ Registers(transport, mem) => \E c \in Calls : Wanted(c)

LEMMA AfreshSettled == (Afresh => SettledInv) /\ (Afresh' => SettledInv')
<1>1. ASSUME Afresh PROVE SettledInv
  <2>1. OneSetting /\ AskedInv /\ LinkInv
    BY <1>1 DEF Afresh, OneSetting, Settings, AskedInv, LinkInv
  <2>2. WantedInv
    BY <1>1 DEF Afresh, WantedInv, Changing
  <2>3. OriginInv
    BY <1>1 DEF Afresh, OriginInv
  <2>4. IssuerInv
    BY <1>1 DEF Afresh, IssuerInv
  <2>5. RecordInv
    BY <1>1 DEF Afresh, RecordInv, HeadRecords
  <2>6. DutyInv
    BY <1>1 DEF Afresh, DutyInv, Duty, Settings
  <2> QED BY <2>1, <2>2, <2>3, <2>4, <2>5, <2>6 DEF SettledInv
<1>2. ASSUME Afresh' PROVE SettledInv'
  <2>1. OneSetting' /\ AskedInv' /\ LinkInv'
    BY <1>2 DEF Afresh, OneSetting, Settings, AskedInv, LinkInv
  <2>2. WantedInv'
    BY <1>2 DEF Afresh, WantedInv, Changing
  <2>3. OriginInv'
    BY <1>2 DEF Afresh, OriginInv
  <2>4. IssuerInv'
    BY <1>2 DEF Afresh, IssuerInv
  <2>5. RecordInv'
    BY <1>2 DEF Afresh, RecordInv, HeadRecords
  <2>6. DutyInv'
    BY <1>2 DEF Afresh, DutyInv, Duty, Settings
  <2> QED BY <2>1, <2>2, <2>3, <2>4, <2>5, <2>6 DEF SettledInv
<1> QED BY <1>1, <1>2

LEMMA LifeSettles ==
  ASSUME Typed, Typed', KeptInv, KeptInv', SettledInv, Boot \/ Dispose \/ Close \/ Crash
  PROVE  SettledInv'
<1>1. /\ call \in [Calls -> Call] /\ queue \in Seq(Calls) /\ writing \in {"yes", "no"}
      /\ (writing = "yes" => queue # <<>>)
  BY DEF Typed, TypeOK, CallsOK
<1>2. Idle.op = "none" /\ Idle.pc = "idle" /\ Idle.has = {}
  BY DEF Idle
<1>3. IssuerOf(stored) /\ IssuerOf(next)
  BY DEF SettledInv, IssuerInv
<1>4. CASE Boot
  <2>1. /\ running \in {"down", "closed"} /\ running' = "up"
        /\ \A c \in Calls : call[c] = Idle
        /\ mem' = stored /\ next' = stored /\ stored' = stored /\ UNCHANGED writing
        /\ override' = stored.override /\ transport' = Effective(stored.override)
        /\ asked' = stored.consent
    BY <1>4 DEF Boot
  <2>2. writing = "no"
    BY <1>1, <2>1 DEF KeptInv, QueueInv
  <2>3. IssuerOf(stored)'
    BY <1>3, <2>1 DEF IssuerOf, Effective
  <2>4. transport' = Effective(override')
    BY <2>1
  <2>5. CASE transport' # None /\ stored.consent = "granted"
    <3>1. PICK c \in Calls : call' = [call EXCEPT ![c] = Registering(transport', {"auto"})]
      BY <1>4, <2>5 DEF Boot
    <3>2. /\ call'[c].op = "register" /\ call'[c].pc = "challenge" /\ call'[c].origin = transport'
          /\ "same" \in call'[c].has
          /\ \A d \in Calls \ {c} : call'[d] = Idle
      BY <1>1, <2>1, <3>1, RegisteringIs DEF Is
    <3>3. Wanted(c)' /\ \A d \in Calls \ {c} : ~Wanted(d)'
      BY <1>2, <3>2 DEF Wanted
    <3>4. Afresh'
      BY <1>2, <2>1, <2>2, <2>3, <2>4, <2>5, <3>2, <3>3 DEF Afresh, Effective
    <3> QED BY <3>4, AfreshSettled
  <2>6. CASE ~(transport' # None /\ stored.consent = "granted")
    <3>1. \A c \in Calls : call'[c] = Idle
      BY <1>4, <2>1, <2>6 DEF Boot
    <3>2. \A c \in Calls : ~Wanted(c)'
      BY <1>2, <3>1 DEF Wanted
    <3>3. ~Registers(transport, mem)'
      BY <2>1, <2>6 DEF Registers
    <3>4. Afresh'
      BY <1>2, <2>1, <2>2, <2>3, <2>4, <3>1, <3>2, <3>3 DEF Afresh, Effective
    <3> QED BY <3>4, AfreshSettled
  <2> QED BY <2>5, <2>6
<1>5. CASE Crash
  <2>1. /\ running' = "down" /\ stored' \in {stored, next} /\ mem' = stored' /\ next' = stored'
        /\ writing' = "no" /\ \A c \in Calls : call'[c] = Idle
    BY <1>5 DEF Crash
  <2>2. IssuerOf(stored)'
    BY <1>3, <2>1 DEF IssuerOf, Effective
  <2>3. \A c \in Calls : ~Wanted(c)'
    BY <1>2, <2>1 DEF Wanted
  <2>4. Afresh'
    BY <1>2, <2>1, <2>2, <2>3 DEF Afresh
  <2> QED BY <2>4, AfreshSettled
<1>6. CASE Dispose \/ Close
  <2>1. /\ running' \in {"disposed", "closed"} /\ UNCHANGED <<asked, stored, mem, next, failure>>
    BY <1>6 DEF Dispose, Close, Unpublished
  <2>2. ASSUME NEW d \in Calls
        PROVE  /\ call'[d].op = call[d].op /\ call'[d].pc = call[d].pc /\ call'[d].arg = call[d].arg
               /\ call'[d].has \subseteq call[d].has
               /\ "ok" \in call[d].has => "ok" \in call'[d].has
    <3>1. call[d] \in Call
      BY <1>1
    <3>2. CASE Dispose
      <4>1. call'[d] = [call[d] EXCEPT !.has = call[d].has \ {"live"}]
        BY <3>2 DEF Dispose
      <4> QED BY <3>1, <4>1 DEF Call
    <3>3. CASE Close
      BY <3>3 DEF Close
    <3> QED BY <1>6, <3>2, <3>3
  <2>3. \A d \in Calls : (Wanted(d)' => Wanted(d)) /\ (Changing(d)' => Changing(d))
    BY <2>2 DEF Wanted, Changing
  <2>4. OneSetting' /\ AskedInv' /\ WantedInv'
    BY <2>1, <2>2, <2>3 DEF SettledInv, OneSetting, AskedInv, WantedInv
  <2>5. OriginInv' /\ LinkInv' /\ DutyInv'
    BY <2>1, <2>2 DEF SettledInv, OriginInv, LinkInv, DutyInv, Saving, Busy
  <2>6. IssuerInv'
    BY <2>1 DEF SettledInv, IssuerInv, IssuerOf, Effective
  <2>7. RecordInv'
    BY <2>1, <2>2, <2>3 DEF SettledInv, RecordInv, HeadRecords
  <2> QED BY <2>4, <2>5, <2>6, <2>7 DEF SettledInv
<1> QED BY <1>4, <1>5, <1>6

LEMMA SettledInit == Init => SettledInv
<1> SUFFICES ASSUME Init PROVE SettledInv
  OBVIOUS
<1>1. \A c \in Calls : call[c].op = "none" /\ ~Wanted(c)
  BY DEF Init, Idle, Wanted
<1>2. mem = stored /\ next = stored /\ writing = "no" /\ stored.status = "unregistered" /\ running = "down"
  BY DEF Init, Fresh
<1>3. Afresh
  BY <1>1, <1>2 DEF Afresh, IssuerOf
<1> QED BY <1>3, AfreshSettled

LEMMA SettledNext ==
  Exclusive /\ Typed /\ KeptInv /\ SettledInv /\ [Next]_vars => SettledInv'
<1> SUFFICES ASSUME Exclusive, Typed, KeptInv, SettledInv, [Next]_vars PROVE SettledInv'
  OBVIOUS
<1>1. Typed' /\ KeptInv'
  BY KeptStep
<1>2. CASE FinishHead \/ FailHead \/ RejectHead
  BY <1>1, <1>2, HeadSettles
<1>3. CASE Boot \/ Dispose \/ Close \/ Crash
  BY <1>1, <1>3, LifeSettles
<1>4. ASSUME NEW c \in Calls,
             \/ SetConsent(c) \/ SetServer(c) \/ SetWebsite(c)
             \/ Register(c) \/ BindLink(c) \/ MarkPoints(c) \/ MarkConsent(c)
      PROVE  SettledInv'
  <2>1. SettledStep(c)
    BY <1>4, SettingsSettle, StartsSettle DEF KeptInv
  <2> QED BY <1>1, <2>1, SettledStepKeeps
<1>5. ASSUME NEW c \in Calls,
             \/ SendDevice(c) \/ RetryWithoutLabel(c) \/ Registered(c) \/ RequestFails(c)
             \/ RegisterContinues(c)
      PROVE  SettledInv'
  BY <1>1, <1>5, RegistrationsSettle, SettledStepKeeps
<1>6. ASSUME NEW c \in Calls,
             \/ ConsentContinues(c) \/ ServerContinues(c) \/ WebsiteContinues(c)
             \/ BindAnswered(c) \/ BindFails(c) \/ MarkContinues(c)
      PROVE  SettledInv'
  <2>1. SettledStep(c)
    BY <1>6, ConsentSettles, ServerSettles, OthersSettle
  <2> QED BY <1>1, <2>1, SettledStepKeeps
<1>7. CASE UNCHANGED vars
  <2>1. OneSetting' /\ AskedInv' /\ WantedInv'
    BY <1>7 DEF vars, SettledInv, OneSetting, AskedInv, WantedInv, Wanted, Changing, Busy
  <2>2. OriginInv' /\ LinkInv'
    BY <1>7 DEF vars, SettledInv, OriginInv, LinkInv, Saving, Busy, EffectiveWebsite, Effective
  <2>3. IssuerInv'
    BY <1>7 DEF vars, SettledInv, IssuerInv, IssuerOf, Effective
  <2>4. RecordInv'
    BY <1>7 DEF vars, SettledInv, RecordInv, HeadRecords, Wanted
  <2>5. DutyInv => DutyInv'
    BY <1>7 DEF vars, DutyInv, Duty, Wanted, Changing, Registers
  <2> QED BY <2>1, <2>2, <2>3, <2>4, <2>5 DEF SettledInv
<1> QED BY <1>2, <1>3, <1>4, <1>5, <1>6, <1>7 DEF Next, Continue

(***************************************************************************)
(* The theorems about the settings when nothing overtakes them.            *)
(***************************************************************************)

LEMMA SettledAlways == Exclusive => (Spec => [](Typed /\ KeptInv /\ SettledInv))
<1> SUFFICES ASSUME Exclusive PROVE Spec => [](Typed /\ KeptInv /\ SettledInv)
  OBVIOUS
<1>1. Init => Typed /\ KeptInv /\ SettledInv
  BY KeptInit, SettledInit
<1>2. Typed /\ KeptInv /\ SettledInv /\ [Next]_vars => (Typed /\ KeptInv /\ SettledInv)'
  BY KeptStep, SettledNext
<1> QED
  BY <1>1, <1>2, PTL DEF Spec

\* The recorded registration is of the server in effect, and requests go there
\* (controller.ts, register and setServerOrigin), when no settings call is overtaken by the
\* start of another one or of a registration: old_server_recorded shows what happens otherwise.
THEOREM OneServer == Exclusive => (Spec => []ServerInEffect)
<1> SUFFICES ASSUME Exclusive PROVE Spec => []ServerInEffect
  OBVIOUS
<1>1. Spec => [](Typed /\ KeptInv /\ SettledInv)
  BY SettledAlways
<1>2. Typed /\ KeptInv /\ SettledInv => ServerInEffect
  BY DEF SettledInv, IssuerInv, IssuerOf, OriginInv, ServerInEffect, IssuerInEffect,
         TransportFollowsOrigin, Busy
<1> QED
  BY <1>1, <1>2, PTL

\* The signed key goes out only under the consent last asked for (controller.ts, register
\* and setConsent), when no settings call is overtaken by the start of another one or of a
\* registration.
THEOREM ConsentGoverns == Exclusive => (Spec => SentWithConsent)
<1> SUFFICES ASSUME Exclusive PROVE Spec => SentWithConsent
  OBVIOUS
<1>1. Typed /\ KeptInv /\ SettledInv /\ [Next]_vars =>
        [\A c \in Calls : call'[c].pc = "devices" /\ call[c].pc # "devices" => asked = "granted"]_vars
  <2> SUFFICES ASSUME Typed, KeptInv, SettledInv, Next, NEW d \in Calls,
                      call'[d].pc = "devices", call[d].pc # "devices"
               PROVE  asked = "granted"
    OBVIOUS
  <2>1. call \in [Calls -> Call] /\ Idle.pc = "idle"
    BY DEF Typed, CallsOK, Idle
  <2>2. \A c \in Calls : OwnStep(c) /\ call'[c].pc # "devices" => FALSE
    <3> SUFFICES ASSUME NEW c \in Calls, OwnStep(c), call'[c].pc # "devices" PROVE FALSE
      OBVIOUS
    <3> QED BY DEF OwnStep, Spares, Rest
  <2>3. CASE FinishHead \/ FailHead \/ RejectHead
    <3>1. PICK pc \in {"resolved", "rejected"} : queue # <<>> /\ call' = [call EXCEPT ![Head(queue)].pc = pc]
      BY <2>3, HeadStepIs DEF HeadGets
    <3>2. Head(queue) \in Calls
      BY <3>1, TailFacts DEF Typed, TypeOK
    <3> QED BY <2>1, <3>1, <3>2 DEF Call
  <2>4. CASE Boot \/ Dispose \/ Close \/ Crash
    <3>1. CASE Boot
      <4>1. \A o : Registering(o, {"auto"}).pc = "challenge"
        BY RegisteringIs DEF Is
      <4> QED BY <2>1, <3>1, <4>1 DEF Boot
    <3>2. CASE Dispose \/ Close \/ Crash
      BY <2>1, <3>2 DEF Dispose, Close, Crash, Call
    <3> QED BY <2>4, <3>1, <3>2
  <2>5. ASSUME NEW c \in Calls,
               \/ SetConsent(c) \/ SetServer(c) \/ SetWebsite(c)
               \/ Register(c) \/ BindLink(c) \/ MarkPoints(c) \/ MarkConsent(c)
        PROVE  FALSE
    <3>1. OwnStep(c)
      BY <2>5, StartsOwn
    <3>2. call'[c].pc \in {"queued", "challenge"}
      BY <2>5, SettingIs, StartIs DEF Is
    <3> QED BY <2>2, <3>1, <3>2
  <2>6. ASSUME NEW c \in Calls,
               \/ SendDevice(c) \/ RetryWithoutLabel(c) \/ Registered(c) \/ RequestFails(c)
               \/ RegisterContinues(c)
        PROVE  asked = "granted"
    <3>1. OwnStep(c)
      BY <2>6, RegisterOwn
    <3>2. call'[c].pc = "devices" => call[c].op = "register" /\ Same(call[c], mem)
      BY <2>1, <2>6, RegisterStepIs DEF Is
    <3>3. Wanted(c) /\ running = "up" /\ mem.consent = "granted"
      BY <2>2, <3>1, <3>2 DEF Wanted, Same
    <3> QED BY <3>3 DEF SettledInv, WantedInv, AskedInv, Busy
  <2>7. ASSUME NEW c \in Calls,
               \/ ConsentContinues(c) \/ ServerContinues(c) \/ WebsiteContinues(c)
               \/ BindAnswered(c) \/ BindFails(c) \/ MarkContinues(c)
        PROVE  FALSE
    <3>1. OwnStep(c)
      BY <2>7, ContinuesOwn DEF KeptInv
    <3>2. \A o, starts : GoesOn(c, o, starts) => call'[c].pc \in {"challenge", "idle"}
      BY <2>1 DEF GoesOn, Is
    <3>3. call'[c].pc \in {"challenge", "idle"}
      <4>1. CASE ConsentContinues(c)
        BY <2>1, <3>2, <4>1, ConsentGoesOn
      <4>2. CASE ServerContinues(c)
        BY <2>1, <3>2, <4>2, ServerGoesOn
      <4>3. CASE WebsiteContinues(c) \/ BindAnswered(c) \/ BindFails(c) \/ MarkContinues(c)
        BY <2>1, <4>3, WebsiteGoesOn, LinkOrMarkGoesOn
      <4> QED BY <2>7, <4>1, <4>2, <4>3
    <3> QED BY <2>2, <3>1, <3>3
  <2> QED BY <2>3, <2>4, <2>5, <2>6, <2>7 DEF Next, Continue
<1>2. Spec => [](Typed /\ KeptInv /\ SettledInv)
  BY SettledAlways
<1> QED
  BY <1>1, <1>2, PTL DEF Spec, SentWithConsent

\* A bind link that is handed out leads to the website in effect with a challenge of the
\* server in effect, whatever was saved meanwhile (controller.ts, bindLink), when no
\* settings call is overtaken by the start of another one or of a registration.
THEOREM LinksMatch == Exclusive => (Spec => LinkMatches)
<1> SUFFICES ASSUME Exclusive PROVE Spec => LinkMatches
  OBVIOUS
<1>1. Typed /\ KeptInv /\ SettledInv /\ [Next]_vars =>
        [link' # link => link' = [website |-> EffectiveWebsite, server |-> Effective(override)]]_vars
  <2> SUFFICES ASSUME Typed, KeptInv, SettledInv, Next, link' # link
               PROVE  link' = [website |-> EffectiveWebsite, server |-> Effective(override)]
    OBVIOUS
  <2>1. ASSUME NEW c \in Calls, BindAnswered(c)
        PROVE  link' = [website |-> EffectiveWebsite, server |-> Effective(override)]
    <3>1. /\ call[c].op = "bind" /\ "same" \in call[c].has /\ "live" \in call[c].has
          /\ link' = [website |-> call[c].arg, server |-> call[c].origin]
      BY <2>1, LinkOrMarkGoesOn
    <3>2. running = "up"
      <4>1. running \notin {"disposed", "closed"}
        BY <3>1 DEF KeptInv, StaysQuiet, DisposedIsQuiet
      <4>2. running # "down"
        BY <3>1 DEF KeptInv, ShapeInv, Idle
      <4> QED BY <4>1, <4>2 DEF Typed, TypeOK
    <3>3. call[c].arg = EffectiveWebsite /\ call[c].origin = Effective(override)
      BY <3>1, <3>2 DEF SettledInv, LinkInv
    <3> QED BY <3>1, <3>3
  <2>2. CASE FinishHead \/ FailHead \/ RejectHead \/ Boot \/ Dispose \/ Close \/ Crash
    BY <2>2, HeadStepIs DEF Boot, Dispose, Close, Crash
  <2>3. ASSUME NEW c \in Calls,
               \/ SetConsent(c) \/ SetServer(c) \/ SetWebsite(c)
               \/ Register(c) \/ BindLink(c) \/ MarkPoints(c) \/ MarkConsent(c)
               \/ SendDevice(c) \/ RetryWithoutLabel(c) \/ Registered(c) \/ RequestFails(c)
               \/ RegisterContinues(c)
        PROVE  FALSE
    BY <2>3, SettingIs, StartIs, RegisterStepIs
  <2>4. ASSUME NEW c \in Calls,
               \/ ConsentContinues(c) \/ ServerContinues(c) \/ WebsiteContinues(c)
               \/ BindFails(c) \/ MarkContinues(c)
        PROVE  FALSE
    BY <2>4 DEF ConsentContinues, ServerContinues, WebsiteContinues, BindFails, MarkContinues
  <2> QED BY <2>1, <2>2, <2>3, <2>4 DEF Next, Continue
<1>2. Spec => [](Typed /\ KeptInv /\ SettledInv)
  BY SettledAlways
<1> QED
  BY <1>1, <1>2, PTL DEF Spec, LinkMatches

\* With consent, a server and a store that takes every setting, a plugin with nothing left
\* to do has registered or kept why it could not (controller.ts, startRegistration), when no
\* settings call is overtaken by the start of another one or of a registration.
THEOREM NothingForgotten ==
  Exclusive /\ "refusal" \notin Ops => (Spec => []NeverForgetsToRegister)
<1> SUFFICES ASSUME Exclusive, "refusal" \notin Ops PROVE Spec => []NeverForgetsToRegister
  OBVIOUS
<1>1. Spec => [](Typed /\ KeptInv /\ SettledInv)
  BY SettledAlways
<1>2. Typed /\ KeptInv /\ SettledInv => NeverForgetsToRegister
  <2> SUFFICES ASSUME Typed, KeptInv, SettledInv, Quiet, Registers(transport, mem),
                      mem.status = "unregistered", failure # "set"
               PROVE  FALSE
    BY DEF NeverForgetsToRegister
  <2>1. running = "up" /\ failure = "null" /\ \A c \in Calls : call[c] = Idle
    BY DEF Quiet, KeptInv, ShapeInv, Typed, TypeOK
  <2>2. PICK c \in Calls : Duty(c)
    BY <2>1 DEF SettledInv, DutyInv
  <2> QED BY <2>1, <2>2 DEF Duty, Wanted, Changing, Idle
<1> QED
  BY <1>1, <1>2, PTL

(***************************************************************************)
(* The settings as a register.                                             *)
(***************************************************************************)

\* What an update must know of the snapshot it is applied to.
FitsTo(r, m) ==
  /\ r.op = "server" => ("changed" \in r.has <=> Effective(r.arg) # Effective(m.override))
  /\ r.op = "register" /\ "same" \in r.has => r.origin = Effective(m.override)
  /\ r.op = "mark" => m.mark = None

\* An update is one of the operations of the register.
LEMMA UpdateChanges ==
  ASSUME NEW r \in Call, ArgOK(r), NEW c \in Calls, NEW m \in Snapshot, FitsTo(r, m)
  PROVE  Durable!Changes(m, Update(r, c, m))
<1> DEFINE n == Update(r, c, m)
<1>1. Durable!InEffect(m) = Effective(m.override)
  BY DEF Durable!InEffect, Effective
<1>2. CASE r.op = "consent"
  <2>1. n = [m EXCEPT !.consent = r.arg] /\ r.arg \in {"granted", "withheld"}
    BY <1>2 DEF Update, ArgOK, Consent
  <2> QED BY <2>1 DEF Durable!Changes, Durable!Consents
<1>3. CASE r.op = "server"
  <2> DEFINE moved == [m EXCEPT !.override = r.arg]
  <2>1. r.arg \in Servers \cup {None}
    BY <1>3 DEF ArgOK, OptServer
  <2>2. moved.override = r.arg /\ Durable!InEffect(moved) = Effective(r.arg)
    BY DEF Durable!InEffect, Effective, Snapshot
  <2>3. n = IF Durable!InEffect(moved) = Durable!InEffect(m) THEN moved
            ELSE [moved EXCEPT !.status = "unregistered", !.issuer = None]
    <3>1. CASE "changed" \in r.has
      <4>1. n = [m EXCEPT !.override = r.arg, !.status = "unregistered", !.issuer = None]
        BY <1>3, <3>1 DEF Update
      <4> QED BY <1>1, <1>3, <2>2, <3>1, <4>1 DEF FitsTo
    <3>2. CASE "changed" \notin r.has
      BY <1>1, <1>3, <2>2, <3>2 DEF FitsTo, Update
    <3> QED BY <3>1, <3>2
  <2> HIDE DEF n
  <2>4. Durable!Moves(m, n)
    BY <2>1, <2>3 DEF Durable!Moves
  <2> QED BY <2>4 DEF Durable!Changes, n
<1>4. CASE r.op = "website"
  <2>1. n = [m EXCEPT !.website = r.arg] /\ r.arg \in Websites \cup {None}
    BY <1>4 DEF Update, ArgOK, OptWebsite
  <2> QED BY <2>1 DEF Durable!Changes, Durable!Visits
<1>5. CASE r.op = "register"
  <2>1. CASE ~Same(r, m)
    BY <1>5, <2>1 DEF Update, Durable!Changes
  <2>2. CASE Same(r, m)
    <3>1. m.consent = "granted" /\ r.origin = Durable!InEffect(m)
      BY <1>1, <1>5, <2>2 DEF Same, FitsTo
    <3>2. \/ n = [m EXCEPT !.status = "registered", !.issuer = r.origin]
          \/ n = [m EXCEPT !.status = "failed"]
      BY <1>5, <2>2 DEF Update
    <3> HIDE DEF n
    <3>3. Durable!Registers(m, n)
      BY <3>1, <3>2 DEF Durable!Registers
    <3> QED BY <3>3 DEF Durable!Changes, n
  <2> QED BY <2>1, <2>2
<1>6. CASE r.op = "points"
  <2>1. n = [m EXCEPT !.points = c]
    BY <1>6 DEF Update
  <2> QED BY <2>1 DEF Durable!Changes, Durable!Marks
<1>7. CASE r.op = "mark"
  <2>1. n = [m EXCEPT !.mark = c] /\ m.mark = None
    BY <1>7 DEF Update, FitsTo
  <2> QED BY <2>1 DEF Durable!Changes, Durable!Marks
<1>8. CASE r.op \in {"none", "bind"}
  BY <1>8 DEF Update, Durable!Changes
<1> QED BY <1>2, <1>3, <1>4, <1>5, <1>6, <1>7, <1>8 DEF Call

\* Who waits in the chain fits to what is published.
LEMMA QueuedFits ==
  ASSUME KeptInv', SettledInv', running' = "up", NEW c \in Calls, call'[c].pc = "queued"
  PROVE  FitsTo(call'[c], mem')
<1>1. /\ transport' = Effective(override')
      /\ \A d \in Calls : call'[d].op = "server" =>
           /\ "changed" \in call'[d].has <=> Effective(call'[d].arg) # Effective(override')
           /\ call'[d].pc = "resolved" => mem'.override = call'[d].arg
      /\ mem'.override # override' => \E d \in Calls : call'[d].op = "server" /\ call'[d].pc = "resolved"
  BY DEF SettledInv, OriginInv, Effective
<1>2. ASSUME call'[c].op = "server"
      PROVE  "changed" \in call'[c].has <=> Effective(call'[c].arg) # Effective(mem'.override)
  <2>1. \A d \in Calls : call'[d].op = "server" => d = c
    BY <1>2 DEF SettledInv, OneSetting, Settings
  <2>2. mem'.override = override'
    BY <1>1, <2>1
  <2> QED BY <1>1, <1>2, <2>2
<1>3. ASSUME call'[c].op = "register", "same" \in call'[c].has
      PROVE  call'[c].origin = Effective(mem'.override)
  <2>1. Wanted(c)'
    BY <1>3 DEF Wanted
  <2>2. call'[c].origin = transport' /\ \A d \in Calls : ~Changing(d)'
    BY <2>1 DEF SettledInv, WantedInv
  <2>3. CASE mem'.override = override'
    BY <1>1, <2>2, <2>3
  <2>4. CASE mem'.override # override'
    <3>1. PICK d \in Calls : call'[d].op = "server" /\ mem'.override = call'[d].arg
      BY <1>1, <2>4
    <3>2. "changed" \notin call'[d].has
      BY <2>2, <3>1 DEF Changing
    <3> QED BY <1>1, <2>2, <3>1, <3>2
  <2> QED BY <2>3, <2>4
<1>4. call'[c].op = "mark" => mem'.mark = None
  BY DEF KeptInv, MarkInv
<1> QED BY <1>2, <1>3, <1>4 DEF FitsTo

\* A write that begins is the update of the new head, on what is published then.
LEMMA WriteBegins ==
  ASSUME Typed, Typed', KeptInv, Next, writing' = "yes"
  PROVE  \/ writing = "yes" /\ UNCHANGED <<mem, next>>
         \/ /\ running = "up" /\ running' = "up" /\ mem' \in Snapshot
            /\ \E h \in Calls : /\ call'[h].pc = "queued" /\ call'[h] \in Call /\ ArgOK(call'[h])
                                /\ next' = Update(call'[h], h, mem')
<1>0. /\ queue \in Seq(Calls) /\ (writing = "yes" => queue # <<>>) /\ CallsOK(call) /\ CallsOK(call')
      /\ mem \in Snapshot /\ mem' \in Snapshot /\ writing \in {"yes", "no"}
  BY DEF Typed, TypeOK
<1>1. CASE FinishHead \/ FailHead \/ RejectHead
  <2>1. PICK pc, m : HeadGets(pc, m)
    BY <1>1, HeadStepIs
  <2>2. queue # <<>> /\ mem' = m /\ running' = running /\ Turn(Tail(queue), m, call)
    BY <1>0, <2>1 DEF HeadGets
  <2>3. /\ Head(queue) = queue[1] /\ Head(queue) \in Calls /\ Tail(queue) \in Seq(Calls)
        /\ Len(queue) \in Nat /\ Len(queue) >= 1
        /\ \A i \in 1..Len(queue) : queue[i] \in Calls
        /\ Tail(queue) # <<>> => Head(Tail(queue)) = queue[2] /\ Len(queue) >= 2
    BY <1>0, <2>2, TailFacts
  <2>4. Tail(queue) # <<>> /\ running = "up" /\ next' = Update(call[queue[2]], queue[2], mem')
    BY <1>0, <2>2, <2>3, TurnNext
  <2>5. 1 \in 1..Len(queue) /\ 2 \in 1..Len(queue) /\ queue[2] \in Calls /\ queue[2] # queue[1]
        /\ call[queue[2]].pc = "queued"
    BY <2>3, <2>4 DEF KeptInv, QueueInv
  <2>6. call'[queue[2]] = call[queue[2]]
    BY <1>0, <2>1, <2>3, <2>5 DEF HeadGets, CallsOK
  <2> QED BY <1>0, <2>2, <2>4, <2>5, <2>6 DEF CallsOK
<1>2. CASE Boot \/ Dispose \/ Close \/ Crash
  BY <1>0, <1>2 DEF Boot, Dispose, Close, Crash, Unpublished, KeptInv, QueueInv
<1>3. ASSUME NEW c \in Calls, OwnStep(c)
      PROVE  \/ writing = "yes" /\ UNCHANGED <<mem, next>>
             \/ /\ running = "up" /\ running' = "up"
                /\ call'[c].pc = "queued" /\ next' = Update(call'[c], c, mem')
  <2>1. CASE Unpublished \/ queue # <<>>
    BY <1>3, <2>1 DEF OwnStep, Unpublished, Enters
  <2>2. CASE ~Unpublished /\ queue = <<>>
    <3>1. Enters(c) /\ running = "up" /\ running' = "up" /\ mem' = mem /\ Turn(<<c>>, mem, call')
      BY <1>3, <2>2 DEF OwnStep, Enters
    <3>2. <<c>> \in Seq(Calls) /\ <<c>> # <<>> /\ Head(<<c>>) = c
      OBVIOUS
    <3>3. next' = Update(call'[c], c, mem)
      BY <1>0, <3>1, <3>2, TurnNext
    <3> QED BY <3>1, <3>3 DEF Enters
  <2> QED BY <2>1, <2>2
<1>4. ASSUME NEW c \in Calls,
             \/ SetConsent(c) \/ SetServer(c) \/ SetWebsite(c)
             \/ Register(c) \/ BindLink(c) \/ MarkPoints(c) \/ MarkConsent(c)
             \/ SendDevice(c) \/ RetryWithoutLabel(c) \/ Registered(c) \/ RequestFails(c)
             \/ RegisterContinues(c)
             \/ ConsentContinues(c) \/ ServerContinues(c) \/ WebsiteContinues(c)
             \/ BindAnswered(c) \/ BindFails(c) \/ MarkContinues(c)
      PROVE  OwnStep(c)
  BY <1>4, StartsOwn, RegisterOwn, ContinuesOwn DEF KeptInv
<1>5. ASSUME NEW c \in Calls, OwnStep(c)
      PROVE  \/ writing = "yes" /\ UNCHANGED <<mem, next>>
             \/ /\ running = "up" /\ running' = "up" /\ mem' \in Snapshot
                /\ \E h \in Calls : /\ call'[h].pc = "queued" /\ call'[h] \in Call /\ ArgOK(call'[h])
                                    /\ next' = Update(call'[h], h, mem')
  BY <1>0, <1>3, <1>5 DEF CallsOK
<1> QED BY <1>1, <1>2, <1>4, <1>5 DEF Next, Continue

\* What is with the store is one operation on what is published.
ApplyInv == writing = "yes" => Durable!Changes(mem, next)

LEMMA ApplyStep ==
  ASSUME Exclusive, Typed, KeptInv, SettledInv, ApplyInv, [Next]_vars
  PROVE  ApplyInv'
<1>1. Typed' /\ KeptInv' /\ SettledInv'
  BY KeptStep, SettledNext
<1> SUFFICES ASSUME writing' = "yes" PROVE Durable!Changes(mem', next')
  BY DEF ApplyInv, Durable!Changes, Durable!Consents, Durable!Visits, Durable!Moves, Durable!Registers,
         Durable!Marks, Durable!InEffect
<1>2. CASE UNCHANGED vars
  BY <1>2 DEF ApplyInv, vars
<1>3. CASE Next
  <2>1. CASE writing = "yes" /\ UNCHANGED <<mem, next>>
    BY <2>1 DEF ApplyInv
  <2>2. CASE ~(writing = "yes" /\ UNCHANGED <<mem, next>>)
    <3>1. PICK h \in Calls : /\ running' = "up" /\ mem' \in Snapshot
                             /\ call'[h].pc = "queued" /\ call'[h] \in Call /\ ArgOK(call'[h])
                             /\ next' = Update(call'[h], h, mem')
      BY <1>1, <1>3, <2>2, WriteBegins
    <3>2. FitsTo(call'[h], mem')
      BY <1>1, <3>1, QueuedFits
    <3> QED BY <3>1, <3>2, UpdateChanges
  <2> QED BY <2>1, <2>2
<1> QED BY <1>2, <1>3

\* A step of the controller is a step of the register, or one that it does not see.
LEMMA RegisterSees ==
  ASSUME Typed, KeptInv, ApplyInv, [Next]_vars
  PROVE  [Durable!Next]_(Durable!vars)
<1> USE DEF Durable!vars, Durable!Next
<1>1. CASE FinishHead
  <2>1. writing = "yes" /\ stored' = next /\ mem' = next
    BY <1>1 DEF FinishHead
  <2> QED BY <2>1 DEF ApplyInv, Durable!Commit
<1>2. CASE FailHead
  <2>1. writing = "yes" /\ stored' \in {stored, next} /\ mem' = mem
    BY <1>2 DEF FailHead, MayFail
  <2> QED BY <2>1 DEF ApplyInv, Durable!Doubt
<1>3. CASE RejectHead
  BY <1>3 DEF RejectHead
<1>4. CASE Boot
  BY <1>4 DEF Boot, Durable!Restart
<1>5. CASE Crash
  <2>1. mem' = stored' /\ (stored' = stored \/ (writing = "yes" /\ stored' = next))
    BY <1>5 DEF Crash
  <2> QED BY <2>1 DEF ApplyInv, Durable!Commit, Durable!Restart
<1>6. CASE Dispose \/ Close
  BY <1>6 DEF Dispose, Close, Unpublished
<1>7. ASSUME NEW c \in Calls,
             \/ SetConsent(c) \/ SetServer(c) \/ SetWebsite(c)
             \/ Register(c) \/ BindLink(c) \/ MarkPoints(c) \/ MarkConsent(c)
             \/ SendDevice(c) \/ RetryWithoutLabel(c) \/ Registered(c) \/ RequestFails(c)
             \/ RegisterContinues(c)
             \/ ConsentContinues(c) \/ ServerContinues(c) \/ WebsiteContinues(c)
             \/ BindAnswered(c) \/ BindFails(c) \/ MarkContinues(c)
      PROVE  UNCHANGED <<stored, mem>>
  <2>1. OwnStep(c)
    BY <1>7, StartsOwn, RegisterOwn, ContinuesOwn DEF KeptInv
  <2> QED BY <2>1 DEF OwnStep, Unpublished, Enters
<1>8. CASE UNCHANGED vars
  BY <1>8 DEF vars
<1> QED BY <1>1, <1>2, <1>3, <1>4, <1>5, <1>6, <1>7, <1>8 DEF Next, Continue

\* While no setting overtakes another, the controller implements the register: through failures of
\* the store, dispose() and crashes each write is one operation on what is published, and a
\* registration is recorded only under consent and for the server in effect.
THEOREM Implements == Exclusive => (Spec => SettingsAreDurable)
<1> SUFFICES ASSUME Exclusive PROVE Spec => SettingsAreDurable
  OBVIOUS
<1>1. Spec => [](Typed /\ KeptInv /\ SettledInv)
  BY SettledAlways
<1>2. Init => ApplyInv /\ Durable!Init
  BY DEF Init, ApplyInv, Durable!Init, Fresh, Durable!Fresh
<1>3. Typed /\ KeptInv /\ SettledInv /\ ApplyInv /\ [Next]_vars => ApplyInv'
  BY ApplyStep
<1>4. Typed /\ KeptInv /\ ApplyInv /\ [Next]_vars => [Durable!Next]_(Durable!vars)
  BY RegisterSees
<1> QED
  BY <1>1, <1>2, <1>3, <1>4, PTL DEF Spec, SettingsAreDurable, Durable!Spec
=============================================================================
