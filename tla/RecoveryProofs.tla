---------------------------- MODULE RecoveryProofs ----------------------------
(***************************************************************************)
(* Type correctness of Recovery; that the binding shown was read from the  *)
(* server in effect; that nothing is sent without consent; and that there  *)
(* is one recovery at a time, whose end can be seen: for any number of     *)
(* calls, servers and principals.                                          *)
(*                                                                         *)
(* A call may be overtaken by a setting at any time.  What it can still do *)
(* then is little: a call that waits for the store without the generations *)
(* it captured is followed, in the chain, by the setting that took them    *)
(* (BehindInv), and that setting registers the device again or is refused  *)
(* and says so.  A recovery that has them is the one in flight (FlightInv).*)
(***************************************************************************)
EXTENDS Recovery, TLAPS

Captured == {"server", "again"}

\* What is true of a call whatever the others do: how its operation and its step agree,
\* and what its arguments and its answer are then.
Form(r) ==
  /\ r.pc = "idle" <=> r.op = "none"
  /\ r.pc = "setting" <=> r.op \in Settings
  /\ r.op = "register" => r.pc \in {"register", "record", "unrecord"}
  /\ r.op = "refresh" => r.origin \in Servers
  /\ r.op = "server" => r.arg \in Servers
  /\ r.op = "consent" => r.arg \in Consent
  /\ r.pc = "register" => r.arg \in Servers
  /\ r.pc \in Requests /\ r.answer.kind = "ok" => r.answer.who \in Principals
  /\ r.pc = "record" => r.answer.who \in Principals
  /\ "signing" \in r.has => r.pc \in {"usage", "verify", "confirm"} /\ r.answer = NoAnswer
  /\ "writing" \in r.has => r.pc \in Writes

\* A request over a transport that is not disposed goes to the server in effect.
Live(r) ==
  r.op = "refresh" /\ "live" \in r.has /\ r.pc \notin Writes \cup {"register"} => r.origin = transport

CallInv == \A c \in Calls : Form(call[c]) /\ Live(call[c])

\* The chain has each call that waits for the store, once; its head may be writing.
QueueInv ==
  /\ \A i, j \in 1..Len(queue) : queue[i] = queue[j] => i = j
  /\ \A c \in Calls : call[c].pc \in Writes <=> \E i \in 1..Len(queue) : queue[i] = c
  /\ \A c \in Calls : "writing" \in call[c].has => queue # <<>> /\ c = Head(queue)

Setting(c) == call[c].op \in Settings
OneSetting == \A c, d \in Calls : Setting(c) /\ Setting(d) => c = d

\* A call that waits for the store and has lost what it captured is before the setting
\* that took it.
BehindInv ==
  /\ \A i, j \in 1..Len(queue) : j < i /\ Setting(queue[j]) => Captured \subseteq call[queue[i]].has
  /\ \A c \in Calls : call[c].pc \in Writes /\ ~Setting(c) /\ ~(Captured \subseteq call[c].has) =>
       \E d \in Calls : Setting(d)

\* What a current call has given to the store was kept, and a registration has a principal.
RecordInv ==
  /\ \A c \in Calls : "writing" \in call[c].has /\ CurrentRecovery(c) => "kept" \in call[c].has
  /\ status = "registered" => principal # None

\* A client without a registration has somebody at it, or says why it has none.
AtIt(c) == Captured \subseteq call[c].has /\ call[c].pc \in {"revalidate", "register", "record"}
DutyInv ==
  principal = None /\ consent = "granted" /\ ~refused =>
    \/ failure = "set" \/ recovery \in {"failed", "blocked"}
    \/ \E c \in Calls : Setting(c) \/ AtIt(c)

IInv == /\ TypeOK /\ CallInv /\ QueueInv /\ OneSetting /\ BehindInv /\ RecordInv /\ DutyInv
        /\ ReadFromServerInEffect

\* The rest holds when nothing starts while a server is saved.
Mends(c) == call[c].op = "refresh" /\ call[c].pc \in Recovering /\ Captured \subseteq call[c].has
NoneSurvives == \A c, d \in Calls : call[d].op = "server" => "server" \notin call[c].has
FlightInv == \A c \in Calls : Mends(c) => flight = c
BlameInv == \A c \in Calls : Mends(c) /\ call[c].pc = "blame" => recovery # "checking"
CheckingInv ==
  recovery = "checking" =>
    /\ consent = "granted" /\ ~refused => \E c \in Calls : Mends(c) \/ call[c].op = "server"
    /\ (\E d \in Calls : call[d].op = "consent") => consent = "granted" /\ \E c \in Calls : Mends(c)
SingleInv == NoneSurvives /\ FlightInv /\ BlameInv /\ CheckingInv

(***************************************************************************)
(* What the operators make of a call.                                      *)
(***************************************************************************)

Answers == [kind : {"none", "ok", "unknown", "revoked"}, who : Principals \cup {None}]
Args == Calls \cup Consent \cup Servers \cup {None}

LEMMA CallFields ==
  ASSUME NEW r \in Call
  PROVE  /\ r.op \in {"none", "refresh", "register"} \cup Settings /\ r.pc \in Steps
         /\ r.arg \in Args /\ r.origin \in Servers \cup {None} /\ r.answer \in Answers
         /\ r.has \in SUBSET Flags
BY DEF Call, Args, Answers

LEMMA IdleIs ==
  /\ Idle \in Call /\ Idle.op = "none" /\ Idle.pc = "idle" /\ Idle.arg = None /\ Idle.origin = None
  /\ Idle.answer = NoAnswer /\ Idle.has = {}
BY DEF Idle, Call, NoAnswer, Steps

LEMMA AskIs ==
  ASSUME NEW r \in Call, NEW pc \in {"usage", "verify", "confirm"}
  PROVE  /\ Ask(r, pc) \in Call /\ Ask(r, pc).op = r.op /\ Ask(r, pc).pc = pc
         /\ Ask(r, pc).origin = r.origin /\ Ask(r, pc).answer = NoAnswer
         /\ Ask(r, pc).has = r.has \cup Signing
<1> DEFINE has == r.has \cup Signing
<1>1. has \in SUBSET Flags
  BY CallFields DEF Signing, Flags
<1>2. Ask(r, pc) = [r EXCEPT !.pc = pc, !.arg = None, !.answer = NoAnswer, !.has = has]
  BY DEF Ask, Call
<1>4. /\ pc \in Steps
      /\ NoAnswer \in [kind : {"none", "ok", "unknown", "revoked"}, who : Principals \cup {None}]
  BY DEF Steps, Requests, NoAnswer
<1> HIDE DEF has
<1>3. /\ Ask(r, pc) \in Call /\ Ask(r, pc).op = r.op /\ Ask(r, pc).pc = pc
      /\ Ask(r, pc).origin = r.origin /\ Ask(r, pc).answer = NoAnswer /\ Ask(r, pc).has = has
  BY <1>1, <1>2, <1>4 DEF Call
<1> QED BY <1>3 DEF has

LEMMA QueuedIs ==
  ASSUME NEW r \in Call, NEW pc \in Writes
  PROVE  /\ Queued(r, pc) \in Call /\ Queued(r, pc).op = r.op /\ Queued(r, pc).pc = pc
         /\ Queued(r, pc).arg = r.arg /\ Queued(r, pc).origin = r.origin
         /\ pc = "record" => Queued(r, pc).answer = r.answer
         /\ Queued(r, pc).has = r.has \ {"signing", "writing", "kept"}
<1> DEFINE answer == IF pc = "record" THEN r.answer ELSE NoAnswer
           has == r.has \ {"signing", "writing", "kept"}
<1>1. Queued(r, pc) = [r EXCEPT !.pc = pc, !.answer = answer, !.has = has]
  BY DEF Queued, Call
<1>2. answer \in [kind : {"none", "ok", "unknown", "revoked"}, who : Principals \cup {None}]
  BY DEF Call, NoAnswer
<1>3. has \in SUBSET Flags /\ pc \in Steps
  BY CallFields DEF Steps
<1>4. pc = "record" => answer = r.answer
  OBVIOUS
<1> HIDE DEF answer, has
<1>5. /\ Queued(r, pc) \in Call /\ Queued(r, pc).op = r.op /\ Queued(r, pc).pc = pc
      /\ Queued(r, pc).arg = r.arg /\ Queued(r, pc).origin = r.origin
      /\ Queued(r, pc).answer = answer /\ Queued(r, pc).has = has
  BY <1>1, <1>2, <1>3 DEF Call
<1> QED BY <1>4, <1>5 DEF has

LEMMA RegisteringIs ==
  ASSUME TypeOK, NEW r \in Call
  PROVE  /\ Registering(r) \in Call /\ Registering(r).op = r.op /\ Registering(r).pc = "register"
         /\ Registering(r).arg = transport /\ Registering(r).origin = r.origin
         /\ Registering(r).answer = NoAnswer
         /\ Registering(r).has = (r.has \ {"writing", "kept"}) \cup {"live"}
BY CallFields DEF Registering, Call, NoAnswer, Steps, Requests, Flags, TypeOK

\* What a recovery that ends leaves of its call: nothing, or a request for the contributions.
Returns(c, result, r) ==
  /\ r \in Call /\ r.op \in {"none", call[c].op}
  /\ r.op = "none" => r = Idle
  /\ r.op # "none" => /\ CurrentRefresh(c) /\ r.pc = "usage" /\ r.answer = NoAnswer
                      /\ "writing" \notin r.has /\ (Signing = {} \/ "signing" \in r.has)
                      /\ \/ r.origin = transport
                         \/ result /\ r.origin = call[c].origin
                            /\ ("live" \in r.has => "live" \in call[c].has)

LEMMA ResumedIs ==
  ASSUME TypeOK, NEW c \in Calls, NEW result \in BOOLEAN, call[c].op # "none"
  PROVE  Returns(c, result, Resumed(c, result))
<1> DEFINE retry == "retry" \in call[c].has
           kept == call[c].has \ {"retry", "again", "signing", "writing", "kept"}
           first == [call[c] EXCEPT !.origin = transport, !.has = kept \cup {"live"}]
           once == [call[c] EXCEPT !.has = kept \cup {"second"}]
<1>1. call[c] \in Call /\ transport \in Servers /\ kept \in SUBSET Flags
  BY CallFields DEF TypeOK
<1>2. first \in Call /\ first.op = call[c].op /\ first.origin = transport /\ first.has = kept \cup {"live"}
  BY <1>1 DEF Call, Flags
<1>3. once \in Call /\ once.op = call[c].op /\ once.origin = call[c].origin /\ once.has = kept \cup {"second"}
  BY <1>1 DEF Call, Flags
<1>4. Resumed(c, result) = IF CurrentRefresh(c) /\ (IF retry THEN ~(ready /\ fresh) ELSE result)
                           THEN Ask(IF retry THEN first ELSE once, "usage") ELSE Idle
  BY DEF Resumed
<1>5. "writing" \notin first.has /\ "writing" \notin once.has /\ ("live" \in once.has => "live" \in call[c].has)
  BY <1>2, <1>3
<1>6. Signing = {} \/ "signing" \in Signing
  BY DEF Signing
<1>10. "live" \notin Signing /\ "writing" \notin Signing
  BY DEF Signing
<1> HIDE DEF kept, first, once
<1>7. CASE CurrentRefresh(c) /\ retry /\ Resumed(c, result) = Ask(first, "usage")
  <2> DEFINE r == Ask(first, "usage")
  <2>1. /\ r \in Call /\ r.op = call[c].op /\ r.pc = "usage" /\ r.origin = transport /\ r.answer = NoAnswer
        /\ r.has = first.has \cup Signing
    BY <1>2, AskIs
  <2> HIDE DEF r
  <2>2. Returns(c, result, r)
    BY <2>1, <1>5, <1>6, <1>7, <1>10 DEF Returns
  <2> QED BY <1>7, <2>2 DEF r
<1>8. CASE CurrentRefresh(c) /\ ~retry /\ result /\ Resumed(c, result) = Ask(once, "usage")
  <2> DEFINE r == Ask(once, "usage")
  <2>1. /\ r \in Call /\ r.op = call[c].op /\ r.pc = "usage" /\ r.origin = call[c].origin /\ r.answer = NoAnswer
        /\ r.has = once.has \cup Signing
    BY <1>3, AskIs
  <2> HIDE DEF r
  <2>2. Returns(c, result, r)
    BY <2>1, <1>5, <1>6, <1>8, <1>10 DEF Returns
  <2> QED BY <1>8, <2>2 DEF r
<1>9. CASE Resumed(c, result) = Idle
  BY <1>9, IdleIs DEF Returns
<1> QED BY <1>4, <1>7, <1>8, <1>9

\* The calls beside the one that takes a step: what they captured is taken, or they are told.
Stays(d) ==
  /\ call'[d].op = call[d].op /\ call'[d].origin = call[d].origin
  /\ call'[d].has \subseteq call[d].has
  /\ "kept" \in call[d].has => "kept" \in call'[d].has
  /\ \/ call'[d].pc = call[d].pc /\ call'[d].arg = call[d].arg /\ call'[d].answer = call[d].answer
     \/ call[d].pc = "joined" /\ call'[d].pc = "told"

LEMMA ToldIs ==
  ASSUME TypeOK, NEW c \in Calls, NEW result \in BOOLEAN, NEW d \in Calls
  PROVE  /\ Told(c, result)[d] \in Call
         /\ Told(c, result)[d].op = call[d].op /\ Told(c, result)[d].origin = call[d].origin
         /\ Told(c, result)[d].has = call[d].has
         /\ \/ Told(c, result)[d] = call[d]
            \/ call[d].pc = "joined" /\ Told(c, result)[d].pc = "told"
<1> DEFINE answer == [call[d].answer EXCEPT !.kind = IF result THEN "ok" ELSE "unknown"]
           told == [call[d] EXCEPT !.pc = "told", !.arg = None, !.answer = answer]
<1>1. call[d] \in Call /\ call[d].answer \in Answers
  BY CallFields DEF TypeOK
<1>2. Told(c, result)[d] = IF call[d].pc = "joined" /\ call[d].arg = c THEN told ELSE call[d]
  BY DEF Told
<1>3. answer \in [kind : {"none", "ok", "unknown", "revoked"}, who : Principals \cup {None}]
  BY <1>1 DEF Answers
<1> HIDE DEF answer
<1>4. told \in Call /\ told.op = call[d].op /\ told.origin = call[d].origin /\ told.has = call[d].has
      /\ told.pc = "told"
  BY <1>1, <1>3 DEF Call, Steps
<1> HIDE DEF told
<1> QED BY <1>1, <1>2, <1>4

Others(c) == call' \in [Calls -> Call] /\ \A d \in Calls \ {c} : Stays(d)
Unbumped(c) == \A d \in Calls \ {c} : call'[d].has = call[d].has

LEMMA EndsIs ==
  ASSUME TypeOK, NEW c \in Calls, NEW result \in BOOLEAN, call[c].op # "none", RecoveryEnds(c, result)
  PROVE  /\ Others(c) /\ Unbumped(c) /\ Returns(c, result, call'[c])
         /\ ready' \in BOOLEAN /\ flight' = (IF flight = c THEN None ELSE flight)
         /\ UNCHANGED <<fresh, bound>>
<1>1. call' = [Told(c, result) EXCEPT ![c] = Resumed(c, result)]
  BY DEF RecoveryEnds
<1>2. Told(c, result) \in [Calls -> Call]
  <2>1. Told(c, result) = [d \in Calls |-> Told(c, result)[d]]
    BY DEF Told
  <2> QED BY <2>1, ToldIs
<1>3. Returns(c, result, Resumed(c, result))
  BY ResumedIs
<1>4. Resumed(c, result) \in Call
  BY <1>3 DEF Returns
<1>5. /\ call' \in [Calls -> Call] /\ call'[c] = Resumed(c, result)
      /\ \A d \in Calls \ {c} : call'[d] = Told(c, result)[d]
  BY <1>1, <1>2, <1>4
<1>6. \A d \in Calls \ {c} : Stays(d) /\ call'[d].has = call[d].has
  BY <1>5, ToldIs DEF Stays
<1>7. ready' \in BOOLEAN /\ flight' = (IF flight = c THEN None ELSE flight) /\ UNCHANGED <<fresh, bound>>
  BY DEF RecoveryEnds, TypeOK
<1>8. Returns(c, result, call'[c])
  BY <1>3, <1>5
<1> QED BY <1>5, <1>6, <1>7, <1>8 DEF Others, Unbumped

(***************************************************************************)
(* The chain.                                                              *)
(***************************************************************************)

InTurn(c) == queue # <<>> /\ c = Head(queue)

\* A call joins the chain at its end.
LEMMA AppendKeeps ==
  ASSUME TypeOK, QueueInv, NEW c \in Calls, Others(c), queue' = Append(queue, c),
         call[c].pc \notin Writes, call'[c].pc \in Writes, "writing" \notin call'[c].has
  PROVE  /\ QueueInv' /\ queue' \in Seq(Calls) /\ Len(queue) \in Nat /\ Len(queue') = Len(queue) + 1
         /\ queue'[Len(queue) + 1] = c
         /\ \A i \in 1..Len(queue) : queue'[i] = queue[i] /\ queue[i] \in Calls \ {c}
<1>1. /\ queue \in Seq(Calls) /\ queue' \in Seq(Calls) /\ Len(queue) \in Nat
      /\ Len(queue') = Len(queue) + 1 /\ queue'[Len(queue) + 1] = c
      /\ \A i \in 1..Len(queue) : queue'[i] = queue[i] /\ queue[i] \in Calls
  BY DEF TypeOK
<1>2. \A i \in 1..Len(queue) : queue[i] # c
  BY DEF QueueInv
<1>3. \A i \in 1..Len(queue') : i \in 1..Len(queue) \/ i = Len(queue) + 1
  BY <1>1
<1>4. \A i \in 1..Len(queue) : i \in 1..Len(queue')
  BY <1>1
<1>5. Len(queue) + 1 \in 1..Len(queue')
  BY <1>1
<1>6. \A i, j \in 1..Len(queue') : queue'[i] = queue'[j] => i = j
  <2>1. \A i, j \in 1..Len(queue) : queue'[i] = queue'[j] => i = j
    BY <1>1 DEF QueueInv
  <2> QED BY <2>1, <1>1, <1>2, <1>3
<1>7. \A d \in Calls \ {c} : call'[d].pc \in Writes <=> call[d].pc \in Writes
  BY DEF Others, Stays, Writes
<1>8. \A d \in Calls : call'[d].pc \in Writes <=> \E i \in 1..Len(queue') : queue'[i] = d
  <2>1. \E i \in 1..Len(queue') : queue'[i] = c
    BY <1>1, <1>5
  <2>2. \A d \in Calls \ {c} : (\E i \in 1..Len(queue') : queue'[i] = d) <=> \E i \in 1..Len(queue) : queue[i] = d
    BY <1>1, <1>3, <1>4
  <2>3. \A d \in Calls \ {c} : call[d].pc \in Writes <=> \E i \in 1..Len(queue) : queue[i] = d
    BY DEF QueueInv
  <2>4. \A d \in Calls \ {c} : call'[d].pc \in Writes <=> \E i \in 1..Len(queue') : queue'[i] = d
    BY <1>7, <2>2, <2>3
  <2> QED BY <2>1, <2>4
<1>9. \A d \in Calls : "writing" \in call'[d].has => queue' # <<>> /\ d = Head(queue')
  <2>1. queue # <<>> => queue' # <<>> /\ Head(queue') = Head(queue)
    BY <1>1
  <2> QED BY <2>1 DEF Others, Stays, QueueInv
<1> QED BY <1>1, <1>2, <1>6, <1>8, <1>9 DEF QueueInv

\* The head of the chain leaves it.
LEMMA LeaveKeeps ==
  ASSUME TypeOK, QueueInv, NEW c \in Calls, Others(c), InTurn(c), queue' = Tail(queue),
         call'[c].pc \notin Writes, "writing" \notin call'[c].has
  PROVE  /\ QueueInv' /\ queue' \in Seq(Calls) /\ queue[1] = c
         /\ Len(queue') \in Nat /\ Len(queue) = Len(queue') + 1
         /\ \A i \in 1..Len(queue') : queue'[i] = queue[i + 1] /\ queue'[i] \in Calls \ {c}
<1>1. /\ queue \in Seq(Calls) /\ queue' \in Seq(Calls) /\ queue[1] = c /\ Len(queue') \in Nat
      /\ Len(queue) = Len(queue') + 1 /\ Len(queue) \in Nat \ {0}
      /\ \A i \in 1..Len(queue') : queue'[i] = queue[i + 1] /\ queue'[i] \in Calls
  BY DEF TypeOK, InTurn
<1>2. \A i \in 1..Len(queue') : i + 1 \in 1..Len(queue) /\ i + 1 # 1
  BY <1>1
<1>3. 1 \in 1..Len(queue)
  BY <1>1
<1>4. \A i \in 1..Len(queue') : queue'[i] # c
  BY <1>1, <1>2, <1>3 DEF QueueInv
<1>5. \A i, j \in 1..Len(queue') : queue'[i] = queue'[j] => i = j
  <2> SUFFICES ASSUME NEW i \in 1..Len(queue'), NEW j \in 1..Len(queue'), queue'[i] = queue'[j]
               PROVE  i = j
    OBVIOUS
  <2>1. i + 1 = j + 1
    BY <1>1, <1>2 DEF QueueInv
  <2> QED BY <2>1
<1>6. \A d \in Calls \ {c} : call'[d].pc \in Writes <=> call[d].pc \in Writes
  BY DEF Others, Stays, Writes
<1>7. \A d \in Calls \ {c} : (\E i \in 1..Len(queue') : queue'[i] = d) <=> \E i \in 1..Len(queue) : queue[i] = d
  <2>1. \A i \in 1..Len(queue) : i = 1 \/ (i - 1 \in 1..Len(queue') /\ (i - 1) + 1 = i)
    BY <1>1
  <2>2. \A i \in 1..Len(queue) : i = 1 \/ (i - 1 \in 1..Len(queue') /\ queue'[i - 1] = queue[i])
    BY <2>1, <1>1
  <2>3. ASSUME NEW d \in Calls \ {c}, NEW i \in 1..Len(queue), queue[i] = d
        PROVE  \E j \in 1..Len(queue') : queue'[j] = d
    <3>1. i - 1 \in 1..Len(queue') /\ queue'[i - 1] = d
      BY <1>1, <2>2, <2>3
    <3> QED BY <3>1
  <2>4. ASSUME NEW d \in Calls \ {c}, NEW i \in 1..Len(queue'), queue'[i] = d
        PROVE  \E j \in 1..Len(queue) : queue[j] = d
    BY <1>1, <1>2, <2>4
  <2> QED BY <2>3, <2>4
<1>8. \A d \in Calls : call'[d].pc \in Writes <=> \E i \in 1..Len(queue') : queue'[i] = d
  <2>1. \A d \in Calls \ {c} : call[d].pc \in Writes <=> \E i \in 1..Len(queue) : queue[i] = d
    BY DEF QueueInv
  <2> QED BY <1>4, <1>6, <1>7, <2>1
<1>9. \A d \in Calls : "writing" \notin call'[d].has
  BY DEF Others, Stays, QueueInv, InTurn
<1> QED BY <1>1, <1>4, <1>5, <1>8, <1>9 DEF QueueInv

\* The head of the chain leaves it, and joins it again.
LEMMA RejoinKeeps ==
  ASSUME TypeOK, QueueInv, NEW c \in Calls, Others(c), InTurn(c), queue' = Append(Tail(queue), c),
         call'[c].pc \in Writes, "writing" \notin call'[c].has
  PROVE  /\ QueueInv' /\ queue' \in Seq(Calls) /\ queue[1] = c
         /\ Len(queue') = Len(queue) /\ Len(queue) \in Nat \ {0} /\ queue'[Len(queue)] = c
         /\ \A i \in 1..(Len(queue) - 1) : queue'[i] = queue[i + 1] /\ queue'[i] \in Calls \ {c}
<1>1. /\ queue \in Seq(Calls) /\ queue' \in Seq(Calls) /\ queue[1] = c
      /\ Len(queue') = Len(queue) /\ Len(queue) \in Nat \ {0} /\ queue'[Len(queue)] = c
      /\ \A i \in 1..(Len(queue) - 1) : queue'[i] = queue[i + 1] /\ queue'[i] \in Calls
  BY DEF TypeOK, InTurn
<1>2. \A i \in 1..(Len(queue) - 1) : i + 1 \in 1..Len(queue) /\ i + 1 # 1 /\ i \in 1..Len(queue')
  BY <1>1
<1>3. 1 \in 1..Len(queue) /\ Len(queue) \in 1..Len(queue')
  BY <1>1
<1>4. \A i \in 1..(Len(queue) - 1) : queue'[i] # c
  BY <1>1, <1>2, <1>3 DEF QueueInv
<1>5. \A i \in 1..Len(queue') : i \in 1..(Len(queue) - 1) \/ i = Len(queue)
  <2> SUFFICES ASSUME NEW i \in 1..Len(queue') PROVE i \in 1..(Len(queue) - 1) \/ i = Len(queue)
    OBVIOUS
  <2>1. i \in Nat /\ 1 <= i /\ i <= Len(queue) /\ Len(queue) \in Nat
    BY <1>1
  <2> QED BY <2>1
<1>6. \A i, j \in 1..Len(queue') : queue'[i] = queue'[j] => i = j
  <2>1. ASSUME NEW i \in 1..(Len(queue) - 1), NEW j \in 1..(Len(queue) - 1), queue'[i] = queue'[j]
        PROVE  i = j
    <3>1. i + 1 = j + 1
      BY <1>1, <1>2, <2>1 DEF QueueInv
    <3> QED BY <3>1
  <2> SUFFICES ASSUME NEW i \in 1..Len(queue'), NEW j \in 1..Len(queue'), queue'[i] = queue'[j]
               PROVE  i = j
    OBVIOUS
  <2>2. CASE i \in 1..(Len(queue) - 1) /\ j \in 1..(Len(queue) - 1)
    BY <2>1, <2>2
  <2>3. CASE i = Len(queue) \/ j = Len(queue)
    BY <2>3, <1>1, <1>4, <1>5
  <2> QED BY <2>2, <2>3, <1>5
<1>7. \A d \in Calls \ {c} : call'[d].pc \in Writes <=> call[d].pc \in Writes
  BY DEF Others, Stays, Writes
<1>8. \A d \in Calls \ {c} : (\E i \in 1..Len(queue') : queue'[i] = d) <=> \E i \in 1..Len(queue) : queue[i] = d
  <2>1. \A i \in 1..Len(queue) : i = 1 \/ (i - 1 \in 1..(Len(queue) - 1) /\ (i - 1) + 1 = i)
    BY <1>1
  <2>2. \A i \in 1..Len(queue) : i = 1 \/ (i - 1 \in 1..Len(queue') /\ queue'[i - 1] = queue[i])
    BY <2>1, <1>1, <1>2
  <2>3. ASSUME NEW d \in Calls \ {c}, NEW i \in 1..Len(queue'), queue'[i] = d
        PROVE  \E j \in 1..Len(queue) : queue[j] = d
    <3>1. i \in 1..(Len(queue) - 1)
      BY <1>1, <1>5, <2>3
    <3> QED BY <3>1, <1>1, <1>2, <2>3
  <2>4. ASSUME NEW d \in Calls \ {c}, NEW i \in 1..Len(queue), queue[i] = d
        PROVE  \E j \in 1..Len(queue') : queue'[j] = d
    <3>1. i - 1 \in 1..Len(queue') /\ queue'[i - 1] = d
      BY <1>1, <2>2, <2>4
    <3> QED BY <3>1
  <2> QED BY <2>3, <2>4
<1>9. \A d \in Calls : call'[d].pc \in Writes <=> \E i \in 1..Len(queue') : queue'[i] = d
  <2>1. \A d \in Calls \ {c} : call[d].pc \in Writes <=> \E i \in 1..Len(queue) : queue[i] = d
    BY DEF QueueInv
  <2>2. \E i \in 1..Len(queue') : queue'[i] = c
    BY <1>1, <1>3
  <2> QED BY <1>7, <1>8, <2>1, <2>2
<1>10. \A d \in Calls : "writing" \notin call'[d].has
  BY DEF Others, Stays, QueueInv, InTurn
<1> QED BY <1>1, <1>4, <1>6, <1>9, <1>10 DEF QueueInv

(***************************************************************************)
(* What a step of a call that is not a setting leaves to be shown.         *)
(***************************************************************************)

\* It stays in the chain as it is, or out of it; joins it; leaves it; or joins it again.
QueueStep(c) ==
  \/ /\ queue' = queue /\ (call[c].pc \in Writes <=> call'[c].pc \in Writes)
     /\ call[c].pc \in Writes => call[c].has \subseteq call'[c].has
     /\ "writing" \in call'[c].has => InTurn(c) /\ (CurrentRecovery(c)' => "kept" \in call'[c].has)
  \/ /\ call[c].pc \notin Writes /\ call'[c].pc \in Writes /\ Captured \subseteq call'[c].has
     /\ "writing" \notin call'[c].has /\ queue' = Append(queue, c)
  \/ /\ InTurn(c) /\ call'[c].pc \notin Writes /\ ~Setting(c)
     /\ "writing" \notin call'[c].has /\ queue' = Tail(queue)
  \/ /\ InTurn(c) /\ call'[c].pc \in Writes /\ Captured \subseteq call'[c].has /\ ~Setting(c)
     /\ "writing" \notin call'[c].has /\ queue' = Append(Tail(queue), c)

Moves(c) ==
  /\ Others(c) /\ Unbumped(c) /\ QueueStep(c)
  /\ Setting(c)' <=> Setting(c)
  /\ Setting(c) => call'[c].op = call[c].op
  /\ Form(call[c])' /\ Live(call[c])'
  /\ UNCHANGED <<ops, consent, transport, refused>>

\* The rest of the state keeps its type.
Typed ==
  /\ device' \in [Servers -> Principals \cup {"unknown", "revoked"}]
  /\ status' \in {"unregistered", "registered", "failed"} /\ principal' \in Principals \cup {None}
  /\ failure' \in {"set", "null"}
  /\ recovery' \in {"none", "checking", "recovered", "failed", "blocked"}
  /\ flight' \in Calls \cup {None} /\ attempt' \in {"never", "now", "past"}
  /\ ready' \in BOOLEAN /\ fresh' \in BOOLEAN
  /\ bound' \in [server : Servers, who : Principals] \cup {None}

\* Whoever stops leaves a registration, or says why there is none.
DutyStep(c) ==
  principal' = None /\ consent = "granted" =>
    \/ failure' = "set" \/ recovery' \in {"failed", "blocked"} \/ AtIt(c)'
    \/ \E d \in Calls : Setting(d)
    \/ principal = None /\ UNCHANGED <<failure, recovery>> /\ ~AtIt(c)

Fine(c) ==
  /\ Moves(c) /\ Typed /\ DutyStep(c)
  /\ status' = "registered" => principal' # None
  /\ bound' \in {None, bound} \/ bound'.server = transport

LEMMA BehindAppend ==
  ASSUME IInv, NEW c \in Calls, Others(c), Unbumped(c), queue' = Append(queue, c),
         call[c].pc \notin Writes, call'[c].pc \in Writes, "writing" \notin call'[c].has,
         Captured \subseteq call'[c].has, ~Setting(c), ~Setting(c)'
  PROVE  BehindInv'
<1>1. /\ Len(queue) \in Nat /\ Len(queue') = Len(queue) + 1 /\ queue'[Len(queue) + 1] = c
      /\ \A i \in 1..Len(queue) : queue'[i] = queue[i] /\ queue[i] \in Calls \ {c}
  BY AppendKeeps DEF IInv
<1>2. \A d \in Calls \ {c} : (Setting(d)' <=> Setting(d)) /\ call'[d].has = call[d].has
                             /\ (call'[d].pc \in Writes <=> call[d].pc \in Writes)
  BY DEF Others, Stays, Unbumped, Setting, Writes
<1>3. \A i \in 1..Len(queue') : i \in 1..Len(queue) \/ i = Len(queue) + 1
  BY <1>1
<1>4. ASSUME NEW i \in 1..Len(queue'), NEW j \in 1..Len(queue'), j < i, Setting(queue[j])'
      PROVE  Captured \subseteq call'[queue'[i]].has
  <2>1. CASE i = Len(queue) + 1
    BY <2>1, <1>1
  <2>2. CASE i \in 1..Len(queue)
    <3>1. j \in 1..Len(queue)
      BY <2>2, <1>1, <1>4
    <3>2. queue'[j] = queue[j] /\ queue'[i] = queue[i] /\ queue[i] \in Calls \ {c} /\ queue[j] \in Calls \ {c}
      BY <2>2, <3>1, <1>1
    <3>3. Setting(queue[j])
      BY <3>2, <1>2, <1>4 DEF Setting
    <3>4. Captured \subseteq call[queue[i]].has
      BY <2>2, <3>1, <3>3, <1>4 DEF IInv, BehindInv
    <3> QED BY <3>2, <3>4, <1>2
  <2> QED BY <2>1, <2>2, <1>3
<1>5. ASSUME NEW d \in Calls, call'[d].pc \in Writes, ~Setting(d)', ~(Captured \subseteq call'[d].has)
      PROVE  \E e \in Calls : Setting(e)'
  <2>1. d # c /\ ~Setting(d) /\ call[d].pc \in Writes /\ ~(Captured \subseteq call[d].has)
    BY <1>2, <1>5
  <2>2. PICK e \in Calls : Setting(e)
    BY <2>1 DEF IInv, BehindInv
  <2> QED BY <2>2, <1>2
<1> QED BY <1>4, <1>5 DEF BehindInv, Setting

LEMMA BehindLeave ==
  ASSUME IInv, NEW c \in Calls, Others(c), Unbumped(c), InTurn(c), queue' = Tail(queue),
         call'[c].pc \notin Writes, "writing" \notin call'[c].has, ~Setting(c), ~Setting(c)'
  PROVE  BehindInv'
<1>1. /\ Len(queue') \in Nat /\ Len(queue) = Len(queue') + 1
      /\ \A i \in 1..Len(queue') : queue'[i] = queue[i + 1] /\ queue'[i] \in Calls \ {c}
  BY LeaveKeeps DEF IInv
<1>2. \A d \in Calls \ {c} : (Setting(d)' <=> Setting(d)) /\ call'[d].has = call[d].has
                             /\ (call'[d].pc \in Writes <=> call[d].pc \in Writes)
  BY DEF Others, Stays, Unbumped, Setting, Writes
<1>3. ASSUME NEW i \in 1..Len(queue'), NEW j \in 1..Len(queue'), j < i, Setting(queue[j])'
      PROVE  Captured \subseteq call'[queue'[i]].has
  <2>1. i + 1 \in 1..Len(queue) /\ j + 1 \in 1..Len(queue) /\ j + 1 < i + 1
    BY <1>1, <1>3
  <2>2. /\ queue'[j] = queue[j + 1] /\ queue'[i] = queue[i + 1]
        /\ queue[i + 1] \in Calls \ {c} /\ queue[j + 1] \in Calls \ {c}
    BY <1>1
  <2>3. Setting(queue[j + 1])
    BY <2>2, <1>2, <1>3 DEF Setting
  <2>4. Captured \subseteq call[queue[i + 1]].has
    BY <2>1, <2>3 DEF IInv, BehindInv
  <2> QED BY <2>2, <2>4, <1>2
<1>4. ASSUME NEW d \in Calls, call'[d].pc \in Writes, ~Setting(d)', ~(Captured \subseteq call'[d].has)
      PROVE  \E e \in Calls : Setting(e)'
  <2>1. d # c /\ ~Setting(d) /\ call[d].pc \in Writes /\ ~(Captured \subseteq call[d].has)
    BY <1>2, <1>4
  <2>2. PICK e \in Calls : Setting(e)
    BY <2>1 DEF IInv, BehindInv
  <2> QED BY <2>2, <1>2
<1> QED BY <1>3, <1>4 DEF BehindInv, Setting

LEMMA BehindRejoin ==
  ASSUME IInv, NEW c \in Calls, Others(c), Unbumped(c), InTurn(c), queue' = Append(Tail(queue), c),
         call'[c].pc \in Writes, "writing" \notin call'[c].has, Captured \subseteq call'[c].has,
         ~Setting(c), ~Setting(c)'
  PROVE  BehindInv'
<1>1. /\ Len(queue') = Len(queue) /\ Len(queue) \in Nat \ {0} /\ queue'[Len(queue)] = c
      /\ \A i \in 1..(Len(queue) - 1) : queue'[i] = queue[i + 1] /\ queue'[i] \in Calls \ {c}
  BY RejoinKeeps DEF IInv
<1>2. \A d \in Calls \ {c} : (Setting(d)' <=> Setting(d)) /\ call'[d].has = call[d].has
                             /\ (call'[d].pc \in Writes <=> call[d].pc \in Writes)
  BY DEF Others, Stays, Unbumped, Setting, Writes
<1>3. ASSUME NEW i \in 1..Len(queue'), NEW j \in 1..Len(queue'), j < i, Setting(queue[j])'
      PROVE  Captured \subseteq call'[queue'[i]].has
  <2>1. CASE i = Len(queue)
    BY <2>1, <1>1
  <2>2. CASE i # Len(queue)
    <3>1. /\ i \in 1..(Len(queue) - 1) /\ j \in 1..(Len(queue) - 1)
          /\ i + 1 \in 1..Len(queue) /\ j + 1 \in 1..Len(queue) /\ j + 1 < i + 1
      <4>1. i \in Nat /\ j \in Nat /\ 1 <= j /\ i <= Len(queue) /\ Len(queue) \in Nat
        BY <1>1
      <4> QED BY <4>1, <2>2, <1>3
    <3>2. /\ queue'[j] = queue[j + 1] /\ queue'[i] = queue[i + 1]
          /\ queue[i + 1] \in Calls \ {c} /\ queue[j + 1] \in Calls \ {c}
      BY <3>1, <1>1
    <3>3. Setting(queue[j + 1])
      BY <3>2, <1>2, <1>3 DEF Setting
    <3>4. Captured \subseteq call[queue[i + 1]].has
      BY <3>1, <3>3 DEF IInv, BehindInv
    <3> QED BY <3>2, <3>4, <1>2
  <2> QED BY <2>1, <2>2
<1>4. ASSUME NEW d \in Calls, call'[d].pc \in Writes, ~Setting(d)', ~(Captured \subseteq call'[d].has)
      PROVE  \E e \in Calls : Setting(e)'
  <2>1. d # c /\ ~Setting(d) /\ call[d].pc \in Writes /\ ~(Captured \subseteq call[d].has)
    BY <1>2, <1>4
  <2>2. PICK e \in Calls : Setting(e)
    BY <2>1 DEF IInv, BehindInv
  <2> QED BY <2>2, <1>2
<1> QED BY <1>3, <1>4 DEF BehindInv, Setting

LEMMA FineKeeps ==
  ASSUME IInv, NEW c \in Calls, Fine(c)
  PROVE  IInv'
<1>1. /\ Others(c) /\ Unbumped(c) /\ QueueStep(c) /\ TypeOK /\ QueueInv
      /\ (Setting(c)' <=> Setting(c)) /\ (Setting(c) => call'[c].op = call[c].op)
      /\ UNCHANGED <<ops, consent, transport, refused>>
  BY DEF Fine, Moves, IInv
<1>2. QueueInv' /\ BehindInv' /\ queue' \in Seq(Calls)
  <2>1. CASE /\ queue' = queue /\ (call[c].pc \in Writes <=> call'[c].pc \in Writes)
             /\ call[c].pc \in Writes => call[c].has \subseteq call'[c].has
             /\ "writing" \in call'[c].has => InTurn(c)
    <3>1. \A d \in Calls : call'[d].pc \in Writes <=> call[d].pc \in Writes
      BY <1>1, <2>1 DEF Others, Stays, Writes
    <3>2. \A d \in Calls : "writing" \in call'[d].has => queue # <<>> /\ d = Head(queue)
      BY <1>1, <2>1 DEF Others, Stays, QueueInv, InTurn
    <3>3. QueueInv'
      BY <1>1, <2>1, <3>1, <3>2 DEF QueueInv
    <3>4. \A d \in Calls : Setting(d)' <=> Setting(d)
      BY <1>1 DEF Others, Stays, Setting
    <3>5. \A d \in Calls : call[d].pc \in Writes => call[d].has \subseteq call'[d].has
      BY <1>1, <2>1 DEF Unbumped
    <3>6. \A i \in 1..Len(queue) : queue[i] \in Calls /\ call[queue[i]].pc \in Writes
      BY <1>1 DEF TypeOK, QueueInv
    <3>7. \A i, j \in 1..Len(queue') : j < i /\ Setting(queue[j])' => Captured \subseteq call'[queue'[i]].has
      BY <2>1, <3>4, <3>5, <3>6 DEF IInv, BehindInv, Setting
    <3>8. \A d \in Calls : call'[d].pc \in Writes /\ ~Setting(d)' /\ ~(Captured \subseteq call'[d].has) =>
            \E e \in Calls : Setting(e)'
      BY <3>1, <3>4, <3>5 DEF IInv, BehindInv
    <3> QED BY <1>1, <2>1, <3>3, <3>7, <3>8 DEF BehindInv, Setting, TypeOK
  <2>2. CASE /\ call[c].pc \notin Writes /\ call'[c].pc \in Writes /\ Captured \subseteq call'[c].has
             /\ "writing" \notin call'[c].has /\ queue' = Append(queue, c)
    <3>1. ~Setting(c) /\ ~Setting(c)'
      BY <1>1, <2>2 DEF IInv, CallInv, Form, Setting, Writes
    <3> QED BY <1>1, <2>2, <3>1, AppendKeeps, BehindAppend
  <2>3. CASE /\ InTurn(c) /\ call'[c].pc \notin Writes /\ ~Setting(c)
             /\ "writing" \notin call'[c].has /\ queue' = Tail(queue)
    BY <1>1, <2>3, LeaveKeeps, BehindLeave
  <2>4. CASE /\ InTurn(c) /\ call'[c].pc \in Writes /\ Captured \subseteq call'[c].has /\ ~Setting(c)
             /\ "writing" \notin call'[c].has /\ queue' = Append(Tail(queue), c)
    BY <1>1, <2>4, RejoinKeeps, BehindRejoin
  <2> QED BY <1>1, <2>1, <2>2, <2>3, <2>4 DEF QueueStep
<1>3. TypeOK'
  BY <1>1, <1>2 DEF Fine, Typed, TypeOK, Others
<1>4. CallInv'
  <2>1. Form(call[c])' /\ Live(call[c])'
    BY DEF Fine, Moves
  <2>2. ASSUME NEW d \in Calls \ {c} PROVE Form(call[d])' /\ Live(call[d])'
    <3>1. Stays(d) /\ Form(call[d]) /\ Live(call[d])
      BY <1>1 DEF Others, IInv, CallInv
    <3>2. CASE call'[d].pc = call[d].pc /\ call'[d].arg = call[d].arg /\ call'[d].answer = call[d].answer
      BY <1>1, <3>1, <3>2 DEF Stays, Form, Live
    <3>3. CASE call[d].pc = "joined" /\ call'[d].pc = "told"
      BY <1>1, <3>1, <3>3 DEF Stays, Form, Live, Settings, Requests, Writes
    <3> QED BY <3>1, <3>2, <3>3 DEF Stays
  <2> QED BY <2>1, <2>2 DEF CallInv
<1>5. OneSetting'
  BY <1>1 DEF IInv, OneSetting, Setting, Others, Stays
<1>6. RecordInv'
  <2>1. ASSUME NEW d \in Calls, "writing" \in call'[d].has, CurrentRecovery(d)'
        PROVE  "kept" \in call'[d].has
    <3>1. CASE d = c
      BY <1>1, <2>1, <3>1 DEF QueueStep
    <3>2. CASE d # c
      BY <1>1, <2>1, <3>2 DEF Unbumped, IInv, RecordInv, CurrentRecovery
    <3> QED BY <3>1, <3>2
  <2> QED BY <2>1 DEF RecordInv, Fine
<1>7. DutyInv'
  <2> SUFFICES ASSUME principal' = None, consent = "granted", ~refused,
                      failure' # "set", recovery' \notin {"failed", "blocked"}, ~AtIt(c)',
                      \A d \in Calls : ~Setting(d)
               PROVE  \E d \in Calls : AtIt(d)'
    BY <1>1 DEF DutyInv, Setting, Others, Stays
  <2>1. principal = None /\ UNCHANGED <<failure, recovery>> /\ ~AtIt(c)
    BY DEF Fine, DutyStep
  <2>2. PICK d \in Calls : AtIt(d)
    BY <2>1 DEF IInv, DutyInv
  <2>3. d # c
    BY <2>1, <2>2
  <2>4. Stays(d) /\ call'[d].has = call[d].has
    BY <1>1, <2>3 DEF Others, Unbumped
  <2>5. AtIt(d)'
    BY <2>2, <2>4 DEF AtIt, Stays
  <2> QED BY <2>5
<1>8. ReadFromServerInEffect'
  BY <1>1 DEF Fine, IInv, ReadFromServerInEffect
<1> QED BY <1>2, <1>3, <1>4, <1>5, <1>6, <1>7, <1>8 DEF IInv

(***************************************************************************)
(* What it leaves to be shown when nothing starts while a server is saved. *)
(***************************************************************************)

MendStep(c) ==
  /\ "server" \in call'[c].has => "server" \in call[c].has \/ \A d \in Calls : call[d].op # "server"
  /\ Mends(c)' => flight' = c
  /\ flight' # flight => flight \in {c, None}
  /\ Mends(c)' /\ call'[c].pc = "blame" => recovery' # "checking"
  /\ recovery' = "checking" =>
       \/ recovery = "checking" /\ (Mends(c) /\ consent = "granted" => Mends(c)')
       \/ flight = None /\ consent = "granted" /\ Mends(c)'

LEMMA MendKeeps ==
  ASSUME IInv, SingleInv, NEW c \in Calls, Moves(c), MendStep(c)
  PROVE  SingleInv'
<1>1. /\ Others(c) /\ Unbumped(c) /\ (Setting(c)' <=> Setting(c))
      /\ Setting(c) => call'[c].op = call[c].op
      /\ UNCHANGED <<consent, transport, refused>>
  BY DEF Moves
<1>2. \A d \in Calls \ {c} : /\ call'[d].op = call[d].op /\ call'[d].has = call[d].has
                             /\ \/ call'[d].pc = call[d].pc
                                \/ call[d].pc = "joined" /\ call'[d].pc = "told"
  BY <1>1 DEF Others, Stays, Unbumped
<1>3. \A d \in Calls : \A op \in Settings : call'[d].op = op <=> call[d].op = op
  BY <1>1, <1>2 DEF Setting
<1>4. \A d \in Calls \ {c} : Mends(d)' <=> Mends(d)
  BY <1>2 DEF Mends, Recovering
<1>5. NoneSurvives'
  <2>1. \A d \in Calls : call'[d].op = "server" <=> call[d].op = "server"
    BY <1>3 DEF Settings
  <2> QED BY <1>2, <2>1 DEF SingleInv, NoneSurvives, MendStep
<1>6. FlightInv'
  <2> SUFFICES ASSUME NEW d \in Calls, Mends(d)' PROVE flight' = d
    BY DEF FlightInv
  <2>1. CASE d = c
    BY <2>1 DEF MendStep
  <2>2. CASE d # c
    <3>1. flight = d
      BY <1>4, <2>2 DEF SingleInv, FlightInv
    <3>2. flight \notin {c, None}
      BY <2>2, <3>1, ServerAssumption
    <3> QED BY <3>1, <3>2 DEF MendStep
  <2> QED BY <2>1, <2>2
<1>7. BlameInv'
  <2> SUFFICES ASSUME NEW d \in Calls, Mends(d)', call'[d].pc = "blame" PROVE recovery' # "checking"
    BY DEF BlameInv
  <2>1. CASE d = c
    BY <2>1 DEF MendStep
  <2>2. CASE d # c
    <3>1. flight = d /\ call[d].pc = "blame" /\ Mends(d)
      BY <1>2, <1>4, <2>2 DEF SingleInv, FlightInv
    <3>2. recovery # "checking" /\ flight # None
      BY <3>1, ServerAssumption DEF SingleInv, BlameInv
    <3> QED BY <3>2 DEF MendStep
  <2> QED BY <2>1, <2>2
<1>8. CheckingInv'
  <2> SUFFICES ASSUME recovery' = "checking" PROVE CheckingInv'
    BY DEF CheckingInv
  <2>1. CASE flight = None /\ consent = "granted" /\ Mends(c)'
    BY <2>1, <1>1 DEF CheckingInv
  <2>2. CASE recovery = "checking" /\ (Mends(c) /\ consent = "granted" => Mends(c)')
    <3>1. consent = "granted" /\ ~refused => \E d \in Calls : Mends(d)' \/ call'[d].op = "server"
      <4> SUFFICES ASSUME consent = "granted", ~refused
                   PROVE  \E d \in Calls : Mends(d)' \/ call'[d].op = "server"
        OBVIOUS
      <4>1. PICK d \in Calls : Mends(d) \/ call[d].op = "server"
        BY <2>2 DEF SingleInv, CheckingInv
      <4>2. CASE Mends(d)
        BY <4>2, <2>2, <1>4
      <4>3. CASE call[d].op = "server"
        BY <4>3, <1>3 DEF Settings
      <4> QED BY <4>1, <4>2, <4>3
    <3>2. (\E d \in Calls : call'[d].op = "consent") => consent = "granted" /\ \E d \in Calls : Mends(d)'
      <4> SUFFICES ASSUME NEW e \in Calls, call'[e].op = "consent"
                   PROVE  consent = "granted" /\ \E d \in Calls : Mends(d)'
        OBVIOUS
      <4>1. call[e].op = "consent"
        BY <1>3 DEF Settings
      <4>2. consent = "granted" /\ \E d \in Calls : Mends(d)
        BY <2>2, <4>1 DEF SingleInv, CheckingInv
      <4> QED BY <4>2, <2>2, <1>4
    <3> QED BY <3>1, <3>2, <1>1 DEF CheckingInv
  <2> QED BY <2>1, <2>2 DEF MendStep
<1> QED BY <1>5, <1>6, <1>7, <1>8 DEF SingleInv

(***************************************************************************)
(* The end of a recovery.                                                  *)
(***************************************************************************)

\* Whose step it is.
LEMMA WhoseStep ==
  ASSUME IInv, NEW c \in Calls
  PROVE  /\ call[c] \in Call /\ Form(call[c]) /\ Live(call[c])
         /\ call[c].pc \notin {"idle", "setting"} => call[c].op \in {"refresh", "register"} /\ ~Setting(c)
         /\ call[c].pc \notin {"idle", "setting", "register", "record", "unrecord"} => call[c].op = "refresh"
<1>1. call[c] \in Call /\ Form(call[c]) /\ Live(call[c])
  BY DEF IInv, TypeOK, CallInv
<1>2. call[c].op \in {"none", "refresh", "register"} \cup Settings
  BY <1>1, CallFields
<1> QED BY <1>1, <1>2 DEF Form, Setting, Settings

LEMMA EndMoves ==
  ASSUME IInv, NEW c \in Calls, NEW result \in BOOLEAN, call[c].op = "refresh", RecoveryEnds(c, result),
         result => call[c].pc \in {"confirm", "told"},
         UNCHANGED <<ops, consent, transport, refused>>,
         \/ call[c].pc \notin Writes /\ queue' = queue
         \/ InTurn(c) /\ queue' = Tail(queue)
  PROVE  /\ Moves(c) /\ ~AtIt(c)' /\ ~Mends(c)'
         /\ "server" \in call'[c].has => "server" \in call[c].has
         /\ ready' \in BOOLEAN /\ flight' = (IF flight = c THEN None ELSE flight)
         /\ UNCHANGED <<fresh, bound>>
<1>1. /\ Others(c) /\ Unbumped(c) /\ Returns(c, result, call'[c])
      /\ ready' \in BOOLEAN /\ flight' = (IF flight = c THEN None ELSE flight)
      /\ UNCHANGED <<fresh, bound>>
  BY EndsIs DEF IInv
<1>2. call[c] \in Call /\ Form(call[c]) /\ Live(call[c]) /\ ~Setting(c) /\ transport \in Servers
  BY DEF IInv, TypeOK, CallInv, Setting, Settings
<1>3. CASE call'[c] = Idle
  <2>1. Form(call[c])' /\ Live(call[c])' /\ ~Setting(c)' /\ call'[c].pc \notin Writes /\ call'[c].has = {}
    BY <1>3, IdleIs DEF Form, Live, Setting, Settings, Writes, Requests, NoAnswer
  <2>2. QueueStep(c)
    BY <1>2, <2>1 DEF QueueStep
  <2>3. ~AtIt(c)' /\ ~Mends(c)'
    BY <1>3, IdleIs DEF AtIt, Mends
  <2> QED BY <1>1, <1>2, <2>1, <2>2, <2>3 DEF Moves
<1>4. CASE call'[c].op # "none"
  <2>1. /\ call'[c].op = "refresh" /\ CurrentRefresh(c) /\ call'[c].pc = "usage" /\ call'[c].answer = NoAnswer
        /\ "writing" \notin call'[c].has
        /\ \/ call'[c].origin = transport
           \/ result /\ call'[c].origin = call[c].origin
              /\ ("live" \in call'[c].has => "live" \in call[c].has)
    BY <1>1, <1>4 DEF Returns
  <2>2. call'[c].origin \in Servers /\ ("live" \in call'[c].has => call'[c].origin = transport)
    BY <2>1, <1>2 DEF Form, Live, Writes
  <2>3. Form(call[c])' /\ Live(call[c])' /\ ~Setting(c)' /\ call'[c].pc \notin Writes
    BY <2>1, <2>2 DEF Form, Live, Setting, Settings, Writes, Requests, NoAnswer
  <2>4. QueueStep(c)
    BY <1>2, <2>1, <2>3 DEF QueueStep
  <2>5. ~AtIt(c)' /\ ~Mends(c)' /\ "server" \in call[c].has
    BY <2>1 DEF AtIt, Mends, Recovering, CurrentRefresh
  <2> QED BY <1>1, <1>2, <2>3, <2>4, <2>5 DEF Moves
<1> QED BY <1>1, <1>3, <1>4 DEF Returns

\* The end of a recovery that is overtaken, or of a call that is at none.
LEMMA EndFine ==
  ASSUME IInv, NEW c \in Calls, NEW result \in BOOLEAN, call[c].op = "refresh", RecoveryEnds(c, result),
         result => call[c].pc \in {"confirm", "told"},
         UNCHANGED <<ops, consent, transport, refused, device, status, principal, failure, recovery, attempt>>,
         \/ call[c].pc \notin Writes /\ queue' = queue
         \/ InTurn(c) /\ queue' = Tail(queue),
         CurrentRecovery(c) => ~AtIt(c) /\ ~Mends(c)
  PROVE  Fine(c) /\ MendStep(c)
<1>1. /\ Moves(c) /\ ~AtIt(c)' /\ ~Mends(c)'
      /\ "server" \in call'[c].has => "server" \in call[c].has
      /\ ready' \in BOOLEAN /\ flight' = (IF flight = c THEN None ELSE flight)
      /\ UNCHANGED <<fresh, bound>>
  BY EndMoves
<1>2. Typed /\ (status' = "registered" => principal' # None)
  BY <1>1 DEF IInv, TypeOK, Typed, RecordInv
<1>3. consent = "granted" => ~AtIt(c) /\ ~Mends(c)
  BY DEF CurrentRecovery, AtIt, Mends, Captured
<1>4. DutyStep(c)
  BY <1>3 DEF DutyStep
<1>5. MendStep(c)
  BY <1>1, <1>3 DEF MendStep
<1> QED BY <1>1, <1>2, <1>4, <1>5 DEF Fine

\* A call that waits for the store next, with what it captured.
LEMMA EnqueueMoves ==
  ASSUME IInv, NEW c \in Calls, NEW pc \in Writes \ {"setting"},
         call[c].op \in {"refresh", "register"}, call[c].pc \notin Writes, Captured \subseteq call[c].has,
         call[c].op = "register" => pc \in {"record", "unrecord"},
         pc = "record" => call[c].answer.who \in Principals,
         Enqueue(call, c, Queued(call[c], pc)), UNCHANGED <<ops, consent, transport, refused>>
  PROVE  /\ Moves(c) /\ call'[c].pc = pc /\ call'[c].op = call[c].op
         /\ call'[c].has \subseteq call[c].has /\ Captured \subseteq call'[c].has
<1> DEFINE r == Queued(call[c], pc)
<1>1. call[c] \in Call /\ Form(call[c]) /\ call \in [Calls -> Call]
  BY DEF IInv, TypeOK, CallInv
<1>2. /\ r \in Call /\ r.op = call[c].op /\ r.pc = pc /\ r.arg = call[c].arg /\ r.origin = call[c].origin
      /\ pc = "record" => r.answer = call[c].answer
      /\ r.has = call[c].has \ {"signing", "writing", "kept"}
  BY <1>1, QueuedIs
<1>3. call' = [call EXCEPT ![c] = r] /\ queue' = Append(queue, c)
  BY DEF Enqueue
<1> HIDE DEF r
<1>4. call'[c] = r /\ Others(c) /\ Unbumped(c)
  BY <1>1, <1>2, <1>3 DEF Others, Stays, Unbumped
<1>5. call'[c].has \subseteq call[c].has /\ Captured \subseteq call'[c].has
  BY <1>2, <1>4 DEF Captured
<1>6. Form(call[c])' /\ Live(call[c])' /\ ~Setting(c)' /\ ~Setting(c)
  BY <1>1, <1>2, <1>4 DEF Form, Live, Setting, Settings, Writes, Requests
<1>7. QueueStep(c)
  BY <1>2, <1>3, <1>4, <1>5 DEF QueueStep
<1> QED BY <1>2, <1>4, <1>5, <1>6, <1>7 DEF Moves

LEMMA AgainMoves ==
  ASSUME IInv, NEW c \in Calls, NEW pc \in {"blame", "unrecord"}, InTurn(c),
         call[c].op \in {"refresh", "register"}, Captured \subseteq call[c].has,
         call[c].op = "register" => pc = "unrecord",
         Again(c, pc), UNCHANGED <<ops, consent, transport, refused>>
  PROVE  /\ Moves(c) /\ call'[c].pc = pc /\ call'[c].op = call[c].op
         /\ call'[c].has \subseteq call[c].has /\ Captured \subseteq call'[c].has
<1> DEFINE r == Queued(call[c], pc)
<1>1. call[c] \in Call /\ Form(call[c]) /\ call \in [Calls -> Call]
  BY DEF IInv, TypeOK, CallInv
<1>2. /\ r \in Call /\ r.op = call[c].op /\ r.pc = pc /\ r.arg = call[c].arg /\ r.origin = call[c].origin
      /\ r.has = call[c].has \ {"signing", "writing", "kept"} /\ pc \in Writes
  BY <1>1, QueuedIs DEF Writes
<1>3. call' = [call EXCEPT ![c] = r] /\ queue' = Append(Tail(queue), c)
  BY DEF Again
<1> HIDE DEF r
<1>4. call'[c] = r /\ Others(c) /\ Unbumped(c)
  BY <1>1, <1>2, <1>3 DEF Others, Stays, Unbumped
<1>5. call'[c].has \subseteq call[c].has /\ Captured \subseteq call'[c].has
  BY <1>2, <1>4 DEF Captured
<1>6. Form(call[c])' /\ Live(call[c])' /\ ~Setting(c)' /\ ~Setting(c)
  BY <1>1, <1>2, <1>4 DEF Form, Live, Setting, Settings, Writes, Requests
<1>7. QueueStep(c)
  BY <1>2, <1>3, <1>4, <1>5, <1>6 DEF QueueStep
<1> QED BY <1>2, <1>4, <1>5, <1>6, <1>7 DEF Moves

Good(c) == Fine(c) /\ (SingleInv /\ Exclusive => MendStep(c))

\* A call goes on outside of the chain.
LEMMA OwnMoves ==
  ASSUME IInv, NEW c \in Calls, NEW r \in Call, call' = [call EXCEPT ![c] = r], queue' = queue,
         call[c].pc \notin Writes, r.pc \notin Writes, "writing" \notin r.has,
         Form(r), Live(r), UNCHANGED <<ops, consent, transport, refused>>
  PROVE  Moves(c) /\ call'[c] = r
<1>1. call \in [Calls -> Call] /\ Form(call[c])
  BY DEF IInv, TypeOK, CallInv
<1>2. call'[c] = r /\ Others(c) /\ Unbumped(c)
  BY <1>1 DEF Others, Stays, Unbumped
<1>3. Form(call[c])' /\ Live(call[c])'
  BY <1>2 DEF Form, Live
<1>4. ~Setting(c)' /\ ~Setting(c)
  BY <1>1, <1>2 DEF Form, Setting, Settings, Writes
<1>5. QueueStep(c)
  BY <1>2 DEF QueueStep
<1> QED BY <1>2, <1>3, <1>4, <1>5 DEF Moves

LEMMA RecoveryFailsGood ==
  ASSUME IInv, NEW c \in Calls, call[c].op = "refresh", call[c].pc \in {"register", "confirm"},
         RecoveryFails(c), CurrentRecovery(c) \/ (UNCHANGED <<recovery, queue>> /\ RecoveryEnds(c, FALSE)),
         UNCHANGED <<ops, consent, transport, refused, device, status, principal, failure, attempt>>
  PROVE  Good(c)
<1>1. CASE CurrentRecovery(c)
  <2>1. /\ recovery' = "failed" /\ Enqueue(call, c, Queued(call[c], "blame"))
        /\ UNCHANGED <<flight, ready, fresh, bound>>
    BY <1>1 DEF RecoveryFails, reading
  <2>2. Captured \subseteq call[c].has /\ "blame" \in Writes \ {"setting"} /\ call[c].pc \notin Writes
    BY <1>1 DEF CurrentRecovery, Captured, Writes
  <2>3. /\ Moves(c) /\ call'[c].pc = "blame" /\ call'[c].op = "refresh"
        /\ call'[c].has \subseteq call[c].has
    BY <2>1, <2>2, EnqueueMoves
  <2>4. Mends(c)
    BY <2>2 DEF Mends, Recovering
  <2>5. Typed /\ (status' = "registered" => principal' # None) /\ DutyStep(c)
    BY <2>1 DEF IInv, TypeOK, Typed, RecordInv, DutyStep
  <2>6. SingleInv => MendStep(c)
    BY <2>1, <2>3, <2>4 DEF MendStep, SingleInv, FlightInv
  <2> QED BY <2>1, <2>3, <2>5, <2>6 DEF Fine, Good
<1>2. CASE ~CurrentRecovery(c)
  <2>1. Fine(c) /\ MendStep(c)
    BY <1>2, EndFine DEF Writes
  <2> QED BY <2>1 DEF Good
<1> QED BY <1>1, <1>2

LEMMA WriteThrowsGood ==
  ASSUME IInv, NEW c \in Calls, InTurn(c), call[c].op = "refresh",
         call[c].pc \in {"revalidate", "record", "unrecord"}, WriteThrows(c),
         status' \in {status, "failed"},
         UNCHANGED <<ops, consent, transport, refused, device, principal, failure, attempt>>
  PROVE  Good(c)
<1>1. CASE CurrentRecovery(c)
  <2>1. recovery' = "failed" /\ Again(c, "blame") /\ UNCHANGED <<flight, ready, fresh, bound>>
    BY <1>1 DEF WriteThrows, reading, Again
  <2>2. Captured \subseteq call[c].has
    BY <1>1 DEF CurrentRecovery, Captured
  <2>3. /\ Moves(c) /\ call'[c].pc = "blame" /\ call'[c].op = "refresh"
        /\ call'[c].has \subseteq call[c].has
    BY <2>1, <2>2, AgainMoves
  <2>4. Mends(c)
    BY <2>2 DEF Mends, Recovering
  <2>5. Typed /\ (status' = "registered" => principal' # None) /\ DutyStep(c)
    BY <2>1 DEF IInv, TypeOK, Typed, RecordInv, DutyStep
  <2>6. SingleInv => MendStep(c)
    BY <2>1, <2>3, <2>4 DEF MendStep, SingleInv, FlightInv
  <2> QED BY <2>1, <2>3, <2>5, <2>6 DEF Fine, Good
<1>2. CASE ~CurrentRecovery(c)
  <2>1. RecoveryEnds(c, FALSE) /\ queue' = Tail(queue) /\ UNCHANGED recovery
    BY <1>2 DEF WriteThrows
  <2>2. /\ Moves(c) /\ ~AtIt(c)' /\ ~Mends(c)'
        /\ "server" \in call'[c].has => "server" \in call[c].has
        /\ ready' \in BOOLEAN /\ flight' = (IF flight = c THEN None ELSE flight)
        /\ UNCHANGED <<fresh, bound>>
    BY <2>1, EndMoves
  <2>3. consent = "granted" => ~AtIt(c) /\ ~Mends(c)
    BY <1>2 DEF CurrentRecovery, AtIt, Mends, Captured
  <2>4. Typed /\ (status' = "registered" => principal' # None)
    BY <2>1, <2>2 DEF IInv, TypeOK, Typed, RecordInv
  <2>5. DutyStep(c) /\ MendStep(c)
    BY <2>1, <2>2, <2>3 DEF DutyStep, MendStep
  <2> QED BY <2>2, <2>4, <2>5 DEF Fine, Good
<1> QED BY <1>1, <1>2

(***************************************************************************)
(* The actions of a call.                                                  *)
(***************************************************************************)

LEMMA RefreshGood == ASSUME IInv, NEW c \in Calls, Refresh(c) PROVE Good(c)
<1> DEFINE r == [Idle EXCEPT !.op = "refresh", !.origin = transport, !.has = {"server", "consent", "live"}]
           again == [r EXCEPT !.has = @ \cup {"again", "retry"}]
<1>1. /\ call[c].pc = "idle" /\ consent = "granted" /\ (Exclusive => \A d \in Calls : call[d].op # "server")
      /\ UNCHANGED <<ops, device, consent, status, principal, transport, refused, failure, ready, bound,
                     recovery, flight, attempt, queue>>
      /\ fresh' \in BOOLEAN
      /\ \/ call' = [call EXCEPT ![c] = Ask(again, "verify")]
         \/ call' = [call EXCEPT ![c] = Ask(r, "usage")]
  BY DEF Refresh, MayStart, session, mending, IInv, TypeOK
<1>2. /\ r \in Call /\ r.op = "refresh" /\ r.origin = transport /\ r.has = {"server", "consent", "live"}
      /\ transport \in Servers
  BY IdleIs DEF IInv, TypeOK, Call, Flags
<1>3. /\ again \in Call /\ again.op = "refresh" /\ again.origin = transport
      /\ again.has = {"server", "consent", "live", "again", "retry"}
  BY <1>2 DEF Call, Flags
<1> HIDE DEF r, again
<1>4. PICK q \in Call : /\ call' = [call EXCEPT ![c] = q] /\ q.op = "refresh" /\ q.pc \in {"verify", "usage"}
                        /\ q.origin = transport /\ q.answer = NoAnswer
                        /\ "writing" \notin q.has
  <2>1. "writing" \notin Signing
    BY DEF Signing
  <2>2. CASE call' = [call EXCEPT ![c] = Ask(again, "verify")]
    <3> DEFINE q == Ask(again, "verify")
    <3>1. /\ q \in Call /\ q.op = "refresh" /\ q.pc = "verify" /\ q.origin = transport /\ q.answer = NoAnswer
          /\ q.has = again.has \cup Signing
      BY <1>3, AskIs
    <3> HIDE DEF q
    <3>2. "writing" \notin q.has /\ call' = [call EXCEPT ![c] = q]
      BY <1>3, <2>1, <2>2, <3>1 DEF q
    <3> QED BY <3>1, <3>2
  <2>3. CASE call' = [call EXCEPT ![c] = Ask(r, "usage")]
    <3> DEFINE q == Ask(r, "usage")
    <3>1. /\ q \in Call /\ q.op = "refresh" /\ q.pc = "usage" /\ q.origin = transport /\ q.answer = NoAnswer
          /\ q.has = r.has \cup Signing
      BY <1>2, AskIs
    <3> HIDE DEF q
    <3>2. "writing" \notin q.has /\ call' = [call EXCEPT ![c] = q]
      BY <1>2, <2>1, <2>3, <3>1 DEF q
    <3> QED BY <3>1, <3>2
  <2> QED BY <1>1, <2>2, <2>3
<1>5. Form(q) /\ Live(q) /\ q.pc \notin Writes
  BY <1>2, <1>4 DEF Form, Live, Settings, Requests, Writes, NoAnswer
<1>6. Moves(c) /\ call'[c] = q
  BY <1>1, <1>4, <1>5, OwnMoves DEF Writes
<1>7. ~AtIt(c)' /\ ~Mends(c)' /\ ~AtIt(c) /\ ~Mends(c)
  BY <1>1, <1>4, <1>6 DEF AtIt, Mends, Recovering
<1>8. Typed /\ (status' = "registered" => principal' # None) /\ DutyStep(c)
  BY <1>1, <1>7 DEF IInv, TypeOK, Typed, RecordInv, DutyStep
<1>9. Exclusive => MendStep(c)
  BY <1>1, <1>7 DEF MendStep
<1> QED BY <1>1, <1>6, <1>8, <1>9 DEF Fine, Good

LEMMA RegisterGood == ASSUME IInv, NEW c \in Calls, Register(c) PROVE Good(c)
<1> DEFINE r == [Idle EXCEPT !.op = "register", !.has = {"server", "again"}]
           q == Registering(r)
<1>1. /\ call[c].pc = "idle" /\ (Exclusive => \A d \in Calls : call[d].op # "server")
      /\ UNCHANGED <<ops, device, consent, status, principal, transport, refused, failure, ready, fresh,
                     bound, recovery, flight, attempt, queue>>
      /\ call' = [call EXCEPT ![c] = q]
  BY DEF Register, MayStart, session, reading, mending
<1>2. r \in Call /\ r.op = "register" /\ r.has = {"server", "again"} /\ transport \in Servers
  BY IdleIs DEF IInv, TypeOK, Call, Flags
<1> HIDE DEF r
<1>3. /\ q \in Call /\ q.op = "register" /\ q.pc = "register" /\ q.arg = transport /\ q.answer = NoAnswer
      /\ q.has = (r.has \ {"writing", "kept"}) \cup {"live"}
  BY <1>2, RegisteringIs DEF IInv
<1> HIDE DEF q
<1>4. "writing" \notin q.has /\ "signing" \notin q.has
  BY <1>2, <1>3
<1>5. Form(q) /\ Live(q) /\ q.pc \notin Writes
  BY <1>2, <1>3, <1>4 DEF Form, Live, Settings, Requests, Writes, NoAnswer
<1>6. Moves(c) /\ call'[c] = q
  BY <1>1, <1>3, <1>4, <1>5, OwnMoves DEF Writes
<1>7. ~Mends(c)' /\ ~AtIt(c) /\ ~Mends(c)
  BY <1>1, <1>3, <1>6 DEF AtIt, Mends, Recovering
<1>8. Typed /\ (status' = "registered" => principal' # None) /\ DutyStep(c)
  BY <1>1, <1>7 DEF IInv, TypeOK, Typed, RecordInv, DutyStep
<1>9. Exclusive => MendStep(c)
  BY <1>1, <1>7 DEF MendStep
<1> QED BY <1>1, <1>6, <1>8, <1>9 DEF Fine, Good

\* A request that has arrived, or is under way.
LEMMA RequestKnows ==
  ASSUME IInv, NEW c \in Calls, call[c].pc \in Requests
  PROVE  /\ call[c].pc \notin Writes /\ call[c].op \in {"refresh", "register"} /\ ~Setting(c)
         /\ call[c].pc # "register" => call[c].op = "refresh"
         /\ call[c].pc = "register" => call[c].arg \in Servers
BY WhoseStep DEF Requests, Writes, Form

LEMMA ServeGood == ASSUME IInv, NEW c \in Calls, Serve(c) PROVE Good(c)
<1> DEFINE s == ServerOf(c)
<1>1. /\ call[c].pc \in Requests /\ "signing" \notin call[c].has
      /\ UNCHANGED <<ops, consent, status, principal, transport, refused, failure, ready, fresh, bound,
                     recovery, flight, attempt, queue>>
  BY DEF Serve, reading, mending
<1>2. /\ call[c] \in Call /\ Form(call[c]) /\ Live(call[c]) /\ call \in [Calls -> Call]
      /\ call[c].pc \notin Writes /\ call[c].op \in {"refresh", "register"}
      /\ call[c].pc # "register" => call[c].op = "refresh"
  BY <1>1, WhoseStep, RequestKnows DEF IInv, TypeOK
<1>3. s \in Servers
  BY <1>1, <1>2 DEF ServerOf, Form
<1>4. PICK a \in Answers :
        /\ call' = [call EXCEPT ![c].answer = a] /\ (a.kind = "ok" => a.who \in Principals)
        /\ device' \in [Servers -> Principals \cup {"unknown", "revoked"}]
  <2>1. device \in [Servers -> Principals \cup {"unknown", "revoked"}]
    BY DEF IInv, TypeOK
  <2>2. CASE device[s] = "unknown" /\ call[c].pc = "register"
    <3>1. PICK p \in Principals :
            /\ device' = [device EXCEPT ![s] = p]
            /\ call' = [call EXCEPT ![c].answer = [kind |-> "ok", who |-> p]]
      BY <2>2 DEF Serve
    <3>2. [kind |-> "ok", who |-> p] \in Answers
      BY DEF Answers
    <3>3. device' \in [Servers -> Principals \cup {"unknown", "revoked"}]
      BY <2>1, <3>1
    <3> QED BY <3>1, <3>2, <3>3
  <2>3. CASE ~(device[s] = "unknown" /\ call[c].pc = "register")
    <3>1. /\ device' = device
          /\ call' = [call EXCEPT ![c].answer =
                            IF device[s] \in Principals THEN [kind |-> "ok", who |-> device[s]]
                            ELSE [kind |-> device[s], who |-> None]]
      BY <2>3 DEF Serve
    <3>2. CASE device[s] \in Principals
      <4>1. [kind |-> "ok", who |-> device[s]] \in Answers
        BY <3>2 DEF Answers
      <4> QED BY <2>1, <3>1, <3>2, <4>1
    <3>3. CASE device[s] \notin Principals
      <4>1. device[s] \in {"unknown", "revoked"}
        BY <1>3, <2>1, <3>3
      <4>2. [kind |-> device[s], who |-> None] \in Answers
        BY <4>1 DEF Answers
      <4> QED BY <2>1, <3>1, <3>3, <4>1, <4>2
    <3> QED BY <3>2, <3>3
  <2> QED BY <2>2, <2>3
<1> DEFINE r == [call[c] EXCEPT !.answer = a]
<1>5. call' = [call EXCEPT ![c] = r]
  BY <1>2, <1>4
<1>6. /\ r \in Call /\ r.op = call[c].op /\ r.pc = call[c].pc /\ r.arg = call[c].arg
      /\ r.origin = call[c].origin /\ r.answer = a /\ r.has = call[c].has
  BY <1>2 DEF Call, Answers
<1> HIDE DEF r
<1>7. Form(r) /\ Live(r) /\ "writing" \notin r.has
  BY <1>1, <1>2, <1>4, <1>6 DEF Form, Live, Requests, Writes
<1>8. Moves(c) /\ call'[c] = r
  BY <1>1, <1>2, <1>5, <1>6, <1>7, OwnMoves
<1>9. (AtIt(c)' <=> AtIt(c)) /\ (Mends(c)' <=> Mends(c))
  BY <1>6, <1>8 DEF AtIt, Mends
<1>10. Typed /\ (status' = "registered" => principal' # None) /\ DutyStep(c)
  BY <1>1, <1>4, <1>9 DEF IInv, TypeOK, Typed, RecordInv, DutyStep
<1>11. SingleInv => MendStep(c)
  BY <1>1, <1>6, <1>8, <1>9 DEF MendStep, SingleInv, FlightInv, BlameInv
<1> QED BY <1>1, <1>8, <1>10, <1>11 DEF Fine, Good

LEMMA SignGood == ASSUME IInv, NEW c \in Calls, Sign(c) PROVE Good(c)
<1>1. /\ "signing" \in call[c].has /\ call[c].pc \in {"usage", "verify", "confirm"}
      /\ call[c].op = "refresh" /\ call[c].pc \notin Writes
      /\ UNCHANGED <<ops, device, consent, status, principal, transport, refused, failure, recovery,
                     attempt, queue>>
  BY WhoseStep DEF Sign, session, Form, Writes
<1>2. CASE call' = [call EXCEPT ![c].has = @ \ {"signing"}] /\ UNCHANGED <<reading, flight>>
  <2> DEFINE r == [call[c] EXCEPT !.has = @ \ {"signing"}]
  <2>1. call[c] \in Call /\ Form(call[c]) /\ Live(call[c]) /\ call \in [Calls -> Call]
    BY WhoseStep DEF IInv, TypeOK
  <2>2. call' = [call EXCEPT ![c] = r]
    BY <1>2, <2>1
  <2>3. /\ r \in Call /\ r.op = call[c].op /\ r.pc = call[c].pc /\ r.arg = call[c].arg
        /\ r.origin = call[c].origin /\ r.answer = call[c].answer /\ r.has = call[c].has \ {"signing"}
    BY <2>1, CallFields DEF Call
  <2> HIDE DEF r
  <2>4. Form(r) /\ Live(r) /\ "writing" \notin r.has
    BY <1>1, <2>1, <2>3 DEF Form, Live
  <2>5. Moves(c) /\ call'[c] = r
    BY <1>1, <2>2, <2>3, <2>4, OwnMoves
  <2>6. (AtIt(c)' <=> AtIt(c)) /\ (Mends(c)' <=> Mends(c)) /\ UNCHANGED <<ready, fresh, bound, flight>>
    BY <1>2, <2>3, <2>5 DEF AtIt, Mends, Captured, reading
  <2>7. Typed /\ (status' = "registered" => principal' # None) /\ DutyStep(c)
    BY <1>1, <2>6 DEF IInv, TypeOK, Typed, RecordInv, DutyStep
  <2>8. SingleInv => MendStep(c)
    BY <1>1, <2>3, <2>5, <2>6 DEF MendStep, SingleInv, FlightInv, BlameInv
  <2> QED BY <2>5, <2>6, <2>7, <2>8 DEF Fine, Good
<1>3. CASE RecoveryEnds(c, FALSE) /\ (call[c].pc # "usage" => ~CurrentRecovery(c))
  <2>1. call[c].pc = "usage" => ~AtIt(c) /\ ~Mends(c)
    BY DEF AtIt, Mends, Recovering
  <2>2. Fine(c) /\ MendStep(c)
    BY <1>1, <1>3, <2>1, EndFine
  <2> QED BY <2>2 DEF Good
<1> QED BY <1>2, <1>3 DEF Sign

LEMMA UsageArrivesGood == ASSUME IInv, NEW c \in Calls, UsageArrives(c) PROVE Good(c)
<1>1. /\ call[c].pc = "usage" /\ "live" \in call[c].has /\ call[c].answer.kind = "ok"
      /\ UNCHANGED <<ops, device, consent, status, principal, transport, refused, failure, recovery, flight,
                     attempt, queue>>
      /\ call' = [call EXCEPT ![c] = Idle]
      /\ \/ UNCHANGED <<ready, fresh, bound>>
         \/ /\ ready' = TRUE /\ fresh' = TRUE
            /\ bound' = [server |-> call[c].origin, who |-> call[c].answer.who]
  BY DEF UsageArrives, Arrived, session, mending, reading
<1>2. /\ call[c].op = "refresh" /\ call[c].pc \notin Writes /\ call[c].origin = transport
      /\ call[c].answer.who \in Principals /\ transport \in Servers
  BY <1>1, WhoseStep DEF Form, Live, Writes, Requests, IInv, TypeOK
<1>3. Form(Idle) /\ Live(Idle) /\ Idle.pc \notin Writes /\ "writing" \notin Idle.has
  BY IdleIs DEF Form, Live, Settings, Requests, Writes, NoAnswer
<1>4. Moves(c) /\ call'[c] = Idle
  BY <1>1, <1>2, <1>3, IdleIs, OwnMoves
<1>5. ~AtIt(c)' /\ ~Mends(c)' /\ ~AtIt(c) /\ ~Mends(c)
  BY <1>1, <1>4, IdleIs DEF AtIt, Mends, Recovering
<1>6. /\ bound' \in [server : Servers, who : Principals] \cup {None}
      /\ bound' \in {None, bound} \/ bound'.server = transport
  BY <1>1, <1>2 DEF IInv, TypeOK
<1>7. Typed /\ (status' = "registered" => principal' # None) /\ DutyStep(c)
  BY <1>1, <1>5, <1>6 DEF IInv, TypeOK, Typed, RecordInv, DutyStep
<1>8. MendStep(c)
  BY <1>1, <1>4, <1>5, IdleIs DEF MendStep
<1> QED BY <1>4, <1>6, <1>7, <1>8 DEF Fine, Good

LEMMA UsageDeniedGood == ASSUME IInv, NEW c \in Calls, UsageDenied(c) PROVE Good(c)
<1>1. /\ call[c].pc = "usage"
      /\ UNCHANGED <<ops, device, consent, status, principal, transport, refused, failure, recovery,
                     attempt, queue>>
  BY DEF UsageDenied, Arrived, session
<1>2. call[c].op = "refresh" /\ call[c].pc \notin Writes /\ transport \in Servers /\ ~AtIt(c) /\ ~Mends(c)
  BY <1>1, WhoseStep DEF Writes, AtIt, Mends, Recovering, IInv, TypeOK
<1> DEFINE r == [call[c] EXCEPT !.has = @ \cup {"again"}, !.origin = transport]
           q == Ask(r, "verify")
<1>3. CASE call' = [call EXCEPT ![c] = q] /\ UNCHANGED <<reading, flight>> /\ "server" \in call[c].has
  <2>1. call[c] \in Call /\ Form(call[c])
    BY WhoseStep
  <2>2. r \in Call /\ r.op = "refresh" /\ r.origin = transport /\ r.has = call[c].has \cup {"again"}
    BY <1>2, <2>1, CallFields DEF Call, Flags
  <2>3. call' = [call EXCEPT ![c] = q]
    BY <1>3
  <2> HIDE DEF r
  <2>4. /\ q \in Call /\ q.op = "refresh" /\ q.pc = "verify" /\ q.origin = transport /\ q.answer = NoAnswer
        /\ q.has = r.has \cup Signing
    BY <2>2, AskIs
  <2> HIDE DEF q
  <2>5. "writing" \notin q.has /\ ("server" \in q.has => "server" \in call[c].has)
    BY <1>1, <1>2, <2>1, <2>2, <2>4 DEF Signing, Form
  <2>6. Form(q) /\ Live(q) /\ q.pc \notin Writes
    BY <1>2, <2>4, <2>5 DEF Form, Live, Settings, Requests, Writes, NoAnswer
  <2>7. Moves(c) /\ call'[c] = q
    BY <1>1, <1>2, <2>3, <2>4, <2>5, <2>6, OwnMoves
  <2>8. ~AtIt(c)' /\ ~Mends(c)'
    BY <2>4, <2>7 DEF AtIt, Mends, Recovering
  <2>9. Typed /\ (status' = "registered" => principal' # None) /\ DutyStep(c) /\ bound' = bound
    BY <1>1, <1>2, <1>3, <2>8 DEF IInv, TypeOK, Typed, RecordInv, DutyStep, reading
  <2>10. MendStep(c)
    BY <1>1, <1>2, <1>3, <2>5, <2>7, <2>8 DEF MendStep
  <2> QED BY <2>7, <2>9, <2>10 DEF Fine, Good
<1>4. CASE RecoveryEnds(c, FALSE)
  <2>1. Fine(c) /\ MendStep(c)
    BY <1>1, <1>2, <1>4, EndFine
  <2> QED BY <2>1 DEF Good
<1> QED BY <1>3, <1>4 DEF UsageDenied

LEMMA VerifiedAnywayGood == ASSUME IInv, NEW c \in Calls, VerifiedAnyway(c) PROVE Good(c)
<1>1. /\ call[c].pc = "verify" /\ RecoveryEnds(c, FALSE)
      /\ UNCHANGED <<ops, device, consent, status, principal, transport, refused, failure, recovery,
                     attempt, queue>>
  BY DEF VerifiedAnyway, Arrived, session
<1>2. call[c].op = "refresh" /\ call[c].pc \notin Writes /\ ~AtIt(c) /\ ~Mends(c)
  BY <1>1, WhoseStep DEF Writes, AtIt, Mends, Recovering
<1>3. Fine(c) /\ MendStep(c)
  BY <1>1, <1>2, EndFine
<1> QED BY <1>3 DEF Good

LEMMA JoinedContinuesGood == ASSUME IInv, NEW c \in Calls, JoinedContinues(c) PROVE Good(c)
<1> DEFINE result == call[c].answer.kind = "ok"
<1>1. /\ call[c].pc = "told" /\ RecoveryEnds(c, result) /\ result \in BOOLEAN
      /\ UNCHANGED <<ops, device, consent, status, principal, transport, refused, failure, recovery,
                     attempt, queue>>
  BY DEF JoinedContinues, session
<1>2. call[c].op = "refresh" /\ call[c].pc \notin Writes /\ ~AtIt(c) /\ ~Mends(c)
  BY <1>1, WhoseStep DEF Writes, AtIt, Mends, Recovering
<1> HIDE DEF result
<1>3. Fine(c) /\ MendStep(c)
  BY <1>1, <1>2, EndFine
<1> QED BY <1>3 DEF Good

LEMMA VerifiedRevokedGood == ASSUME IInv, NEW c \in Calls, VerifiedRevoked(c) PROVE Good(c)
<1>1. /\ call[c].pc = "verify" /\ CurrentRecovery(c) /\ recovery' = "blocked"
      /\ Enqueue(call, c, Queued(call[c], "block"))
      /\ UNCHANGED <<ops, device, consent, status, principal, transport, refused, failure, ready, fresh,
                     bound, flight, attempt>>
  BY DEF VerifiedRevoked, Arrived, session, reading
<1>2. /\ call[c].op = "refresh" /\ call[c].pc \notin Writes /\ Captured \subseteq call[c].has
      /\ "block" \in Writes \ {"setting"}
  BY <1>1, WhoseStep DEF Writes, CurrentRecovery, Captured
<1>3. /\ Moves(c) /\ call'[c].pc = "block" /\ call'[c].has \subseteq call[c].has
  BY <1>1, <1>2, EnqueueMoves
<1>4. Typed /\ (status' = "registered" => principal' # None) /\ DutyStep(c)
  BY <1>1 DEF IInv, TypeOK, Typed, RecordInv, DutyStep
<1>5. MendStep(c)
  BY <1>1, <1>3 DEF MendStep, Mends, Recovering
<1> QED BY <1>1, <1>3, <1>4, <1>5 DEF Fine, Good

LEMMA VerifiedUnknownGood == ASSUME IInv, NEW c \in Calls, VerifiedUnknown(c) PROVE Good(c)
<1>1. /\ call[c].pc = "verify" /\ call[c].answer # NoAnswer /\ CurrentRecovery(c) /\ TryRecover(c)
      /\ UNCHANGED <<ops, device, consent, status, principal, transport, refused, failure>>
  BY DEF VerifiedUnknown, Arrived, session
<1>2. /\ call[c].op = "refresh" /\ call[c].pc \notin Writes /\ Captured \subseteq call[c].has
      /\ ~AtIt(c) /\ ~Mends(c) /\ consent = "granted"
  BY <1>1, WhoseStep DEF Writes, CurrentRecovery, Captured, AtIt, Mends, Recovering
<1>3. CASE /\ flight # None
           /\ call' = [call EXCEPT ![c].pc = "joined", ![c].arg = flight]
           /\ UNCHANGED <<queue, reading, mending>>
  <2> DEFINE r == [call[c] EXCEPT !.pc = "joined", !.arg = flight]
  <2>1. call[c] \in Call /\ Form(call[c]) /\ Live(call[c]) /\ call \in [Calls -> Call] /\ flight \in Calls
    BY <1>3, WhoseStep DEF IInv, TypeOK
  <2>2. call' = [call EXCEPT ![c] = r]
    BY <1>3, <2>1
  <2>3. /\ r \in Call /\ r.op = "refresh" /\ r.pc = "joined" /\ r.origin = call[c].origin
        /\ r.answer = call[c].answer /\ r.has = call[c].has
    BY <1>2, <2>1 DEF Call, Steps
  <2> HIDE DEF r
  <2>4. "signing" \notin call[c].has
    BY <1>1, <2>1 DEF Form
  <2>5. QED
    <3>1. Form(r) /\ Live(r) /\ "writing" \notin r.has /\ r.pc \notin Writes
      BY <1>1, <1>2, <2>1, <2>3, <2>4 DEF Form, Live, Settings, Requests, Writes
    <3>2. Moves(c) /\ call'[c] = r
      BY <1>1, <1>2, <1>3, <2>2, <2>3, <3>1, OwnMoves
    <3>3. ~AtIt(c)' /\ ~Mends(c)'
      BY <2>3, <3>2 DEF AtIt, Mends, Recovering
    <3>4. Typed /\ (status' = "registered" => principal' # None) /\ DutyStep(c) /\ bound' = bound
      BY <1>1, <1>2, <1>3, <3>3 DEF IInv, TypeOK, Typed, RecordInv, DutyStep, reading, mending
    <3>5. MendStep(c)
      BY <1>2, <1>3, <2>3, <3>2, <3>3 DEF MendStep, mending
    <3> QED BY <3>2, <3>4, <3>5 DEF Fine, Good
<1>4. CASE RecoveryEnds(c, FALSE) /\ UNCHANGED <<queue, recovery, attempt>>
  <2>1. Fine(c) /\ MendStep(c)
    BY <1>1, <1>2, <1>4, EndFine
  <2> QED BY <2>1 DEF Good
<1>5. CASE /\ flight = None
           /\ flight' = c /\ attempt' = "now" /\ recovery' = "checking"
           /\ ready' = FALSE /\ bound' = None
           /\ Enqueue(call, c, Queued(call[c], "revalidate"))
           /\ UNCHANGED fresh
  <2>1. "revalidate" \in Writes \ {"setting"}
    BY DEF Writes
  <2>2. /\ Moves(c) /\ call'[c].pc = "revalidate" /\ call'[c].op = "refresh"
        /\ call'[c].has \subseteq call[c].has /\ Captured \subseteq call'[c].has
    BY <1>1, <1>2, <1>5, <2>1, EnqueueMoves
  <2>3. AtIt(c)' /\ Mends(c)'
    BY <2>2 DEF AtIt, Mends, Recovering
  <2>4. Typed /\ (status' = "registered" => principal' # None) /\ DutyStep(c)
    BY <1>1, <1>5, <2>3 DEF IInv, TypeOK, Typed, RecordInv, DutyStep
  <2>5. MendStep(c)
    BY <1>2, <1>5, <2>2, <2>3 DEF MendStep
  <2> QED BY <1>5, <2>2, <2>4, <2>5 DEF Fine, Good
<1> QED BY <1>1, <1>3, <1>4, <1>5 DEF TryRecover

\* A registration that gives its result, or its failure, to the store.
LEMMA RegistersGood ==
  ASSUME IInv, NEW c \in Calls, NEW pc \in {"record", "unrecord"}, call[c].pc = "register",
         CurrentRecovery(c), Enqueue(call, c, Queued(call[c], pc)),
         pc = "record" => call[c].answer.who \in Principals /\ failure' = failure,
         pc = "unrecord" => failure' = "set",
         UNCHANGED <<ops, consent, transport, refused, device, status, principal, ready, fresh, bound,
                     recovery, flight, attempt>>
  PROVE  Good(c)
<1>1. /\ call[c].op \in {"refresh", "register"} /\ call[c].pc \notin Writes
      /\ Captured \subseteq call[c].has /\ pc \in Writes \ {"setting"}
  BY WhoseStep DEF Writes, CurrentRecovery, Captured
<1>2. /\ Moves(c) /\ call'[c].pc = pc /\ call'[c].op = call[c].op
      /\ call'[c].has \subseteq call[c].has /\ Captured \subseteq call'[c].has
  BY <1>1, EnqueueMoves
<1>3. Mends(c)' <=> Mends(c)
  BY <1>1, <1>2 DEF Mends, Recovering
<1>4. pc = "record" => AtIt(c)'
  BY <1>2 DEF AtIt
<1>5. Typed /\ (status' = "registered" => principal' # None) /\ DutyStep(c)
  BY <1>4 DEF IInv, TypeOK, Typed, RecordInv, DutyStep
<1>6. SingleInv => MendStep(c)
  BY <1>2, <1>3 DEF MendStep, SingleInv, FlightInv
<1> QED BY <1>2, <1>5, <1>6 DEF Fine, Good

\* A registration that is not a recovery's ends.
LEMMA RegisterEndsGood ==
  ASSUME IInv, NEW c \in Calls, call[c].op = "register", call' = [call EXCEPT ![c] = Idle],
         UNCHANGED <<ops, consent, transport, refused, ready, fresh, bound, recovery, flight, attempt>>,
         \/ call[c].pc \notin Writes /\ queue' = queue
         \/ InTurn(c) /\ queue' = Tail(queue),
         Typed, status' = "registered" => principal' # None,
         principal' = None /\ consent = "granted" =>
           failure' = "set" \/ (principal = None /\ failure' = failure /\ ~AtIt(c))
  PROVE  Good(c)
<1>1. call \in [Calls -> Call] /\ ~Setting(c)
  BY DEF IInv, TypeOK, Setting, Settings
<1>2. call'[c] = Idle /\ Others(c) /\ Unbumped(c)
  BY <1>1, IdleIs DEF Others, Stays, Unbumped
<1>3. Form(call[c])' /\ Live(call[c])' /\ ~Setting(c)' /\ call'[c].pc \notin Writes /\ call'[c].has = {}
  BY <1>2, IdleIs DEF Form, Live, Setting, Settings, Writes, Requests, NoAnswer
<1>4. Moves(c)
  BY <1>1, <1>2, <1>3 DEF Moves, QueueStep
<1>5. ~AtIt(c)' /\ ~Mends(c)' /\ ~Mends(c)
  BY <1>2, IdleIs DEF AtIt, Mends
<1>6. DutyStep(c) /\ MendStep(c)
  BY <1>3, <1>5 DEF DutyStep, MendStep
<1> QED BY <1>4, <1>6 DEF Fine, Good

LEMMA RegisterFailsGood ==
  ASSUME IInv, NEW c \in Calls, call[c].pc = "register", RegisterFails(c),
         UNCHANGED <<ops, consent, transport, refused, device, status, principal, attempt>>
  PROVE  Good(c)
<1>1. call[c].op \in {"refresh", "register"} /\ call[c].pc \notin Writes
  BY WhoseStep DEF Writes
<1>2. CASE CurrentRecovery(c)
  <2>1. /\ failure' = "set" /\ Enqueue(call, c, Queued(call[c], "unrecord"))
        /\ UNCHANGED <<ready, fresh, bound, recovery, flight>>
    BY <1>2 DEF RegisterFails, reading
  <2> QED BY <1>2, <2>1, RegistersGood
<1>3. CASE ~CurrentRecovery(c) /\ call[c].op = "refresh"
  <2>1. RecoveryFails(c) /\ RecoveryEnds(c, FALSE) /\ UNCHANGED <<recovery, queue, failure>>
    BY <1>3 DEF RegisterFails, RegisterThrows, RecoveryFails
  <2> QED BY <1>3, <2>1, RecoveryFailsGood
<1>4. CASE ~CurrentRecovery(c) /\ call[c].op = "register"
  <2>1. /\ call' = [call EXCEPT ![c] = Idle]
        /\ UNCHANGED <<queue, ready, fresh, bound, recovery, flight, failure>>
    BY <1>4 DEF RegisterFails, RegisterThrows, reading
  <2>2. consent = "granted" => ~AtIt(c)
    BY <1>4 DEF CurrentRecovery, AtIt, Captured
  <2>3. Typed /\ (status' = "registered" => principal' # None)
    BY <2>1 DEF IInv, TypeOK, Typed, RecordInv
  <2> QED BY <1>1, <1>4, <2>1, <2>2, <2>3, RegisterEndsGood
<1> QED BY <1>1, <1>2, <1>3, <1>4

LEMMA RegisterArrivesGood == ASSUME IInv, NEW c \in Calls, RegisterArrives(c) PROVE Good(c)
<1>1. /\ call[c].pc = "register"
      /\ UNCHANGED <<ops, device, consent, status, principal, transport, refused, attempt>>
  BY DEF RegisterArrives, Arrived, session
<1>2. CASE /\ call[c].answer.kind = "ok" /\ CurrentRecovery(c)
           /\ Enqueue(call, c, Queued(call[c], "record"))
           /\ UNCHANGED <<failure, reading, recovery, flight>>
  <2>1. call[c].answer.who \in Principals
    BY <1>1, <1>2, WhoseStep DEF Form, Requests
  <2>2. UNCHANGED <<ready, fresh, bound>>
    BY <1>2 DEF reading
  <2> QED BY <1>1, <1>2, <2>1, <2>2, RegistersGood
<1>3. CASE RegisterFails(c)
  BY <1>1, <1>3, RegisterFailsGood
<1> QED BY <1>2, <1>3 DEF RegisterArrives

LEMMA ConfirmArrivesGood == ASSUME IInv, NEW c \in Calls, ConfirmArrives(c) PROVE Good(c)
<1>1. /\ call[c].pc = "confirm" /\ call[c].op = "refresh" /\ call[c].pc \notin Writes
      /\ UNCHANGED <<ops, device, consent, status, principal, transport, refused, failure, attempt>>
  BY WhoseStep DEF ConfirmArrives, Arrived, session, Writes
<1>2. CASE /\ CurrentRecovery(c) /\ call[c].answer = [kind |-> "ok", who |-> principal]
           /\ recovery' = "recovered" /\ RecoveryEnds(c, TRUE) /\ UNCHANGED queue
  <2>1. principal \in Principals
    BY <1>1, <1>2, WhoseStep DEF Form, Requests
  <2>2. /\ Moves(c) /\ ~AtIt(c)' /\ ~Mends(c)'
        /\ "server" \in call'[c].has => "server" \in call[c].has
        /\ ready' \in BOOLEAN /\ flight' = (IF flight = c THEN None ELSE flight)
        /\ UNCHANGED <<fresh, bound>>
    BY <1>1, <1>2, EndMoves
  <2>3. Typed /\ (status' = "registered" => principal' # None) /\ DutyStep(c)
    BY <1>1, <1>2, <2>1, <2>2, ServerAssumption DEF IInv, TypeOK, Typed, RecordInv, DutyStep
  <2>4. MendStep(c)
    BY <1>2, <2>2 DEF MendStep
  <2> QED BY <2>2, <2>3, <2>4 DEF Fine, Good
<1>3. CASE RecoveryFails(c)
  BY <1>1, <1>3, RecoveryFailsGood DEF RecoveryFails
<1> QED BY <1>2, <1>3 DEF ConfirmArrives

LEMMA RequestFailsGood == ASSUME IInv, NEW c \in Calls, RequestFails(c) PROVE Good(c)
<1>1. /\ call[c].pc \in Requests /\ UNCHANGED <<ops, device, consent, status, principal, transport, refused, attempt>>
  BY DEF RequestFails, session
<1>2. CASE /\ call[c].pc \in {"usage", "verify"}
           /\ RecoveryEnds(c, FALSE) /\ UNCHANGED <<failure, recovery, queue>>
  <2>1. call[c].op = "refresh" /\ call[c].pc \notin Writes /\ ~AtIt(c) /\ ~Mends(c)
    BY <1>2, WhoseStep DEF Writes, AtIt, Mends, Recovering
  <2>2. Fine(c) /\ MendStep(c)
    BY <1>1, <1>2, <2>1, EndFine
  <2> QED BY <2>2 DEF Good
<1>3. CASE call[c].pc = "register" /\ RegisterFails(c)
  BY <1>1, <1>3, RegisterFailsGood
<1>4. CASE call[c].pc = "confirm" /\ RecoveryFails(c) /\ UNCHANGED failure
  <2>1. call[c].op = "refresh"
    BY <1>4, WhoseStep
  <2> QED BY <1>1, <1>4, <2>1, RecoveryFailsGood DEF RecoveryFails
<1> QED BY <1>1, <1>2, <1>3, <1>4 DEF RequestFails, Requests

(***************************************************************************)
(* The actions of the store.                                               *)
(***************************************************************************)

LEMMA TakeTurnGood == ASSUME IInv, TakeTurn PROVE Head(queue) \in Calls /\ Good(Head(queue))
<1>1. /\ queue # <<>> /\ queue \in Seq(Calls)
      /\ UNCHANGED <<ops, device, consent, status, principal, transport, refused, failure, ready, fresh,
                     bound, recovery, flight, attempt, queue>>
  BY DEF TakeTurn, Turning, session, reading, mending, IInv, TypeOK
<1>2. /\ Head(queue) \in Calls /\ Len(queue) \in Nat /\ 1 \in 1..Len(queue) /\ Head(queue) = queue[1]
  BY <1>1
<1>3. PICK c \in Calls : c = Head(queue)
  BY <1>2
<1> DEFINE has == call[c].has \cup {"writing"}
                    \cup (IF call[c].op \in Settings \/ CurrentRecovery(c) THEN {"kept"} ELSE {})
           r == [call[c] EXCEPT !.has = has]
<1>4. call' = [call EXCEPT ![c] = r]
  BY <1>3 DEF TakeTurn
<1>5. call[c] \in Call /\ Form(call[c]) /\ Live(call[c]) /\ call \in [Calls -> Call]
  BY WhoseStep DEF IInv, TypeOK
<1>6. call[c].pc \in Writes
  BY <1>2, <1>3 DEF IInv, QueueInv
<1>7. /\ call[c].has \subseteq has /\ has \in SUBSET Flags
      /\ has \subseteq call[c].has \cup {"writing", "kept"} /\ (CurrentRecovery(c) => "kept" \in has)
  BY <1>5, CallFields DEF Flags
<1> HIDE DEF has
<1>8. /\ r \in Call /\ r.op = call[c].op /\ r.pc = call[c].pc /\ r.arg = call[c].arg
      /\ r.origin = call[c].origin /\ r.answer = call[c].answer /\ r.has = has
  BY <1>5, <1>7 DEF Call
<1> HIDE DEF r
<1>9. call'[c] = r /\ Others(c) /\ Unbumped(c)
  BY <1>4, <1>5, <1>8 DEF Others, Stays, Unbumped
<1>10. Form(r) /\ Live(r)
  BY <1>5, <1>6, <1>7, <1>8 DEF Form, Live
<1>11. Form(call[c])' /\ Live(call[c])'
  BY <1>1, <1>9, <1>10 DEF Form, Live
<1>12. (CurrentRecovery(c)' <=> CurrentRecovery(c)) /\ (AtIt(c)' <=> AtIt(c)) /\ (Mends(c)' <=> Mends(c))
  BY <1>1, <1>7, <1>8, <1>9 DEF CurrentRecovery, AtIt, Mends, Captured
<1>13. QueueStep(c)
  BY <1>1, <1>3, <1>7, <1>8, <1>9, <1>12 DEF QueueStep, InTurn
<1>14. Moves(c)
  BY <1>1, <1>8, <1>9, <1>11, <1>13 DEF Moves, Setting
<1>15. Typed /\ (status' = "registered" => principal' # None) /\ DutyStep(c)
  BY <1>1, <1>12 DEF IInv, TypeOK, Typed, RecordInv, DutyStep
<1>16. SingleInv => MendStep(c)
  BY <1>1, <1>7, <1>8, <1>9, <1>12 DEF MendStep, SingleInv, FlightInv, BlameInv
<1>17. Good(c)
  BY <1>1, <1>14, <1>15, <1>16 DEF Fine, Good
<1> QED BY <1>2, <1>3, <1>17

\* The store has answered: whose call it is.
LEMMA StoredIs ==
  ASSUME IInv, NEW c \in Calls, NEW pc \in Writes, Stored(c, pc)
  PROVE  /\ InTurn(c) /\ call[c].pc = pc /\ "writing" \in call[c].has /\ "signing" \notin call[c].has
         /\ pc # "setting" => call[c].op \in {"refresh", "register"} /\ ~Setting(c)
         /\ pc \notin {"setting", "record", "unrecord"} => call[c].op = "refresh"
         /\ CurrentRecovery(c) => "kept" \in call[c].has /\ Captured \subseteq call[c].has
<1>1. InTurn(c) /\ call[c].pc = pc /\ "writing" \in call[c].has
  BY DEF Stored, InTurn
<1> QED BY <1>1, WhoseStep DEF IInv, RecordInv, Form, Writes, CurrentRecovery, Captured

\* A write that ends a recovery.
LEMMA WriteEndsGood ==
  ASSUME IInv, NEW c \in Calls, InTurn(c), call[c].op = "refresh", RecoveryEnds(c, FALSE),
         queue' = Tail(queue), UNCHANGED <<ops, consent, transport, refused, device, recovery, attempt>>,
         status' \in {"unregistered", "registered", "failed"}, principal' \in Principals \cup {None},
         failure' \in {"set", "null"}, status' = "registered" => principal' # None,
         principal' = None /\ consent = "granted" =>
           \/ failure' = "set" \/ \E d \in Calls : Setting(d)
           \/ principal = None /\ failure' = failure /\ ~AtIt(c),
         SingleInv /\ recovery = "checking" /\ consent = "granted" => ~Mends(c)
  PROVE  Good(c)
<1>1. /\ Moves(c) /\ ~AtIt(c)' /\ ~Mends(c)'
      /\ "server" \in call'[c].has => "server" \in call[c].has
      /\ ready' \in BOOLEAN /\ flight' = (IF flight = c THEN None ELSE flight)
      /\ UNCHANGED <<fresh, bound>>
  BY EndMoves
<1>2. Typed
  BY <1>1 DEF IInv, TypeOK, Typed
<1>3. DutyStep(c)
  BY DEF DutyStep
<1>4. SingleInv => MendStep(c)
  BY <1>1 DEF MendStep
<1> QED BY <1>1, <1>2, <1>3, <1>4 DEF Fine, Good

LEMMA BlockedGood == ASSUME IInv, NEW c \in Calls, Blocked(c) PROVE Good(c)
<1>1. /\ Stored(c, "block") /\ "block" \in Writes /\ RecoveryEnds(c, FALSE) /\ queue' = Tail(queue)
      /\ UNCHANGED <<ops, device, consent, transport, refused, failure, recovery, attempt>>
      /\ status' \in {status, "failed"} /\ principal' = principal
  BY DEF Blocked, Refused, Registration, settled, Writes
<1>2. InTurn(c) /\ call[c].op = "refresh" /\ ~AtIt(c) /\ ~Mends(c)
  BY <1>1, StoredIs DEF AtIt, Mends, Recovering
<1>3. /\ status' \in {"unregistered", "registered", "failed"} /\ principal' \in Principals \cup {None}
      /\ failure' \in {"set", "null"} /\ (status' = "registered" => principal' # None)
  BY <1>1 DEF IInv, TypeOK, RecordInv
<1> QED BY <1>1, <1>2, <1>3, WriteEndsGood

LEMMA BlamedGood == ASSUME IInv, NEW c \in Calls, Blamed(c) PROVE Good(c)
<1>1. /\ Stored(c, "blame") /\ "blame" \in Writes /\ RecoveryEnds(c, FALSE) /\ queue' = Tail(queue)
      /\ UNCHANGED <<ops, device, consent, transport, refused, recovery, attempt>>
      /\ status' \in {status, "failed"} /\ principal' = principal /\ failure' \in {failure, "set"}
  BY DEF Blamed, Refused, Registration, settled, Writes
<1>2. InTurn(c) /\ call[c].op = "refresh" /\ ~AtIt(c) /\ call[c].pc = "blame"
  BY <1>1, StoredIs DEF AtIt
<1>3. SingleInv /\ recovery = "checking" => ~Mends(c)
  BY <1>2 DEF SingleInv, BlameInv
<1>4. /\ status' \in {"unregistered", "registered", "failed"} /\ principal' \in Principals \cup {None}
      /\ failure' \in {"set", "null"} /\ (status' = "registered" => principal' # None)
  BY <1>1 DEF IInv, TypeOK, RecordInv
<1> QED BY <1>1, <1>2, <1>3, <1>4, WriteEndsGood

LEMMA RevalidatedGood == ASSUME IInv, NEW c \in Calls, Revalidated(c) PROVE Good(c)
<1>1. /\ Stored(c, "revalidate") /\ "revalidate" \in Writes /\ queue' = Tail(queue)
      /\ UNCHANGED <<ops, device, consent, transport, refused, failure, recovery, attempt>>
      /\ \/ status' = "failed" /\ principal' = None
         \/ status' = status /\ principal' = principal
  BY DEF Revalidated, Registration, settled, Writes
<1>2. /\ InTurn(c) /\ call[c].op = "refresh" /\ call[c].pc = "revalidate" /\ "signing" \notin call[c].has
      /\ ~Setting(c) /\ (CurrentRecovery(c) => Captured \subseteq call[c].has)
  BY <1>1, StoredIs
<1>3. /\ status' \in {"unregistered", "registered", "failed"} /\ principal' \in Principals \cup {None}
      /\ failure' \in {"set", "null"} /\ (status' = "registered" => principal' # None)
  BY <1>1 DEF IInv, TypeOK, RecordInv
<1>4. CASE CurrentRecovery(c) /\ call' = [call EXCEPT ![c] = Registering(call[c])] /\ UNCHANGED <<reading, flight>>
  <2> DEFINE r == Registering(call[c])
  <2>1. call[c] \in Call /\ Form(call[c]) /\ call \in [Calls -> Call] /\ transport \in Servers
    BY WhoseStep DEF IInv, TypeOK
  <2>2. /\ r \in Call /\ r.op = "refresh" /\ r.pc = "register" /\ r.arg = transport
        /\ r.origin = call[c].origin /\ r.answer = NoAnswer
        /\ r.has = (call[c].has \ {"writing", "kept"}) \cup {"live"}
    BY <1>2, <2>1, RegisteringIs DEF IInv
  <2>3. call' = [call EXCEPT ![c] = r]
    BY <1>4
  <2> HIDE DEF r
  <2>4. r.has \subseteq call[c].has \cup {"live"} /\ Captured \subseteq r.has /\ "writing" \notin r.has
        /\ "signing" \notin r.has
    BY <1>2, <1>4, <2>2 DEF Captured
  <2>5. call'[c] = r /\ Unbumped(c)
    BY <2>1, <2>2, <2>3 DEF Unbumped
  <2>6. Others(c)
    BY <2>1, <2>2, <2>3 DEF Others, Stays
  <2>7. Form(r) /\ Live(r) /\ r.pc \notin Writes
    BY <1>2, <2>1, <2>2, <2>4 DEF Form, Live, Settings, Requests, Writes, NoAnswer
  <2>8. Form(call[c])' /\ Live(call[c])' /\ ~Setting(c)'
    BY <1>1, <2>2, <2>5, <2>7 DEF Form, Live, Setting, Settings
  <2>9. Moves(c)
    BY <1>1, <1>2, <2>4, <2>5, <2>6, <2>7, <2>8 DEF Moves, QueueStep
  <2>10. AtIt(c)' /\ Mends(c)' /\ Mends(c)
    BY <1>2, <1>4, <2>2, <2>4, <2>5 DEF AtIt, Mends, Recovering
  <2>11. Typed /\ DutyStep(c) /\ bound' = bound
    BY <1>1, <1>3, <1>4, <2>10 DEF IInv, TypeOK, Typed, DutyStep, reading
  <2>12. SingleInv => MendStep(c)
    BY <1>1, <1>4, <2>2, <2>4, <2>5, <2>10 DEF MendStep, SingleInv, FlightInv
  <2> QED BY <1>3, <2>9, <2>11, <2>12 DEF Fine, Good
<1>5. CASE ~CurrentRecovery(c) /\ RecoveryEnds(c, FALSE)
  <2>1. consent = "granted" => ~(Captured \subseteq call[c].has)
    BY <1>5 DEF CurrentRecovery, Captured
  <2>2. consent = "granted" => ~Mends(c) /\ \E d \in Calls : Setting(d)
    BY <1>1, <1>2, <2>1 DEF IInv, BehindInv, Mends
  <2> QED BY <1>1, <1>2, <1>3, <1>5, <2>2, WriteEndsGood
<1> QED BY <1>4, <1>5 DEF Revalidated

LEMMA RevalidateRefusedGood == ASSUME IInv, NEW c \in Calls, RevalidateRefused(c) PROVE Good(c)
<1>1. /\ Stored(c, "revalidate") /\ "revalidate" \in Writes /\ WriteThrows(c)
      /\ UNCHANGED <<ops, device, consent, status, principal, transport, refused, failure, attempt>>
  BY DEF RevalidateRefused, Refused, session, Writes
<1>2. InTurn(c) /\ call[c].op = "refresh" /\ call[c].pc = "revalidate"
  BY <1>1, StoredIs
<1> QED BY <1>1, <1>2, WriteThrowsGood

LEMMA RecordedGood == ASSUME IInv, NEW c \in Calls, Recorded(c) PROVE Good(c)
<1> DEFINE who == call[c].answer.who
<1>1. /\ Stored(c, "record") /\ "record" \in Writes /\ queue' = Tail(queue)
      /\ UNCHANGED <<ops, device, consent, transport, refused, recovery, attempt>>
      /\ failure' = (IF CurrentRecovery(c) THEN "null" ELSE failure)
  BY DEF Recorded, settled, Writes
<1>2. /\ InTurn(c) /\ call[c].op \in {"refresh", "register"} /\ call[c].pc = "record"
      /\ "signing" \notin call[c].has /\ ~Setting(c)
      /\ CurrentRecovery(c) => "kept" \in call[c].has /\ Captured \subseteq call[c].has
      /\ call[c] \in Call /\ Form(call[c]) /\ call \in [Calls -> Call]
  BY <1>1, StoredIs, WhoseStep DEF IInv, TypeOK
<1>3. who \in Principals /\ who # None
  BY <1>2, ServerAssumption DEF Form
<1>4. /\ \/ status' = "registered" /\ principal' = who
         \/ "kept" \notin call[c].has /\ status' = status /\ principal' = principal
  BY DEF Recorded, Registration
<1> HIDE DEF who
<1>5. /\ status' \in {"unregistered", "registered", "failed"} /\ principal' \in Principals \cup {None}
      /\ failure' \in {"set", "null"} /\ (status' = "registered" => principal' # None)
  BY <1>1, <1>3, <1>4 DEF IInv, TypeOK, RecordInv
<1>6. principal' = None => ~CurrentRecovery(c) /\ principal = None /\ failure' = failure
  BY <1>1, <1>2, <1>3, <1>4
<1>7. principal' = None /\ consent = "granted" => principal = None /\ failure' = failure /\ ~AtIt(c)
  BY <1>6 DEF CurrentRecovery, AtIt, Captured
<1>8. CASE call[c].op = "refresh" /\ ~CurrentRecovery(c) /\ RecoveryEnds(c, FALSE)
  <2>1. consent = "granted" => ~Mends(c)
    BY <1>8 DEF CurrentRecovery, Mends, Captured
  <2> QED BY <1>1, <1>2, <1>5, <1>7, <1>8, <2>1, WriteEndsGood
<1>9. CASE call[c].op = "register" /\ call' = [call EXCEPT ![c] = Idle] /\ UNCHANGED <<reading, flight>>
  <2>1. Typed /\ UNCHANGED <<ready, fresh, bound, flight>>
    BY <1>1, <1>5, <1>9 DEF IInv, TypeOK, Typed, reading
  <2> QED BY <1>1, <1>2, <1>5, <1>7, <1>9, <2>1, RegisterEndsGood
<1> DEFINE has == (call[c].has \ {"writing", "kept"})
                    \ (IF transport = call[c].origin THEN {} ELSE {"live"})
           r == [call[c] EXCEPT !.has = has]
           q == Ask(r, "confirm")
<1>10. CASE /\ call[c].op = "refresh" /\ CurrentRecovery(c)
            /\ call' = [call EXCEPT ![c] = q] /\ UNCHANGED <<reading, flight>>
  <2>1. /\ has \subseteq call[c].has /\ "writing" \notin has /\ Captured \subseteq has
        /\ "live" \in has => transport = call[c].origin
    BY <1>2, <1>10 DEF Captured
  <2> HIDE DEF has
  <2>2. r \in Call /\ r.op = "refresh" /\ r.origin = call[c].origin /\ r.has = has
    BY <1>2, <1>10, <2>1, CallFields DEF Call
  <2>3. call' = [call EXCEPT ![c] = q]
    BY <1>10
  <2> HIDE DEF r
  <2>4. /\ q \in Call /\ q.op = "refresh" /\ q.pc = "confirm" /\ q.origin = call[c].origin
        /\ q.answer = NoAnswer /\ q.has = has \cup Signing
    BY <2>2, AskIs
  <2> HIDE DEF q
  <2>5. Signing \in SUBSET {"signing"}
    BY DEF Signing
  <2>6. Captured \subseteq q.has /\ "writing" \notin q.has /\ ("live" \in q.has => transport = q.origin)
        /\ ("server" \in q.has => "server" \in call[c].has)
    BY <2>1, <2>4, <2>5
  <2>7. call'[c] = q /\ Unbumped(c)
    BY <1>2, <2>3, <2>4 DEF Unbumped
  <2>8. Others(c)
    BY <1>2, <2>3, <2>4 DEF Others, Stays
  <2>9. Form(q) /\ Live(q) /\ q.pc \notin Writes
    BY <1>2, <1>10, <2>4, <2>6 DEF Form, Live, Settings, Requests, Writes, NoAnswer
  <2>10. Form(call[c])' /\ Live(call[c])' /\ ~Setting(c)'
    BY <1>1, <2>4, <2>7, <2>9 DEF Form, Live, Setting, Settings
  <2>11. Moves(c)
    BY <1>1, <1>2, <2>6, <2>7, <2>8, <2>9, <2>10 DEF Moves, QueueStep
  <2>12. Mends(c)' /\ Mends(c)
    BY <1>2, <1>10, <2>4, <2>6, <2>7 DEF Mends, Recovering
  <2>13. Typed /\ DutyStep(c) /\ bound' = bound
    BY <1>1, <1>5, <1>6, <1>10 DEF IInv, TypeOK, Typed, DutyStep, reading
  <2>14. SingleInv => MendStep(c)
    BY <1>1, <1>10, <2>4, <2>6, <2>7, <2>12 DEF MendStep, SingleInv, FlightInv
  <2> QED BY <1>5, <2>11, <2>13, <2>14 DEF Fine, Good
<1>11. \/ call[c].op = "refresh" /\ ~CurrentRecovery(c) /\ RecoveryEnds(c, FALSE)
       \/ call[c].op = "register" /\ call' = [call EXCEPT ![c] = Idle] /\ UNCHANGED <<reading, flight>>
       \/ /\ call[c].op = "refresh" /\ CurrentRecovery(c)
          /\ call' = [call EXCEPT ![c] = q] /\ UNCHANGED <<reading, flight>>
  BY <1>2 DEF Recorded
<1> QED BY <1>8, <1>9, <1>10, <1>11

LEMMA RecordRefusedGood == ASSUME IInv, NEW c \in Calls, RecordRefused(c) PROVE Good(c)
<1>1. /\ Stored(c, "record") /\ "record" \in Writes
      /\ UNCHANGED <<ops, device, consent, status, principal, transport, refused, attempt>>
  BY DEF RecordRefused, Refused, session, Writes
<1>2. /\ InTurn(c) /\ call[c].op \in {"refresh", "register"} /\ call[c].pc = "record"
      /\ CurrentRecovery(c) => Captured \subseteq call[c].has
  BY <1>1, StoredIs
<1>3. CASE CurrentRecovery(c) /\ failure' = "set" /\ Again(c, "unrecord") /\ UNCHANGED recovery
  <2>1. /\ Moves(c) /\ call'[c].pc = "unrecord" /\ call'[c].op = call[c].op
        /\ call'[c].has \subseteq call[c].has /\ Captured \subseteq call'[c].has
    BY <1>1, <1>2, <1>3, AgainMoves
  <2>2. Mends(c)' <=> Mends(c)
    BY <1>2, <1>3, <2>1 DEF Mends, Recovering
  <2>3. UNCHANGED <<ready, fresh, bound, flight>>
    BY <1>3 DEF Again, reading
  <2>4. Typed /\ (status' = "registered" => principal' # None) /\ DutyStep(c)
    BY <1>1, <1>3, <2>3 DEF IInv, TypeOK, Typed, RecordInv, DutyStep
  <2>5. SingleInv => MendStep(c)
    BY <1>3, <2>1, <2>2, <2>3 DEF MendStep, SingleInv, FlightInv
  <2> QED BY <2>1, <2>3, <2>4, <2>5 DEF Fine, Good
<1>4. CASE ~CurrentRecovery(c) /\ call[c].op = "refresh" /\ WriteThrows(c) /\ UNCHANGED failure
  BY <1>1, <1>2, <1>4, WriteThrowsGood
<1>5. CASE /\ ~CurrentRecovery(c) /\ call[c].op = "register" /\ UNCHANGED failure
           /\ call' = [call EXCEPT ![c] = Idle] /\ queue' = Tail(queue)
           /\ UNCHANGED <<reading, flight, recovery>>
  <2>1. Typed /\ (status' = "registered" => principal' # None) /\ UNCHANGED <<ready, fresh, bound>>
    BY <1>1, <1>5 DEF IInv, TypeOK, Typed, RecordInv, reading
  <2>2. consent = "granted" => ~AtIt(c)
    BY <1>5 DEF CurrentRecovery, AtIt, Captured
  <2> QED BY <1>1, <1>2, <1>5, <2>1, <2>2, RegisterEndsGood
<1>6. \/ CurrentRecovery(c) /\ failure' = "set" /\ Again(c, "unrecord") /\ UNCHANGED recovery
      \/ ~CurrentRecovery(c) /\ call[c].op = "refresh" /\ WriteThrows(c) /\ UNCHANGED failure
      \/ /\ ~CurrentRecovery(c) /\ call[c].op = "register" /\ UNCHANGED failure
         /\ call' = [call EXCEPT ![c] = Idle] /\ queue' = Tail(queue)
         /\ UNCHANGED <<reading, flight, recovery>>
  BY <1>2 DEF RecordRefused
<1> QED BY <1>3, <1>4, <1>5, <1>6

LEMMA UnrecordedGood == ASSUME IInv, NEW c \in Calls, Unrecorded(c) PROVE Good(c)
<1>1. /\ Stored(c, "unrecord") /\ "unrecord" \in Writes
      /\ UNCHANGED <<ops, device, consent, principal, transport, refused, failure, attempt>>
      /\ status' \in {status, "failed"}
  BY DEF Unrecorded, Refused, Registration, settled, Writes
<1>2. /\ InTurn(c) /\ call[c].op \in {"refresh", "register"} /\ call[c].pc = "unrecord" /\ ~AtIt(c)
  BY <1>1, StoredIs DEF AtIt
<1>3. CASE call[c].op = "refresh" /\ WriteThrows(c)
  BY <1>1, <1>2, <1>3, WriteThrowsGood
<1>4. CASE /\ call[c].op = "register" /\ call' = [call EXCEPT ![c] = Idle] /\ queue' = Tail(queue)
           /\ UNCHANGED <<reading, flight, recovery>>
  <2>1. Typed /\ (status' = "registered" => principal' # None) /\ UNCHANGED <<ready, fresh, bound>>
    BY <1>1, <1>4 DEF IInv, TypeOK, Typed, RecordInv, reading
  <2> QED BY <1>1, <1>2, <1>4, <2>1, RegisterEndsGood
<1>5. \/ call[c].op = "refresh" /\ WriteThrows(c)
      \/ /\ call[c].op = "register" /\ call' = [call EXCEPT ![c] = Idle] /\ queue' = Tail(queue)
         /\ UNCHANGED <<reading, flight, recovery>>
  BY <1>2 DEF Unrecorded
<1> QED BY <1>3, <1>4, <1>5

(***************************************************************************)
(* The settings.                                                           *)
(***************************************************************************)

\* A setting takes from the calls what they captured, and waits for the store.
LEMMA SettingStarts ==
  ASSUME IInv, NEW c \in Calls, NEW op \in Settings, NEW flags, NEW arg, MayStart(op, c),
         op = "consent" => arg \in Consent /\ flags = {"consent", "again"},
         op = "server" => arg \in Servers /\ flags = {"server"},
         Enqueue(Bumped(flags), c, [Idle EXCEPT !.op = op, !.pc = "setting", !.arg = arg]),
         UNCHANGED <<ops, device, consent, status, principal, transport, refused, failure, ready, fresh, bound>>,
         recovery' \in {"none", recovery}, flight' \in {None, flight}, attempt' \in {"never", attempt}
  PROVE  /\ IInv' /\ call'[c].op = op
         /\ \A d \in Calls \ {c} : ~Setting(d)' /\ call'[d].has = call[d].has \ flags
         /\ \A d \in Calls : ~Mends(d)' /\ (op = "server" => "server" \notin call'[d].has)
<1> DEFINE r == [Idle EXCEPT !.op = op, !.pc = "setting", !.arg = arg]
<1>1. /\ call \in [Calls -> Call] /\ call[c].pc = "idle" /\ \A d \in Calls : ~Setting(d)
      /\ QueueInv /\ TypeOK
  BY DEF MayStart, IInv, TypeOK, Setting
<1>2. /\ r \in Call /\ r.op = op /\ r.pc = "setting" /\ r.arg = arg /\ r.has = {} /\ r.answer = NoAnswer
      /\ op \in {"consent", "server"}
  BY IdleIs DEF Call, Steps, Writes, Settings
<1>3. call' = [Bumped(flags) EXCEPT ![c] = r] /\ queue' = Append(queue, c)
  BY DEF Enqueue
<1>4. \A d \in Calls : /\ Bumped(flags)[d] \in Call /\ Bumped(flags)[d].op = call[d].op
                       /\ Bumped(flags)[d].pc = call[d].pc /\ Bumped(flags)[d].arg = call[d].arg
                       /\ Bumped(flags)[d].origin = call[d].origin
                       /\ Bumped(flags)[d].answer = call[d].answer
                       /\ Bumped(flags)[d].has = call[d].has \ flags
  <2> SUFFICES ASSUME NEW d \in Calls
               PROVE  /\ Bumped(flags)[d] \in Call /\ Bumped(flags)[d].op = call[d].op
                      /\ Bumped(flags)[d].pc = call[d].pc /\ Bumped(flags)[d].arg = call[d].arg
                      /\ Bumped(flags)[d].origin = call[d].origin
                      /\ Bumped(flags)[d].answer = call[d].answer
                      /\ Bumped(flags)[d].has = call[d].has \ flags
    OBVIOUS
  <2> DEFINE has == call[d].has \ flags
  <2>1. call[d] \in Call /\ has \in SUBSET Flags
    BY <1>1, CallFields
  <2>2. Bumped(flags)[d] = [call[d] EXCEPT !.has = has]
    BY <2>1 DEF Bumped, Call
  <2>3. has = call[d].has \ flags
    OBVIOUS
  <2> HIDE DEF has
  <2> QED BY <2>1, <2>2, <2>3 DEF Call
<1>5. Bumped(flags) \in [Calls -> Call]
  BY <1>4 DEF Bumped
<1> HIDE DEF r
<1>6. /\ call' \in [Calls -> Call] /\ call'[c] = r
      /\ \A d \in Calls \ {c} : call'[d] = Bumped(flags)[d]
  BY <1>2, <1>3, <1>5
<1>7. \A d \in Calls \ {c} :
        /\ call'[d].op = call[d].op /\ call'[d].pc = call[d].pc /\ call'[d].arg = call[d].arg
        /\ call'[d].origin = call[d].origin /\ call'[d].answer = call[d].answer
        /\ call'[d].has = call[d].has \ flags
  BY <1>4, <1>6
<1>8. "kept" \notin flags /\ "writing" \notin flags /\ \E f \in Captured : f \in flags
  BY <1>2 DEF Captured
<1>9. Others(c)
  BY <1>6, <1>7, <1>8 DEF Others, Stays
<1>10. /\ QueueInv' /\ queue' \in Seq(Calls) /\ Len(queue) \in Nat /\ Len(queue') = Len(queue) + 1
       /\ \A i \in 1..Len(queue) : queue'[i] = queue[i] /\ queue[i] \in Calls \ {c}
  BY <1>1, <1>2, <1>3, <1>6, <1>9, AppendKeeps DEF Writes
<1>11. Setting(c)' /\ \A d \in Calls \ {c} : ~Setting(d)'
  BY <1>1, <1>2, <1>6, <1>7 DEF Setting
<1>12. BehindInv'
  <2>1. ASSUME NEW i \in 1..Len(queue'), NEW j \in 1..Len(queue'), j < i, Setting(queue[j])'
        PROVE  FALSE
    <3>1. i \in Nat /\ j \in Nat /\ 1 <= j /\ i <= Len(queue) + 1 /\ j < i
      BY <1>10, <2>1
    <3>2. j \in 1..Len(queue)
      BY <1>10, <3>1
    <3>3. queue'[j] \in Calls \ {c}
      BY <1>10, <3>2
    <3> QED BY <1>11, <2>1, <3>3 DEF Setting
  <2> QED BY <1>11, <2>1 DEF BehindInv, Setting
<1>13. TypeOK'
  BY <1>1, <1>6, <1>10 DEF TypeOK
<1>14. CallInv'
  <2>1. Form(r)' /\ Live(r)'
    BY <1>2 DEF Form, Live, Settings, Requests, Writes, NoAnswer
  <2>2. Form(call[c])' /\ Live(call[c])'
    BY <1>2, <1>6 DEF Form, Live, Settings, Requests, Writes, NoAnswer
  <2>3. ASSUME NEW d \in Calls \ {c} PROVE Form(call[d])' /\ Live(call[d])'
    BY <1>7, WhoseStep DEF Form, Live
  <2> QED BY <2>2, <2>3 DEF CallInv
<1>15. OneSetting' /\ DutyInv'
  BY <1>11 DEF OneSetting, DutyInv, Setting
<1>16. RecordInv'
  <2>1. ASSUME NEW d \in Calls, "writing" \in call'[d].has, CurrentRecovery(d)'
        PROVE  "kept" \in call'[d].has
    <3>1. d # c
      BY <1>2, <1>6, <2>1
    <3>2. "writing" \in call[d].has /\ CurrentRecovery(d)
      BY <1>7, <2>1, <3>1 DEF CurrentRecovery
    <3> QED BY <1>7, <1>8, <3>1, <3>2 DEF IInv, RecordInv
  <2> QED BY <2>1 DEF IInv, RecordInv
<1>17. ReadFromServerInEffect'
  BY DEF IInv, ReadFromServerInEffect
<1>18. \A d \in Calls : ~Mends(d)' /\ (op = "server" => "server" \notin call'[d].has)
  <2>1. ~Mends(c)' /\ call'[c].has = {}
    BY <1>2, <1>6 DEF Mends
  <2>2. \A d \in Calls \ {c} : ~(Captured \subseteq call'[d].has) /\ (op = "server" => "server" \notin call'[d].has)
    BY <1>2, <1>7, <1>8
  <2> QED BY <2>1, <2>2 DEF Mends
<1> QED BY <1>2, <1>6, <1>7, <1>10, <1>11, <1>12, <1>13, <1>14, <1>15, <1>16, <1>17, <1>18 DEF IInv

LEMMA SetConsentKeeps ==
  ASSUME IInv, NEW c \in Calls, SetConsent(c)
  PROVE  /\ IInv' /\ SingleInv'
         /\ \A d \in Calls \ {c} : call'[d].has = call[d].has \ {"consent", "again"}
<1>1. PICK state \in Consent :
        Enqueue(Bumped({"consent", "again"}), c,
                [Idle EXCEPT !.op = "consent", !.pc = "setting", !.arg = state])
  BY DEF SetConsent
<1>2. /\ MayStart("consent", c) /\ recovery' = "none" /\ attempt' = "never" /\ flight' = None
      /\ UNCHANGED <<ops, device, consent, status, principal, transport, refused, failure, ready, fresh, bound>>
      /\ "consent" \in Settings
  BY DEF SetConsent, session, reading, Settings
<1>3. /\ IInv' /\ call'[c].op = "consent"
      /\ \A d \in Calls \ {c} : ~Setting(d)' /\ call'[d].has = call[d].has \ {"consent", "again"}
      /\ \A d \in Calls : ~Mends(d)'
  BY <1>1, <1>2, SettingStarts
<1>4. SingleInv'
  BY <1>2, <1>3 DEF SingleInv, NoneSurvives, FlightInv, BlameInv, CheckingInv, Setting, Settings
<1> QED BY <1>3, <1>4

LEMMA SetServerKeeps ==
  ASSUME IInv, NEW c \in Calls, SetServer(c)
  PROVE  /\ IInv' /\ SingleInv'
         /\ \A d \in Calls \ {c} : call'[d].has = call[d].has \ {"server"}
<1>1. PICK origin \in Servers :
        Enqueue(Bumped({"server"}), c,
                [Idle EXCEPT !.op = "server", !.pc = "setting", !.arg = origin])
  BY DEF SetServer
<1>2. /\ MayStart("server", c)
      /\ UNCHANGED <<ops, device, consent, status, principal, transport, refused, failure, ready, fresh, bound,
                     recovery, attempt, flight>>
      /\ "server" \in Settings
  BY DEF SetServer, session, reading, mending, Settings
<1>3. /\ IInv' /\ call'[c].op = "server"
      /\ \A d \in Calls \ {c} : ~Setting(d)' /\ call'[d].has = call[d].has \ {"server"}
      /\ \A d \in Calls : ~Mends(d)' /\ "server" \notin call'[d].has
  BY <1>1, <1>2, SettingStarts
<1>4. SingleInv'
  BY <1>2, <1>3 DEF SingleInv, NoneSurvives, FlightInv, BlameInv, CheckingInv, Setting, Settings
<1> QED BY <1>3, <1>4

\* The store has answered a setting, and whoever waits behind it has what it captured.
LEMMA SettingEnds ==
  ASSUME IInv, NEW c \in Calls, Stored(c, "setting"), queue' = Tail(queue), Others(c),
         \A d \in Calls \ {c} : /\ call'[d].pc = call[d].pc /\ (Captured \cap call[d].has) \subseteq call'[d].has
                                /\ "live" \in call'[d].has => transport' = transport,
         \/ call'[c] = Idle
         \/ call'[c] = [Idle EXCEPT !.op = "register", !.pc = "register", !.arg = transport',
                                    !.has = {"server", "again", "live"}],
         consent' \in Consent, transport' \in Servers, refused' \in BOOLEAN, UNCHANGED ops, Typed,
         status' = "registered" => principal' # None,
         principal' = None /\ consent' = "granted" /\ ~refused' => failure' = "set" \/ call'[c].op = "register",
         bound' = None \/ (bound' = bound /\ transport' = transport)
  PROVE  /\ IInv' /\ Setting(c) /\ \A d \in Calls : ~Setting(d)'
         /\ ~Mends(c) /\ \A d \in Calls : Mends(d)' <=> Mends(d)
<1>1. /\ InTurn(c) /\ call[c].pc = "setting" /\ Setting(c) /\ TypeOK /\ QueueInv /\ call[c] \in Call
      /\ call[c].op \in Settings
  BY WhoseStep DEF Stored, InTurn, IInv, Form, Setting
<1>2. /\ call'[c].op \in {"none", "register"} /\ call'[c].pc \notin Writes /\ "writing" \notin call'[c].has
      /\ ~Setting(c)' /\ Form(call[c])' /\ Live(call[c])'
      /\ (call'[c].op = "register" => call'[c].pc = "register" /\ call'[c].has = {"server", "again", "live"})
  <2>1. CASE call'[c] = Idle
    BY <2>1, IdleIs DEF Form, Live, Setting, Settings, Requests, Writes, NoAnswer
  <2>2. CASE call'[c] = [Idle EXCEPT !.op = "register", !.pc = "register", !.arg = transport',
                                     !.has = {"server", "again", "live"}]
    <3>1. /\ call'[c].op = "register" /\ call'[c].pc = "register" /\ call'[c].arg = transport'
          /\ call'[c].has = {"server", "again", "live"} /\ call'[c].answer = NoAnswer
      BY <2>2, IdleIs DEF Call
    <3> QED BY <3>1 DEF Form, Live, Setting, Settings, Requests, Writes, NoAnswer
  <2> QED BY <2>1, <2>2
<1>3. \A d \in Calls \ {c} : /\ call'[d].op = call[d].op /\ call'[d].pc = call[d].pc
                             /\ call'[d].arg = call[d].arg /\ call'[d].answer = call[d].answer
                             /\ call'[d].origin = call[d].origin /\ call'[d].has \subseteq call[d].has
                             /\ (Captured \subseteq call[d].has <=> Captured \subseteq call'[d].has)
  BY DEF Others, Stays
<1>4. /\ QueueInv' /\ queue' \in Seq(Calls) /\ queue[1] = c
      /\ Len(queue') \in Nat /\ Len(queue) = Len(queue') + 1
      /\ \A i \in 1..Len(queue') : queue'[i] = queue[i + 1] /\ queue'[i] \in Calls \ {c}
  BY <1>1, <1>2, LeaveKeeps
<1>5. \A d \in Calls \ {c} : ~Setting(d) /\ ~Setting(d)'
  BY <1>1, <1>3 DEF IInv, OneSetting, Setting
<1>6. \A d \in Calls : ~Setting(d)'
  BY <1>2, <1>5
<1>7. \A d \in Calls : "writing" \notin call'[d].has
  BY <1>1, <1>2, <1>3 DEF QueueInv, InTurn
<1>8. BehindInv'
  <2>1. ASSUME NEW d \in Calls, call'[d].pc \in Writes PROVE Captured \subseteq call'[d].has
    <3>1. PICK i \in 1..Len(queue') : queue'[i] = d
      BY <1>4, <2>1 DEF QueueInv
    <3>2. /\ i + 1 \in 1..Len(queue) /\ 1 \in 1..Len(queue) /\ 1 < i + 1
          /\ queue[i + 1] = d /\ d # c
      BY <1>4, <3>1
    <3>3. Captured \subseteq call[d].has
      BY <1>1, <1>4, <3>2 DEF IInv, BehindInv, Setting
    <3> QED BY <1>3, <3>2, <3>3
  <2>2. \A j \in 1..Len(queue') : ~Setting(queue[j])'
    BY <1>4, <1>6 DEF Setting
  <2> QED BY <2>1, <2>2 DEF BehindInv, Setting
<1>9. CallInv'
  <2>1. ASSUME NEW d \in Calls \ {c} PROVE Form(call[d])' /\ Live(call[d])'
    <3>1. Form(call[d]) /\ Live(call[d])
      BY WhoseStep
    <3>2. Form(call[d])'
      BY <1>3, <3>1 DEF Form
    <3>3. Live(call[d])'
      BY <1>3, <3>1 DEF Live
    <3> QED BY <3>2, <3>3
  <2> QED BY <1>2, <2>1 DEF CallInv
<1>10. TypeOK'
  BY <1>1, <1>4 DEF TypeOK, Typed, Others
<1>11. OneSetting' /\ RecordInv'
  BY <1>6, <1>7 DEF OneSetting, RecordInv
<1>12. call'[c].op = "register" => AtIt(c)'
  BY <1>2 DEF AtIt, Captured
<1>13. DutyInv'
  BY <1>12 DEF DutyInv
<1>14. ReadFromServerInEffect'
  BY DEF IInv, ReadFromServerInEffect
<1>15. ~Mends(c) /\ ~Mends(c)' /\ \A d \in Calls \ {c} : Mends(d)' <=> Mends(d)
  BY <1>1, <1>2, <1>3 DEF Mends, Settings
<1> QED BY <1>1, <1>4, <1>6, <1>8, <1>9, <1>10, <1>11, <1>13, <1>14, <1>15 DEF IInv

LEMMA ConsentStoredKeeps ==
  ASSUME IInv, NEW c \in Calls, ConsentStored(c)
  PROVE  IInv' /\ (SingleInv => SingleInv') /\ (\A d \in Calls \ {c} : call'[d].has = call[d].has)
<1> DEFINE q == IF consent' = "granted" /\ status # "registered"
                THEN [Idle EXCEPT !.op = "register", !.pc = "register", !.arg = transport',
                                  !.has = {"server", "again", "live"}]
                ELSE Idle
<1>1. /\ Stored(c, "setting") /\ call[c].op = "consent" /\ consent' = call[c].arg /\ refused' = FALSE
      /\ queue' = Tail(queue) /\ call' = [call EXCEPT ![c] = q]
      /\ UNCHANGED <<ops, device, status, principal, transport, failure, ready, fresh, bound,
                     recovery, flight, attempt>>
  BY DEF ConsentStored, Background, reading, mending
<1>2. call \in [Calls -> Call] /\ call[c].arg \in Consent /\ transport \in Servers /\ transport' = transport
  BY <1>1, WhoseStep DEF IInv, TypeOK, Form
<1>3. q \in Call
  BY <1>2, IdleIs DEF Call, Steps, Requests, Flags
<1> HIDE DEF q
<1>4. call'[c] = q /\ Others(c) /\ \A d \in Calls \ {c} : call'[d] = call[d]
  BY <1>1, <1>2, <1>3 DEF Others, Stays
<1>5. Typed /\ (status' = "registered" => principal' # None)
  BY <1>1 DEF IInv, TypeOK, Typed, RecordInv
<1>6. principal' = None /\ consent' = "granted" => call'[c].op = "register"
  <2>1. status = "registered" => principal # None
    BY DEF IInv, RecordInv
  <2>2. principal' = None /\ consent' = "granted" =>
          call'[c] = [Idle EXCEPT !.op = "register", !.pc = "register", !.arg = transport',
                                  !.has = {"server", "again", "live"}]
    BY <1>1, <1>4, <2>1 DEF q
  <2> QED BY <2>2, IdleIs DEF Call
<1>7. \/ call'[c] = Idle
      \/ call'[c] = [Idle EXCEPT !.op = "register", !.pc = "register", !.arg = transport',
                                 !.has = {"server", "again", "live"}]
  BY <1>4 DEF q
<1>8. /\ IInv' /\ Setting(c) /\ (\A d \in Calls : ~Setting(d)')
      /\ ~Mends(c) /\ \A d \in Calls : Mends(d)' <=> Mends(d)
  BY <1>1, <1>2, <1>4, <1>5, <1>6, <1>7, SettingEnds
<1>9. SingleInv => SingleInv'
  <2> SUFFICES ASSUME SingleInv PROVE SingleInv'
    OBVIOUS
  <2>1. NoneSurvives' /\ FlightInv'
    BY <1>1, <1>8 DEF SingleInv, NoneSurvives, FlightInv, Setting, Settings
  <2>2. BlameInv'
    BY <1>1, <1>4, <1>8 DEF SingleInv, BlameInv
  <2>3. CheckingInv'
    BY <1>1, <1>8 DEF SingleInv, CheckingInv, Setting, Settings
  <2> QED BY <2>1, <2>2, <2>3 DEF SingleInv
<1> QED BY <1>4, <1>8, <1>9

LEMMA ServerStoredKeeps ==
  ASSUME IInv, NEW c \in Calls, ServerStored(c)
  PROVE  IInv' /\ (SingleInv => SingleInv') /\ (\A d \in Calls \ {c} : call'[d].has = call[d].has \ {"live"})
<1> DEFINE q == IF consent = "granted"
                THEN [Idle EXCEPT !.op = "register", !.pc = "register", !.arg = transport',
                                  !.has = {"server", "again", "live"}]
                ELSE Idle
<1>1. /\ Stored(c, "setting") /\ call[c].op = "server" /\ transport' = call[c].arg /\ refused' = FALSE
      /\ status' = "unregistered" /\ principal' = None /\ failure' = "null"
      /\ recovery' = "none" /\ attempt' = "never" /\ flight' = None
      /\ ready' = FALSE /\ fresh' = FALSE /\ bound' = None
      /\ queue' = Tail(queue) /\ call' = [Bumped({"live"}) EXCEPT ![c] = q]
      /\ UNCHANGED <<ops, device, consent>>
  BY DEF ServerStored, Background
<1>2. call \in [Calls -> Call] /\ call[c].arg \in Servers
  BY <1>1, WhoseStep DEF IInv, TypeOK, Form
<1>3. q \in Call
  BY <1>1, <1>2, IdleIs DEF Call, Steps, Requests, Flags
<1> HIDE DEF q
<1>4. \A d \in Calls : /\ Bumped({"live"})[d] \in Call /\ Bumped({"live"})[d].op = call[d].op
                       /\ Bumped({"live"})[d].pc = call[d].pc /\ Bumped({"live"})[d].arg = call[d].arg
                       /\ Bumped({"live"})[d].origin = call[d].origin
                       /\ Bumped({"live"})[d].answer = call[d].answer
                       /\ Bumped({"live"})[d].has = call[d].has \ {"live"}
  <2> SUFFICES ASSUME NEW d \in Calls
               PROVE  /\ Bumped({"live"})[d] \in Call /\ Bumped({"live"})[d].op = call[d].op
                      /\ Bumped({"live"})[d].pc = call[d].pc /\ Bumped({"live"})[d].arg = call[d].arg
                      /\ Bumped({"live"})[d].origin = call[d].origin
                      /\ Bumped({"live"})[d].answer = call[d].answer
                      /\ Bumped({"live"})[d].has = call[d].has \ {"live"}
    OBVIOUS
  <2> DEFINE has == call[d].has \ {"live"}
  <2>1. call[d] \in Call /\ has \in SUBSET Flags
    BY <1>2, CallFields
  <2>2. Bumped({"live"})[d] = [call[d] EXCEPT !.has = has]
    BY <2>1 DEF Bumped, Call
  <2>3. has = call[d].has \ {"live"}
    OBVIOUS
  <2> HIDE DEF has
  <2> QED BY <2>1, <2>2, <2>3 DEF Call
<1>5. Bumped({"live"}) \in [Calls -> Call]
  BY <1>4 DEF Bumped
<1>6. /\ call' \in [Calls -> Call] /\ call'[c] = q
      /\ \A d \in Calls \ {c} : call'[d] = Bumped({"live"})[d]
  BY <1>1, <1>3, <1>5
<1>7. \A d \in Calls \ {c} :
        /\ call'[d].op = call[d].op /\ call'[d].pc = call[d].pc /\ call'[d].arg = call[d].arg
        /\ call'[d].origin = call[d].origin /\ call'[d].answer = call[d].answer
        /\ call'[d].has = call[d].has \ {"live"}
  BY <1>4, <1>6
<1>8. Others(c)
  BY <1>6, <1>7 DEF Others, Stays
<1>9. \A d \in Calls \ {c} : /\ call'[d].pc = call[d].pc /\ (Captured \cap call[d].has) \subseteq call'[d].has
                             /\ "live" \notin call'[d].has
  BY <1>7 DEF Captured
<1>10. Typed
  BY <1>1 DEF IInv, TypeOK, Typed
<1>11. consent' = "granted" => call'[c].op = "register"
  BY <1>1, <1>6, IdleIs DEF q, Call
<1>12. \/ call'[c] = Idle
       \/ call'[c] = [Idle EXCEPT !.op = "register", !.pc = "register", !.arg = transport',
                                  !.has = {"server", "again", "live"}]
  BY <1>6 DEF q
<1>13. consent' \in Consent /\ transport' \in Servers /\ refused' \in BOOLEAN /\ status' # "registered"
  BY <1>1, <1>2 DEF IInv, TypeOK
<1>14. /\ IInv' /\ Setting(c) /\ (\A d \in Calls : ~Setting(d)')
       /\ ~Mends(c) /\ \A d \in Calls : Mends(d)' <=> Mends(d)
  BY <1>1, <1>8, <1>9, <1>10, <1>11, <1>12, <1>13, SettingEnds
<1>15. SingleInv => SingleInv'
  <2> SUFFICES ASSUME SingleInv PROVE SingleInv'
    OBVIOUS
  <2>1. \A d \in Calls : ~Mends(d)'
    BY <1>1, <1>14 DEF SingleInv, NoneSurvives, Mends, Captured
  <2> QED BY <1>1, <1>14, <2>1 DEF SingleInv, NoneSurvives, FlightInv, BlameInv, CheckingInv, Setting, Settings
<1> QED BY <1>7, <1>14, <1>15

LEMMA SettingRefusedKeeps ==
  ASSUME IInv, NEW c \in Calls, SettingRefused(c)
  PROVE  IInv' /\ (SingleInv => SingleInv') /\ (\A d \in Calls \ {c} : call'[d].has = call[d].has)
<1>1. /\ Stored(c, "setting") /\ call' = [call EXCEPT ![c] = Idle] /\ queue' = Tail(queue) /\ refused' = TRUE
      /\ UNCHANGED <<ops, device, consent, status, principal, transport, failure, ready, fresh, bound,
                     recovery, flight, attempt>>
  BY DEF SettingRefused, Refused, reading, mending
<1>2. call \in [Calls -> Call] /\ transport \in Servers /\ consent \in Consent
  BY DEF IInv, TypeOK
<1>3. call'[c] = Idle /\ Others(c) /\ \A d \in Calls \ {c} : call'[d] = call[d]
  BY <1>1, <1>2, IdleIs DEF Others, Stays
<1>4. Typed /\ (status' = "registered" => principal' # None)
  BY <1>1 DEF IInv, TypeOK, Typed, RecordInv
<1>5. /\ IInv' /\ Setting(c) /\ (\A d \in Calls : ~Setting(d)')
      /\ ~Mends(c) /\ \A d \in Calls : Mends(d)' <=> Mends(d)
  BY <1>1, <1>2, <1>3, <1>4, SettingEnds
<1>6. SingleInv => SingleInv'
  <2> SUFFICES ASSUME SingleInv PROVE SingleInv'
    OBVIOUS
  <2>1. NoneSurvives' /\ FlightInv' /\ CheckingInv'
    BY <1>1, <1>5 DEF SingleInv, NoneSurvives, FlightInv, CheckingInv, Setting, Settings
  <2>2. BlameInv'
    BY <1>1, <1>3, <1>5 DEF SingleInv, BlameInv
  <2> QED BY <2>1, <2>2 DEF SingleInv
<1> QED BY <1>3, <1>5, <1>6

(***************************************************************************)
(* Time, the servers, and the beginning.                                   *)
(***************************************************************************)

LEMMA RestKeeps ==
  ASSUME IInv, \/ AttemptAges \/ ReadingAges \/ Forget \/ Revoke \/ UNCHANGED vars
  PROVE  IInv' /\ (SingleInv => SingleInv') /\ UNCHANGED <<call, consent>>
<1>1. /\ UNCHANGED <<ops, consent, status, principal, transport, refused, failure, ready, bound,
                     recovery, flight, queue, call>>
      /\ device' \in [Servers -> Principals \cup {"unknown", "revoked"}]
      /\ attempt' \in {"never", "now", "past"} /\ fresh' \in BOOLEAN
  <2>1. /\ device \in [Servers -> Principals \cup {"unknown", "revoked"}]
        /\ attempt \in {"never", "now", "past"} /\ fresh \in BOOLEAN
    BY DEF IInv, TypeOK
  <2>2. CASE AttemptAges
    BY <2>1, <2>2 DEF AttemptAges, session, reading
  <2>3. CASE ReadingAges
    BY <2>1, <2>3 DEF ReadingAges, session, mending
  <2>4. CASE Forget
    BY <2>1, <2>4 DEF Forget, reading, mending
  <2>5. CASE Revoke
    BY <2>1, <2>5 DEF Revoke, reading, mending
  <2>6. CASE UNCHANGED vars
    BY <2>1, <2>6 DEF vars
  <2> QED BY <2>2, <2>3, <2>4, <2>5, <2>6
<1>2. TypeOK'
  BY <1>1 DEF IInv, TypeOK
<1>3. CallInv' /\ QueueInv' /\ OneSetting' /\ BehindInv'
  BY <1>1 DEF IInv, CallInv, Form, Live, QueueInv, OneSetting, BehindInv, Setting
<1>4. RecordInv' /\ DutyInv' /\ ReadFromServerInEffect'
  BY <1>1 DEF IInv, RecordInv, CurrentRecovery, DutyInv, AtIt, Setting, ReadFromServerInEffect
<1>5. SingleInv => SingleInv'
  BY <1>1 DEF SingleInv, NoneSurvives, FlightInv, BlameInv, CheckingInv, Mends
<1> QED BY <1>1, <1>2, <1>3, <1>4, <1>5 DEF IInv

LEMMA InitIs == Init => IInv /\ SingleInv
<1> SUFFICES ASSUME Init PROVE IInv /\ SingleInv
  OBVIOUS
<1>1. /\ ops \in Scenarios /\ consent = "granted" /\ transport = Home /\ flight = None /\ refused = FALSE
      /\ queue = <<>> /\ call = [c \in Calls |-> Idle] /\ recovery # "checking"
  BY DEF Init
<1>2. PICK p \in Principals :
        /\ \E d \in {p, "unknown"} : device = [s \in Servers |-> IF s = Home THEN d ELSE "unknown"]
        /\ \/ /\ principal = p /\ bound = [server |-> Home, who |-> p]
              /\ status = "registered" /\ failure = "null"
              /\ recovery = "none" /\ attempt = "never" /\ ready = TRUE /\ fresh = TRUE
           \/ /\ principal \in {p, None} /\ bound = None
              /\ status = "failed" /\ failure = "set"
              /\ recovery = "failed" /\ attempt = "now" /\ ready = FALSE /\ fresh = FALSE
  BY DEF Init
<1>3. \A c \in Calls : call[c] = Idle
  BY <1>1
<1>4. device \in [Servers -> Principals \cup {"unknown", "revoked"}]
  BY <1>2
<1>5. call \in [Calls -> Call]
  BY <1>1, IdleIs
<1>6. TypeOK
  <2>1. transport \in Servers /\ consent \in Consent /\ refused \in BOOLEAN
    BY <1>1, ServerAssumption DEF Consent
  <2>2. queue \in Seq(Calls)
    BY <1>1
  <2>3. /\ status \in {"unregistered", "registered", "failed"} /\ principal \in Principals \cup {None}
        /\ failure \in {"set", "null"} /\ recovery \in {"none", "failed"}
        /\ attempt \in {"never", "now"} /\ ready \in BOOLEAN /\ fresh \in BOOLEAN
    BY <1>2
  <2>4. bound \in [server : Servers, who : Principals] \cup {None}
    BY <1>2, ServerAssumption
  <2> QED BY <1>1, <1>4, <1>5, <2>1, <2>2, <2>3, <2>4 DEF TypeOK
<1>7. Form(Idle) /\ Live(Idle) /\ Idle.pc \notin Writes /\ Idle.op \notin Settings
  BY IdleIs DEF Form, Live, Settings, Requests, Writes, NoAnswer
<1>8. CallInv
  BY <1>3, <1>7 DEF CallInv
<1>9. Len(queue) = 0 /\ \A i \in 1..Len(queue) : FALSE
  BY <1>1
<1>10. QueueInv
  BY <1>3, <1>7, <1>9, IdleIs DEF QueueInv
<1>11. OneSetting /\ BehindInv
  BY <1>3, <1>7, <1>9 DEF OneSetting, BehindInv, Setting
<1>12. RecordInv
  BY <1>2, <1>3, IdleIs, ServerAssumption DEF RecordInv
<1>13. DutyInv /\ ReadFromServerInEffect
  BY <1>1, <1>2, ServerAssumption DEF DutyInv, ReadFromServerInEffect
<1>14. SingleInv
  BY <1>1, <1>3, IdleIs DEF SingleInv, NoneSurvives, FlightInv, BlameInv, CheckingInv, Mends
<1> QED BY <1>6, <1>8, <1>10, <1>11, <1>12, <1>13, <1>14 DEF IInv

(***************************************************************************)
(* The theorems.                                                           *)
(***************************************************************************)

LEMMA GoodKeeps ==
  ASSUME IInv, NEW c \in Calls, Good(c)
  PROVE  IInv' /\ (SingleInv /\ Exclusive => SingleInv')
<1>1. Fine(c) /\ Moves(c)
  BY DEF Good, Fine
<1>2. IInv'
  BY <1>1, FineKeeps
<1>3. SingleInv /\ Exclusive => SingleInv'
  BY <1>1, MendKeeps DEF Good
<1> QED BY <1>2, <1>3

Own(c) ==
  Refresh(c) \/ Register(c) \/ Sign(c) \/ Serve(c) \/ Arrive(c) \/ JoinedContinues(c) \/ Settle(c)

\* Every step that is not of a setting is one that leaves what is promised.
LEMMA NextIs ==
  ASSUME IInv, [Next]_vars
  PROVE  \/ TakeTurn /\ Head(queue) \in Calls /\ Good(Head(queue))
         \/ \E c \in Calls : Own(c) /\ Good(c)
         \/ \E c \in Calls : SetConsent(c) \/ SetServer(c) \/ ConsentStored(c) \/ ServerStored(c) \/ SettingRefused(c)
         \/ AttemptAges \/ ReadingAges \/ Forget \/ Revoke \/ UNCHANGED vars
<1>1. CASE TakeTurn
  BY <1>1, TakeTurnGood
<1>2. ASSUME NEW c \in Calls, Arrive(c) PROVE Good(c)
  BY <1>2, UsageArrivesGood, UsageDeniedGood, VerifiedAnywayGood, VerifiedRevokedGood,
     VerifiedUnknownGood, RegisterArrivesGood, ConfirmArrivesGood, RequestFailsGood DEF Arrive
<1>3. ASSUME NEW c \in Calls, Settle(c)
      PROVE  Good(c) \/ ConsentStored(c) \/ ServerStored(c) \/ SettingRefused(c)
  BY <1>3, BlockedGood, RevalidatedGood, RevalidateRefusedGood, RecordedGood, RecordRefusedGood,
     UnrecordedGood, BlamedGood DEF Settle
<1>4. ASSUME NEW c \in Calls, Refresh(c) \/ Register(c) \/ Sign(c) \/ Serve(c) \/ JoinedContinues(c)
      PROVE  Good(c)
  BY <1>4, RefreshGood, RegisterGood, SignGood, ServeGood, JoinedContinuesGood
<1> QED BY <1>1, <1>2, <1>3, <1>4 DEF Next, Own

LEMMA StepKeeps ==
  ASSUME IInv, [Next]_vars
  PROVE  IInv' /\ (SingleInv /\ Exclusive => SingleInv')
<1>1. ASSUME NEW c \in Calls, Good(c)
      PROVE  IInv' /\ (SingleInv /\ Exclusive => SingleInv')
  BY <1>1, GoodKeeps
<1>2. CASE \E c \in Calls : SetConsent(c) \/ SetServer(c) \/ ConsentStored(c) \/ ServerStored(c) \/ SettingRefused(c)
  BY <1>2, SetConsentKeeps, SetServerKeeps, ConsentStoredKeeps, ServerStoredKeeps, SettingRefusedKeeps
<1>3. CASE AttemptAges \/ ReadingAges \/ Forget \/ Revoke \/ UNCHANGED vars
  BY <1>3, RestKeeps
<1> QED BY <1>1, <1>2, <1>3, NextIs

\* IInv is inductive.
THEOREM RecoveryInductive == Spec => []IInv
<1>1. Init => IInv
  BY InitIs
<1>2. IInv /\ [Next]_vars => IInv'
  BY StepKeeps
<1> QED BY <1>1, <1>2, PTL DEF Spec

\* The state keeps its type.
THEOREM TypeCorrect == Spec => []TypeOK
<1>1. IInv => TypeOK
  BY DEF IInv
<1> QED BY <1>1, RecoveryInductive, PTL

\* The binding that is shown was read from the server in effect (setServerOrigin() drops
\* what the old server said, and refreshContributions() keeps no answer to a call that a
\* change of the server overtook), whatever starts while a server is saved.
THEOREM ReadFromServer == Spec => []ReadFromServerInEffect
<1>1. IInv => ReadFromServerInEffect
  BY DEF IInv
<1> QED BY <1>1, RecoveryInductive, PTL

\* A recovery voids the registration before it makes a new one; whatever stops it, a client
\* that comes to rest with consent has a registration, or says why it has none.
THEOREM NeverVoid == Spec => []NeverLeftVoid
<1>1. IInv => NeverLeftVoid
  <2> SUFFICES ASSUME IInv, Quiet PROVE NeverLeftVoid
    BY DEF NeverLeftVoid
  <2>1. \A c \in Calls : ~Setting(c) /\ ~AtIt(c)
    BY WhoseStep DEF Quiet, AtIt, Setting, Settings, Form
  <2> QED BY <2>1 DEF IInv, DutyInv, NeverLeftVoid
<1> QED BY <1>1, RecoveryInductive, PTL

\* There is one recovery at a time; once begun it is at work, or its end can be seen, unless
\* a refresh or a registration starts while a server is saved (see SessionOldServer).
THEOREM OneRecovery == Exclusive => (Spec => []OneRecoveryIsSeen)
<1> SUFFICES ASSUME Exclusive PROVE Spec => []OneRecoveryIsSeen
  OBVIOUS
<1> DEFINE I == IInv /\ SingleInv
<1>1. Init => I
  BY InitIs
<1>2. I /\ [Next]_vars => I'
  BY StepKeeps
<1>3. I => SingleFlight /\ CheckingIsAtWork
  <2> SUFFICES ASSUME IInv, SingleInv PROVE SingleFlight /\ CheckingIsAtWork
    OBVIOUS
  <2>1. \A c \in Calls : Mending(c) => Mends(c)
    BY DEF Mending, Mends, CurrentRecovery, Captured
  <2>2. \A c \in Calls : Mends(c) /\ consent = "granted" => Mending(c)
    BY DEF Mending, Mends, CurrentRecovery, Captured
  <2>3. SingleFlight
    BY <2>1 DEF SingleInv, FlightInv, SingleFlight
  <2>4. CheckingIsAtWork
    BY <2>2 DEF SingleInv, CheckingInv, CheckingIsAtWork
  <2> QED BY <2>3, <2>4
<1>4. SingleFlight /\ CheckingIsAtWork /\ NeverLeftVoid => OneRecoveryIsSeen
  BY DEF OneRecoveryIsSeen
<1> HIDE DEF I
<1> QED BY <1>1, <1>2, <1>3, <1>4, NeverVoid, PTL DEF Spec

\* A call that waits for its signature has no answer yet and nothing to store; so only
\* Sign() and RequestFails() take the wait from it.
LEMMA WhoseSignature ==
  ASSUME IInv, NEW c \in Calls, "signing" \in call[c].has, call[c].op = "refresh",
         Own(c)
  PROVE  Sign(c) \/ (RequestFails(c) /\ call[c].pc \in {"usage", "verify", "confirm"})
<1>1. call[c].pc \in {"usage", "verify", "confirm"} /\ call[c].answer = NoAnswer
  BY WhoseStep DEF Form
<1>2. ~Refresh(c) /\ ~Register(c) /\ ~JoinedContinues(c) /\ ~Serve(c)
  BY <1>1 DEF Refresh, Register, MayStart, JoinedContinues, Serve
<1>3. ~Settle(c)
  BY <1>1 DEF Settle, Blocked, Revalidated, RevalidateRefused, Recorded, RecordRefused, Unrecorded, Blamed,
              ConsentStored, ServerStored, SettingRefused, Refused, Stored
<1>4. Arrive(c) => RequestFails(c)
  BY <1>1 DEF Arrive, UsageArrives, UsageDenied, VerifiedAnyway, VerifiedRevoked, VerifiedUnknown,
              RegisterArrives, ConfirmArrives, Arrived
<1> QED BY <1>1, <1>2, <1>3, <1>4 DEF Own

\* A signed request goes out only while consent is given: sign() is followed by a look at
\* what the call captured, in every request that refreshContributions() and its recovery make.
THEOREM ConsentToSend == Spec => SentWithConsent
<1>1. ASSUME IInv, [Next]_vars, NEW c \in Calls,
             "signing" \in call[c].has, "signing" \notin call'[c].has, call'[c].pc \in Requests
      PROVE  consent = "granted"
  <2>1. /\ call[c].pc \in {"usage", "verify", "confirm"} /\ call[c].op = "refresh" /\ call[c].pc \notin Writes
        /\ call[c].answer = NoAnswer /\ call[c] \in Call
    BY <1>1, WhoseStep DEF Form, Writes
  <2>2. ASSUME NEW d \in Calls, Good(d), d # c PROVE FALSE
    BY <1>1, <2>2 DEF Good, Fine, Moves, Unbumped
  <2>3. CASE RecoveryEnds(c, FALSE)
    <3>1. Returns(c, FALSE, call'[c])
      BY <1>1, <2>1, <2>3, EndsIs DEF IInv
    <3> QED BY <1>1, <3>1, IdleIs DEF Returns, CurrentRefresh, Requests
  <2>4. CASE Enqueue(call, c, Queued(call[c], "blame"))
    <3>1. call'[c].pc = "blame"
      BY <1>1, <2>1, <2>4, QueuedIs DEF Enqueue, Writes, IInv, TypeOK
    <3> QED BY <1>1, <3>1 DEF Requests
  <2>5. CASE Sign(c)
    BY <2>3, <2>5 DEF Sign, CurrentRefresh, CurrentRecovery
  <2>6. CASE RequestFails(c)
    BY <2>1, <2>3, <2>4, <2>6 DEF RequestFails, RecoveryFails
  <2>7. CASE \E d \in Calls : Own(d) /\ Good(d)
    BY <1>1, <2>1, <2>2, <2>5, <2>6, <2>7, WhoseSignature
  <2>8. CASE TakeTurn
    <3>1. /\ Head(queue) \in Calls /\ Good(Head(queue))
      BY <1>1, <2>8, TakeTurnGood
    <3>2. Head(queue) = c
      BY <2>2, <3>1
    <3>3. call[c].pc \in Writes
      <4>1. queue \in Seq(Calls) /\ queue # <<>>
        BY <1>1, <2>8 DEF IInv, TypeOK, TakeTurn, Turning
      <4>2. 1 \in 1..Len(queue) /\ queue[1] = c
        BY <3>2, <4>1
      <4> QED BY <1>1, <4>2 DEF IInv, QueueInv
    <3> QED BY <2>1, <3>3
  <2>9. CASE \E d \in Calls : SetConsent(d) \/ SetServer(d) \/ ConsentStored(d) \/ ServerStored(d) \/ SettingRefused(d)
    <3>1. PICK d \in Calls : SetConsent(d) \/ SetServer(d) \/ ConsentStored(d) \/ ServerStored(d) \/ SettingRefused(d)
      BY <2>9
    <3>2. d # c
      BY <2>1, <3>1 DEF SetConsent, SetServer, MayStart, ConsentStored, ServerStored, SettingRefused, Refused, Stored
    <3>3. "signing" \in call'[c].has
      BY <1>1, <3>1, <3>2, SetConsentKeeps, SetServerKeeps, ConsentStoredKeeps, ServerStoredKeeps, SettingRefusedKeeps
    <3> QED BY <1>1, <3>3
  <2>10. CASE AttemptAges \/ ReadingAges \/ Forget \/ Revoke \/ UNCHANGED vars
    BY <1>1, <2>10, RestKeeps
  <2> QED BY <1>1, <2>7, <2>8, <2>9, <2>10, NextIs
<1>2. IInv /\ [Next]_vars => [\A c \in Calls :
        "signing" \in call[c].has /\ "signing" \notin call'[c].has /\ call'[c].pc \in Requests =>
          consent = "granted"]_vars
  BY <1>1
<1> QED BY <1>2, RecoveryInductive, PTL DEF Spec, SentWithConsent

=============================================================================
