------------------------------ MODULE PluginProofs ------------------------------
(***************************************************************************)
(* That the plugin is whole or has said what it could not release, and     *)
(* that a check shows "normal" only for what has been the case since it    *)
(* was asked for, for any components, policies, checks and requests.       *)
(*                                                                         *)
(* Two arguments are joined.  One is about the parts: which are open in    *)
(* each step of apply() and cleanup(), that a check needs the health store *)
(* and so cannot outlast it, and that a part still open while cleaning is  *)
(* one whose operation is still to come or has failed (PhaseInv, HeldInv,  *)
(* CleanInv).  The other is about the checks: each waits in the chain      *)
(* once, what is good now is known to all of them, and what the head has   *)
(* read was good when it read it (ChainInv, SeenInv).                      *)
(***************************************************************************)
EXTENDS Plugin, TLAPS

OpNames == {Operations[i] : i \in DOMAIN Operations}
OpParts(ops) == UNION {Releases(op) : op \in ops}

\* The operations that cleanup() has still to do.
Left == {todo[i] : i \in DOMAIN todo}

\* The gate says where apply() is.
PhaseInv ==
  /\ (gate = "starting" <=> step \in {"opening", "checking"})
  /\ (gate = "ready" <=> step = "up")

\* What is open in each step; a check needs the health store.
HeldInv ==
  /\ step \in {"opening", "checking"} => held \cap {"timer", "listener"} = {}
  /\ step = "opening" => chain = <<>>
  /\ step = "up" => held = Parts
  /\ closed => step \in {"cleaning", "off"}
  /\ "health" \in held => "healthDomain" \in held
  /\ chain # <<>> => "health" \in held

\* What is still open while cleaning, and that no check begins after the health
\* service has been closed.
CleanInv ==
  /\ step # "cleaning" => todo = <<>>
  /\ step \in {"cleaning", "off"} =>
       /\ held \subseteq OpParts(failures \cup Left)
       /\ "health" \notin Left => chain = <<>> /\ ("health" \in held => closed)

\* Each check waits once, and knows of all that is good now.
ChainInv ==
  /\ \A i, j \in 1..Len(chain) : chain[i] = chain[j] => i = j
  /\ \A i \in 1..Len(chain) : Good(fact) \subseteq since[chain[i]]

\* What the head's check has found of a component that must run, it found after it was
\* asked for.
Found(k, good) ==
  /\ seen[k] \in {"listed", "satisfied"} => <<k, "listed">> \in good
  /\ package[k] = "present" => <<k, "present">> \in good
  /\ seen[k] = "satisfied" => <<k, "present">> \in good /\ <<k, "active">> \in good
SeenInv ==
  /\ chain = <<>> => seen = Unseen /\ package = Unread
  /\ \A k \in Components : package[k] # "unread" => seen[k] = "listed"
  /\ chain # <<>> => \A k \in Strict : Found(k, since[chain[1]])

CheckInv == HealthTypeOK /\ ChainInv /\ SeenInv
PartsInv == PhaseInv /\ HeldInv /\ CleanInv
IInv == TypeOK /\ PartsInv /\ ChainInv /\ SeenInv

(***************************************************************************)
(* Lemmas about the operators.                                             *)
(***************************************************************************)

\* The names of the operations.
LEMMA OpNamesAre ==
  OpNames = {"source", "controller", "health", "leases", "listener", "sourceService",
             "coreService", "routes"}
<1>1. DOMAIN Operations = 1..8
  BY DEF Operations
<1>2. 1..8 = {1, 2, 3, 4, 5, 6, 7, 8}
  OBVIOUS
<1> QED BY <1>1, <1>2 DEF OpNames, Operations

\* The parts, one by one.
LEMMA PartsAre ==
  Parts = {"leases", "routes", "domain", "healthDomain", "sourceDomain", "source", "controller",
           "health", "coreService", "sourceService", "timer", "listener"}
<1>1. DOMAIN Opening = 1..6 /\ DOMAIN Ending = 1..4
  BY DEF Opening, Ending
<1>2. 1..6 = {1, 2, 3, 4, 5, 6} /\ 1..4 = {1, 2, 3, 4}
  OBVIOUS
<1>3. {Opening[i] : i \in DOMAIN Opening} = {"domain", "healthDomain", "sourceDomain", "source",
                                             "controller", "health"}
  BY <1>1, <1>2 DEF Opening
<1>4. {Ending[i] : i \in DOMAIN Ending} = {"coreService", "sourceService", "timer", "listener"}
  BY <1>1, <1>2 DEF Ending
<1> QED BY <1>3, <1>4 DEF Parts, Beginning

\* The operations of a cleanup release every part but the timer.
LEMMA AllIsReleased == Parts \ {"timer"} \subseteq OpParts(OpNames)
BY PartsAre, OpNamesAre DEF OpParts, Releases

\* What is good is about components that must run.
LEMMA GoodTyped ==
  ASSUME NEW f PROVE Good(f) \subseteq Strict \X {"listed", "present", "active"}
BY DEF Good

\* What is good of a component that must run.
LEMMA GoodOf ==
  ASSUME NEW f, NEW k \in Strict
  PROVE  /\ f[k].listed = "one" => <<k, "listed">> \in Good(f)
         /\ f[k].package = "present" => <<k, "present">> \in Good(f)
         /\ f[k].phase = "active" => <<k, "active">> \in Good(f)
BY DEF Good

\* What a sequence without its head has.
LEMMA TailHas ==
  ASSUME NEW S, NEW s \in Seq(S), s # <<>>
  PROVE  /\ Tail(s) \in Seq(S) /\ Head(s) = s[1] /\ Head(s) \in S
         /\ Len(s) \in Nat \ {0} /\ Len(Tail(s)) = Len(s) - 1
         /\ \A i \in 1..Len(Tail(s)) : Tail(s)[i] = s[i + 1] /\ i + 1 \in 1..Len(s)
         /\ {s[i] : i \in DOMAIN s} = {Head(s)} \cup {Tail(s)[i] : i \in DOMAIN Tail(s)}
<1>1. /\ Tail(s) \in Seq(S) /\ Head(s) = s[1] /\ Head(s) \in S
      /\ Len(s) \in Nat \ {0} /\ Len(Tail(s)) = Len(s) - 1
      /\ \A i \in 1..Len(Tail(s)) : Tail(s)[i] = s[i + 1] /\ i + 1 \in 1..Len(s)
      /\ DOMAIN s = 1..Len(s) /\ DOMAIN Tail(s) = 1..Len(Tail(s))
  OBVIOUS
<1>2. ASSUME NEW i \in 1..Len(s) PROVE s[i] \in {s[1]} \cup {Tail(s)[j] : j \in 1..Len(Tail(s))}
  <2>1. CASE i = 1
    BY <2>1
  <2>2. CASE i # 1
    <3>1. i - 1 \in 1..Len(Tail(s)) /\ (i - 1) + 1 = i
      BY <2>2, <1>1
    <3> QED BY <3>1, <1>1
  <2> QED BY <2>1, <2>2
<1>3. 1 \in 1..Len(s)
  BY <1>1
<1> QED BY <1>1, <1>2, <1>3

\* What a sequence with one more element has.
LEMMA AppendHas ==
  ASSUME NEW S, NEW s \in Seq(S), NEW c \in S
  PROVE  /\ Append(s, c) \in Seq(S) /\ Append(s, c) # <<>> /\ Append(s, c) # Tail(s)
         /\ Len(s) \in Nat /\ Len(Append(s, c)) = Len(s) + 1 /\ Append(s, c)[Len(s) + 1] = c
         /\ \A i \in 1..Len(s) : Append(s, c)[i] = s[i]
<1>1. CASE s = <<>>
  BY <1>1
<1>2. CASE s # <<>>
  BY <1>2
<1> QED BY <1>1, <1>2

(***************************************************************************)
(* The checks.                                                             *)
(***************************************************************************)

\* A step of a check that stays at the head: the chain and what is known of it stay.
LEMMA SameChain ==
  ASSUME ChainInv, chain' = chain, fact' = fact, since' = since
  PROVE  ChainInv'
BY DEF ChainInv

\* The head of the chain is a check.
LEMMA HeadIsIn ==
  ASSUME HealthTypeOK, chain # <<>>
  PROVE  1 \in 1..Len(chain) /\ chain[1] \in Checks
<1>1. chain \in Seq(Checks)
  BY DEF HealthTypeOK
<1>2. Len(chain) \in Nat \ {0} /\ 1 \in 1..Len(chain)
  BY <1>1
<1> QED BY <1>1, <1>2

\* What is good now is known to the head.
LEMMA HeadKnows ==
  ASSUME HealthTypeOK, ChainInv, chain # <<>>, NEW k \in Strict
  PROVE  /\ fact[k].listed = "one" => <<k, "listed">> \in since[chain[1]]
         /\ fact[k].package = "present" => <<k, "present">> \in since[chain[1]]
         /\ fact[k].phase = "active" => <<k, "active">> \in since[chain[1]]
<1>1. Good(fact) \subseteq since[chain[1]]
  BY HeadIsIn DEF ChainInv
<1> QED BY <1>1, GoodOf

\* A component changes: what was known stays known, what is good now becomes known.
LEMMA ChangeKeeps ==
  ASSUME CheckInv, NEW k \in Components, Change(k)
  PROVE  CheckInv' /\ chain' = chain /\ closed' = closed
<1> DEFINE in == {chain[i] : i \in DOMAIN chain}
<1>1. chain \in Seq(Checks) /\ DOMAIN chain = 1..Len(chain)
  BY DEF CheckInv, HealthTypeOK
<1>2. PICK f \in Facts[k] \ {fact[k]} : fact' = [fact EXCEPT ![k] = f]
  BY DEF Change
<1>3. f \in EveryFact
  BY <1>2, FactAssumption
<1>4. fact' \in [Components -> EveryFact]
  BY <1>2, <1>3 DEF CheckInv, HealthTypeOK
<1>5. changes' \in 0..MaxChanges
  BY BoundAssumption DEF Change, CheckInv, HealthTypeOK
<1>6. since' = [c \in Checks |-> IF c \in in THEN since[c] \cup Good(fact') ELSE {}]
  BY DEF Change
<1>7. since' \in [Checks -> SUBSET (Strict \X {"listed", "present", "active"})]
  BY <1>6, GoodTyped DEF CheckInv, HealthTypeOK
<1>8. HealthTypeOK'
  BY <1>4, <1>5, <1>7 DEF Change, CheckInv, HealthTypeOK
<1>9. \A i \in 1..Len(chain) : since'[chain[i]] = since[chain[i]] \cup Good(fact')
  BY <1>1, <1>6
<1>10. ChainInv'
  BY <1>9 DEF Change, CheckInv, ChainInv
<1>11. chain # <<>> => since[chain[1]] \subseteq since'[chain[1]]
  BY <1>9, HeadIsIn DEF CheckInv
<1>12. SeenInv'
  BY <1>11 DEF Change, CheckInv, SeenInv, Found
<1> QED BY <1>8, <1>10, <1>12 DEF Change, CheckInv

\* A check is asked for: it waits once, and knows what is good now.
LEMMA RecheckKeeps ==
  ASSUME CheckInv, NEW c \in Checks, Recheck(c)
  PROVE  CheckInv' /\ chain' # Tail(chain) /\ closed' = closed
<1>1. chain \in Seq(Checks) /\ chain' = Append(chain, c) /\ DOMAIN chain = 1..Len(chain)
  BY DEF CheckInv, HealthTypeOK, Recheck
<1>2. /\ chain' \in Seq(Checks) /\ chain' # Tail(chain) /\ chain' # <<>>
      /\ Len(chain) \in Nat /\ Len(chain') = Len(chain) + 1 /\ chain'[Len(chain) + 1] = c
      /\ \A i \in 1..Len(chain) : chain'[i] = chain[i]
  <2>1. chain \in Seq(Checks) /\ chain' = Append(chain, c)
    BY <1>1
  <2>2. /\ Append(chain, c) \in Seq(Checks) /\ Append(chain, c) # <<>>
        /\ Append(chain, c) # Tail(chain)
        /\ Len(chain) \in Nat /\ Len(Append(chain, c)) = Len(chain) + 1
        /\ Append(chain, c)[Len(chain) + 1] = c
        /\ \A i \in 1..Len(chain) : Append(chain, c)[i] = chain[i]
    BY <2>1, AppendHas
  <2> QED BY <2>1, <2>2, Zenon
<1>3. \A i \in 1..Len(chain) : chain[i] # c /\ chain[i] \in Checks
  BY <1>1 DEF Recheck
<1>4. /\ since' \in [Checks -> SUBSET (Strict \X {"listed", "present", "active"})]
      /\ since'[c] = Good(fact) /\ \A d \in Checks \ {c} : since'[d] = since[d]
  BY GoodTyped DEF Recheck, CheckInv, HealthTypeOK
<1>5. HealthTypeOK'
  BY <1>2, <1>4 DEF Recheck, CheckInv, HealthTypeOK
<1>6. \A i \in 1..Len(chain') : i \in 1..Len(chain) \/ i = Len(chain) + 1
  BY <1>2
<1>7. \A i, j \in 1..Len(chain') : chain'[i] = chain'[j] => i = j
  BY <1>6, <1>2, <1>3 DEF CheckInv, ChainInv
<1>8. fact' = fact
  BY DEF Recheck
<1>9. \A i \in 1..Len(chain') : Good(fact') \subseteq since'[chain'[i]]
  <2> SUFFICES ASSUME NEW i \in 1..Len(chain') PROVE Good(fact) \subseteq since'[chain'[i]]
    BY <1>8
  <2>1. CASE i \in 1..Len(chain)
    <3>1. chain'[i] = chain[i] /\ since'[chain[i]] = since[chain[i]]
      BY <2>1, <1>2, <1>3, <1>4
    <3> QED BY <3>1, <2>1 DEF CheckInv, ChainInv
  <2>2. CASE i = Len(chain) + 1
    BY <2>2, <1>2, <1>4
  <2> QED BY <2>1, <2>2, <1>6
<1>10. chain = <<>> => seen = Unseen /\ package = Unread
  BY DEF CheckInv, SeenInv
<1>12. ASSUME NEW k \in Strict PROVE Found(k, since'[chain'[1]])
  <2>1. CASE chain = <<>>
    BY <2>1, <1>10 DEF Found, Unseen, Unread, Strict
  <2>2. CASE chain # <<>>
    <3>1. 1 \in 1..Len(chain)
      BY <2>2, HeadIsIn DEF CheckInv
    <3>2. chain'[1] = chain[1] /\ since'[chain[1]] = since[chain[1]]
      BY <3>1, <1>2, <1>3, <1>4
    <3> QED BY <3>2, <2>2 DEF CheckInv, SeenInv
  <2> QED BY <2>1, <2>2
<1>13. ASSUME NEW k \in Strict PROVE Found(k, since[chain[1]])'
  BY <1>12 DEF Recheck, Found
<1>14. SeenInv'
  BY <1>13, <1>2 DEF Recheck, CheckInv, SeenInv
<1> QED BY <1>2, <1>5, <1>7, <1>9, <1>14 DEF Recheck, CheckInv, ChainInv

\* A failure is counted.
LEMMA FaultKeeps ==
  ASSUME HealthTypeOK, faults < MaxFaults, faults' = faults + 1
  PROVE  faults' \in 0..MaxFaults
BY BoundAssumption DEF HealthTypeOK

\* The inventory: what is listed now is known.
LEMMA ListKeeps ==
  ASSUME CheckInv, List \/ ListFails
  PROVE  CheckInv' /\ chain' = chain /\ closed' = closed
<1>1. /\ chain # <<>> /\ seen = Unseen
      /\ UNCHANGED <<fact, changes, chain, package, slow, shown, closed, since>>
  BY DEF List, ListFails
<1>2. faults' \in 0..MaxFaults
  BY FaultKeeps DEF List, ListFails, CheckInv, HealthTypeOK
<1>3. /\ seen' \in [Components -> Statuses \cup {"unseen", "listed", "lost"}]
      /\ \A k \in Components : seen'[k] # "satisfied" /\ (seen'[k] = "listed" => fact[k].listed = "one")
  <2>1. CASE List
    <3>1. \A k \in Components : fact[k].listed \in {"none", "one", "many"}
      BY DEF CheckInv, HealthTypeOK, EveryFact
    <3>2. \A k \in Components : /\ Entry(k) \in {"missing", "ambiguous", "listed"}
                                /\ Entry(k) = "listed" => fact[k].listed = "one"
      BY <3>1 DEF Entry
    <3> QED BY <2>1, <3>2 DEF List, Statuses
  <2>2. CASE ListFails
    BY <2>2 DEF ListFails
  <2> QED BY <2>1, <2>2
<1>4. HealthTypeOK'
  BY <1>1, <1>2, <1>3 DEF CheckInv, HealthTypeOK
<1>5. ChainInv'
  BY <1>1, SameChain DEF CheckInv
<1>6. package = Unread
  <2>1. \A k \in Components : package[k] = "unread"
    BY <1>1 DEF CheckInv, SeenInv, Unseen
  <2> QED BY <2>1 DEF CheckInv, HealthTypeOK, Unread
<1>7. \A k \in Strict : Found(k, since[chain[1]])'
  BY <1>1, <1>3, <1>6, HeadKnows DEF CheckInv, Found, Strict, Unread
<1>8. SeenInv'
  BY <1>1, <1>6, <1>7 DEF SeenInv, Unread
<1> QED BY <1>1, <1>4, <1>5, <1>8 DEF CheckInv

\* A package is read: if it is present, that is known.
LEMMA InspectKeeps ==
  ASSUME CheckInv, NEW k \in Components, Inspect(k)
  PROVE  CheckInv' /\ chain' = chain /\ closed' = closed
<1>1. /\ seen[k] = "listed" /\ package[k] = "unread"
      /\ UNCHANGED <<fact, changes, faults, chain, seen, slow, shown, closed, since>>
  BY DEF Inspect
<1>2. fact[k].package \in Packages
  BY DEF CheckInv, HealthTypeOK, EveryFact
<1>3. /\ package' \in [Components -> Packages \cup {"unread"}]
      /\ package'[k] = fact[k].package /\ \A j \in Components \ {k} : package'[j] = package[j]
  BY <1>2 DEF Inspect, CheckInv, HealthTypeOK
<1>4. HealthTypeOK'
  BY <1>1, <1>3 DEF CheckInv, HealthTypeOK
<1>5. ChainInv'
  BY <1>1, SameChain DEF CheckInv
<1>6. chain # <<>>
  BY <1>1 DEF CheckInv, SeenInv, Unseen
<1>7. \A j \in Strict : Found(j, since[chain[1]])'
  <2> SUFFICES ASSUME NEW j \in Strict PROVE Found(j, since[chain[1]])'
    OBVIOUS
  <2>1. Found(j, since[chain[1]]) /\ j \in Components
    BY <1>6 DEF CheckInv, SeenInv, Strict
  <2>2. CASE j = k
    BY <2>1, <2>2, <1>1, <1>3, <1>6, HeadKnows DEF CheckInv, Found
  <2>3. CASE j # k
    BY <2>1, <2>3, <1>1, <1>3 DEF Found
  <2> QED BY <2>2, <2>3
<1>8. SeenInv'
  BY <1>1, <1>3, <1>6, <1>7 DEF CheckInv, SeenInv
<1> QED BY <1>1, <1>4, <1>5, <1>8 DEF CheckInv

\* What componentResult() makes of a package and a phase.
LEMMA StatusIs ==
  ASSUME NEW pack \in Packages, NEW phase \in {"active", "failed", "inactive"}
  PROVE  /\ Status(pack, phase) \in Statuses \ {"listed"}
         /\ Status(pack, phase) = "satisfied" => pack = "present" /\ phase = "active"
BY DEF Status, Packages, Statuses

\* The phase is read: a component that is satisfied was listed, present and active.
LEMMA LookKeeps ==
  ASSUME CheckInv, NEW k \in Components, Look(k)
  PROVE  CheckInv' /\ chain' = chain /\ closed' = closed
<1> DEFINE status == Status(package[k], fact[k].phase)
<1>1. /\ package[k] # "unread" /\ seen' = [seen EXCEPT ![k] = status]
      /\ package' = [package EXCEPT ![k] = "unread"]
      /\ UNCHANGED <<fact, changes, faults, chain, shown, closed, since>>
  BY DEF Look
<1>2. package[k] \in Packages /\ fact[k].phase \in {"active", "failed", "inactive"}
  BY <1>1 DEF CheckInv, HealthTypeOK, EveryFact
<1>3. status \in Statuses \ {"listed"} /\ (status = "satisfied" => package[k] = "present" /\ fact[k].phase = "active")
  BY <1>2, StatusIs
<1> HIDE DEF status
<1>4. /\ seen' \in [Components -> Statuses \cup {"unseen", "listed", "lost"}]
      /\ seen'[k] = status /\ \A j \in Components \ {k} : seen'[j] = seen[j]
  BY <1>1, <1>3 DEF CheckInv, HealthTypeOK
<1>5. /\ package' \in [Components -> Packages \cup {"unread"}]
      /\ package'[k] = "unread" /\ \A j \in Components \ {k} : package'[j] = package[j]
  BY <1>1 DEF CheckInv, HealthTypeOK
<1>6. slow' \subseteq Components
  BY DEF Look, CheckInv, HealthTypeOK
<1>7. HealthTypeOK'
  BY <1>1, <1>4, <1>5, <1>6 DEF CheckInv, HealthTypeOK
<1>8. ChainInv'
  BY <1>1, SameChain DEF CheckInv
<1>9. chain # <<>> /\ seen[k] = "listed"
  BY <1>1 DEF CheckInv, SeenInv, Unseen
<1>10. \A j \in Strict : Found(j, since[chain[1]])'
  <2> SUFFICES ASSUME NEW j \in Strict PROVE Found(j, since[chain[1]])'
    OBVIOUS
  <2>1. Found(j, since[chain[1]]) /\ j \in Components
    BY <1>9 DEF CheckInv, SeenInv, Strict
  <2>2. CASE j = k
    BY <2>1, <2>2, <1>1, <1>3, <1>4, <1>5, <1>9, HeadKnows DEF CheckInv, Found
  <2>3. CASE j # k
    BY <2>1, <2>3, <1>1, <1>4, <1>5 DEF Found
  <2> QED BY <2>2, <2>3
<1>11. SeenInv'
  BY <1>1, <1>4, <1>5, <1>9, <1>10 DEF CheckInv, SeenInv
<1> QED BY <1>1, <1>7, <1>8, <1>11 DEF CheckInv

\* The wait for a startup failure ends.
LEMMA DiagnosedKeeps ==
  ASSUME CheckInv, NEW k \in Components, Diagnosed(k)
  PROVE  CheckInv' /\ chain' = chain /\ closed' = closed
<1>1. UNCHANGED <<fact, changes, faults, chain, seen, package, shown, closed, since>>
  BY DEF Diagnosed
<1>2. HealthTypeOK'
  BY <1>1 DEF Diagnosed, CheckInv, HealthTypeOK
<1>3. ChainInv'
  BY <1>1, SameChain DEF CheckInv
<1>4. SeenInv'
  BY <1>1 DEF CheckInv, SeenInv, Found
<1> QED BY <1>1, <1>2, <1>3, <1>4 DEF CheckInv

\* What is shown of the components.
LEMMA CandidateIs ==
  /\ Candidate \in Shown
  /\ Candidate = "normal" => \A k \in Strict : seen[k] = "satisfied"
<1>1. Mode(seen) \in Modes
  BY DEF Mode, Modes
<1>2. ASSUME Mode(seen) = "normal", NEW k \in Strict PROVE seen[k] = "satisfied"
  <2>1. Policy[k] \in {"block", "restrict"} /\ k \in Components
    BY PolicyAssumption DEF Strict
  <2> QED BY <2>1, <1>2 DEF Mode
<1> QED BY <1>1, <1>2 DEF Candidate, Shown, Modes

\* A check ends: the next one begins with nothing seen.  What is shown as normal is
\* what the check knows.
LEMMA EndKeeps ==
  ASSUME CheckInv, Published \/ PublishFails
  PROVE  /\ CheckInv' /\ chain # <<>> /\ chain' = Tail(chain) /\ closed' = closed
         /\ shown' = "normal" => Strict \X {"listed", "present", "active"} \subseteq since[Head(chain)]
<1>1. /\ Observed /\ Over
      /\ UNCHANGED <<fact, changes, package, slow, closed>>
      /\ shown' = "normal" => Candidate = "normal"
  BY DEF Published, PublishFails
<1>2. faults' \in 0..MaxFaults
  BY FaultKeeps DEF Published, PublishFails, CheckInv, HealthTypeOK
<1>3. shown' \in Shown
  BY CandidateIs DEF Published, PublishFails, Shown
<1>4. chain \in Seq(Checks) /\ chain # <<>> /\ chain' = Tail(chain)
  BY <1>1 DEF CheckInv, HealthTypeOK, Observed, Over
<1>5. /\ Tail(chain) \in Seq(Checks) /\ Head(chain) = chain[1] /\ Head(chain) \in Checks
      /\ Len(chain) \in Nat \ {0} /\ Len(Tail(chain)) = Len(chain) - 1
      /\ \A i \in 1..Len(Tail(chain)) : Tail(chain)[i] = chain[i + 1] /\ i + 1 \in 1..Len(chain)
  BY <1>4, TailHas
<1>6. /\ since' \in [Checks -> SUBSET (Strict \X {"listed", "present", "active"})]
      /\ \A c \in Checks \ {Head(chain)} : since'[c] = since[c]
  BY <1>1, <1>5 DEF Over, CheckInv, HealthTypeOK
<1>7. seen' = Unseen /\ Unseen \in [Components -> Statuses \cup {"unseen", "listed", "lost"}]
  BY <1>1 DEF Over, Unseen
<1>8. HealthTypeOK'
  BY <1>1, <1>2, <1>3, <1>4, <1>5, <1>6, <1>7 DEF CheckInv, HealthTypeOK
<1>9. 1 \in 1..Len(chain) /\ \A i \in 1..Len(chain') : i + 1 # 1 /\ i \in Nat
  BY <1>4, <1>5
<1>10. \A i \in 1..Len(chain') : /\ chain'[i] = chain[i + 1] /\ i + 1 \in 1..Len(chain)
                                 /\ chain'[i] \in Checks \ {Head(chain)}
  BY <1>4, <1>5, <1>9 DEF CheckInv, ChainInv
<1>11. \A i, j \in 1..Len(chain') : chain'[i] = chain'[j] => i = j
  <2> SUFFICES ASSUME NEW i \in 1..Len(chain'), NEW j \in 1..Len(chain'), chain'[i] = chain'[j]
               PROVE  i = j
    OBVIOUS
  <2>1. i + 1 = j + 1
    BY <1>10 DEF CheckInv, ChainInv
  <2> QED BY <2>1, <1>9
<1>12. \A i \in 1..Len(chain') : Good(fact') \subseteq since'[chain'[i]]
  BY <1>1, <1>6, <1>10 DEF CheckInv, ChainInv
<1>13. package = Unread
  <2>1. \A k \in Components : package[k] = "unread"
    BY <1>1 DEF CheckInv, SeenInv, Observed
  <2> QED BY <2>1 DEF CheckInv, HealthTypeOK, Unread
<1>14. SeenInv'
  BY <1>1, <1>7, <1>13 DEF SeenInv, Found, Unseen, Unread, Strict
<1>15. shown' = "normal" => Strict \X {"listed", "present", "active"} \subseteq since[Head(chain)]
  <2>1. ASSUME Candidate = "normal", NEW k \in Strict, NEW good \in {"listed", "present", "active"}
        PROVE  <<k, good>> \in since[chain[1]]
    <3>1. seen[k] = "satisfied" /\ Found(k, since[chain[1]])
      BY <2>1, <1>4, CandidateIs DEF CheckInv, SeenInv
    <3> QED BY <3>1 DEF Found
  <2>2. Candidate = "normal" => Strict \X {"listed", "present", "active"} \subseteq since[chain[1]]
    <3> SUFFICES ASSUME Candidate = "normal", NEW x \in Strict \X {"listed", "present", "active"}
                 PROVE  x \in since[chain[1]]
      OBVIOUS
    <3>1. PICK k \in Strict, good \in {"listed", "present", "active"} : x = <<k, good>>
      OBVIOUS
    <3> QED BY <3>1, <2>1
  <2>3. Head(chain) = chain[1] /\ (shown' = "normal" => Candidate = "normal")
    BY <1>1, <1>5
  <2> QED BY <2>2, <2>3
<1> QED BY <1>1, <1>4, <1>8, <1>11, <1>12, <1>14, <1>15 DEF CheckInv, ChainInv

\* A step of a check.
LEMMA CheckingKeeps ==
  ASSUME CheckInv, Checking
  PROVE  /\ CheckInv' /\ closed' = closed
         /\ \/ chain' = chain
            \/ /\ chain # <<>> /\ chain' = Tail(chain)
               /\ shown' = "normal" =>
                    Strict \X {"listed", "present", "active"} \subseteq since[Head(chain)]
BY ListKeeps, InspectKeeps, LookKeeps, DiagnosedKeeps, EndKeeps DEF Checking

(***************************************************************************)
(* The parts.                                                              *)
(***************************************************************************)

\* The plugin's own variables have their types.
PluginTyped ==
  /\ gate \in {"starting", "ready", "failed", "disposed"}
  /\ step \in {"off", "opening", "checking", "up", "cleaning"}
  /\ held \subseteq Parts /\ todo \in Seq(OpNames) /\ failures \subseteq OpNames

\* The types of the checks, of the plugin and of the requests.
LEMMA TypeIs ==
  TypeOK <=> /\ HealthTypeOK /\ PluginTyped
             /\ req \in [Requests -> {"none", "waiting", "aborted", "handled"}]
BY DEF TypeOK, PluginTyped, OpNames

PluginInv == PluginTyped /\ PartsInv

\* The operations are a sequence of their names.
LEMMA OperationsTyped == Operations \in Seq(OpNames) /\ OpNames = {Operations[i] : i \in DOMAIN Operations}
<1>1. Operations \in Seq({"source", "controller", "health", "leases", "listener", "sourceService",
                          "coreService", "routes"})
  BY DEF Operations
<1> QED BY <1>1, OpNamesAre DEF OpNames

\* A cleanup begins: each part that is open has its operation.
LEMMA CleaningStartsKeeps ==
  ASSUME PluginInv, NEW phase, NEW open \in SUBSET Parts, CleaningStarts(phase, open),
         failures' = failures, chain' = chain, closed' = closed,
         "health" \in open => "healthDomain" \in open, chain # <<>> => "health" \in open
  PROVE  PluginInv'
<1>1. /\ gate' \in {"failed", "disposed"} /\ step' = "cleaning" /\ held' = open \ {"timer"}
      /\ todo' = Operations
  BY DEF CleaningStarts
<1>2. Left' = OpNames
  BY <1>1, OperationsTyped DEF Left
<1>3. "health" \in OpNames
  BY OpNamesAre
<1>4. held' \subseteq OpParts((failures \cup Left)')
  <2>1. held' \subseteq OpParts(OpNames)
    BY <1>1, AllIsReleased
  <2>2. OpParts(OpNames) \subseteq OpParts(failures' \cup OpNames)
    BY DEF OpParts
  <2> QED BY <2>1, <2>2, <1>2
<1>5. PluginTyped'
  BY <1>1, OperationsTyped DEF PluginInv, PluginTyped
<1>6. PhaseInv'
  BY <1>1 DEF PhaseInv
<1>7. HeldInv'
  BY <1>1 DEF HeldInv
<1>8. CleanInv'
  BY <1>1, <1>2, <1>3, <1>4 DEF CleanInv
<1> QED BY <1>5, <1>6, <1>7, <1>8 DEF PluginInv, PartsInv

\* The next part is open; with the last one, the first check begins.
LEMMA OpenKeeps ==
  ASSUME PluginInv, Open
  PROVE  PluginInv'
<1>1. PICK i \in DOMAIN Opening :
        /\ Opening[i] \notin held /\ \A j \in 1..(i - 1) : Opening[j] \in held
        /\ held' = held \cup {Opening[i]}
        /\ IF i < Len(Opening)
           THEN UNCHANGED <<step, chain, since>>
           ELSE /\ step' = "checking"
                /\ chain' = <<First>> /\ since' = [since EXCEPT ![First] = Good(fact)]
  BY DEF Open
<1>2. step = "opening" /\ UNCHANGED <<gate, todo, failures, closed>>
  BY DEF Open
<1>3. Len(Opening) = 6 /\ DOMAIN Opening = 1..6
  BY DEF Opening
<1>4. /\ Opening[i] \in Parts \ {"timer", "listener"}
      /\ Opening[i] = "health" <=> i = 6
      /\ i = 6 => "healthDomain" \in held
  <2>1. i \in {1, 2, 3, 4, 5, 6}
    BY <1>3
  <2>2. i = 6 => Opening[2] \in held
    BY <1>1
  <2>3. Opening[2] = "healthDomain"
    BY DEF Opening
  <2>4. Opening[i] \in Parts \ {"timer", "listener"} /\ (Opening[i] = "health" <=> i = 6)
    BY <2>1, PartsAre DEF Opening
  <2> QED BY <2>2, <2>3, <2>4
<1>5. chain = <<>> /\ gate = "starting" /\ ~closed /\ todo = <<>>
  BY <1>2 DEF PluginInv, PartsInv, PhaseInv, HeldInv, CleanInv
<1>6. \/ i # 6 /\ step' = "opening" /\ chain' = <<>>
      \/ i = 6 /\ step' = "checking"
  BY <1>1, <1>2, <1>3, <1>5
<1>7. PluginTyped'
  BY <1>1, <1>2, <1>4, <1>6 DEF PluginInv, PluginTyped
<1>8. PhaseInv' /\ CleanInv'
  BY <1>2, <1>5, <1>6 DEF PhaseInv, CleanInv
<1>9. HeldInv'
  BY <1>1, <1>2, <1>4, <1>5, <1>6 DEF PluginInv, PartsInv, HeldInv
<1> QED BY <1>7, <1>8, <1>9 DEF PluginInv, PartsInv

\* A part cannot be opened.
LEMMA OpenFailsKeeps ==
  ASSUME PluginInv, OpenFails
  PROVE  PluginInv'
BY CleaningStartsKeeps DEF OpenFails, PluginInv, PluginTyped, PartsInv, HeldInv

\* All the rest is there, and the gate opens.
LEMMA FinishKeeps ==
  ASSUME PluginInv, Finish
  PROVE  PluginInv'
<1>1. /\ step = "checking" /\ held' = Parts /\ step' = "up" /\ gate' = "ready" /\ chain = <<>>
      /\ UNCHANGED <<health, todo, failures>>
  BY DEF Finish
<1>2. "healthDomain" \in Parts /\ "health" \in Parts
  BY PartsAre
<1>3. ~closed /\ todo = <<>>
  BY <1>1 DEF PluginInv, PartsInv, HeldInv, CleanInv
<1>4. PluginTyped'
  BY <1>1 DEF PluginInv, PluginTyped
<1>5. PhaseInv' /\ HeldInv' /\ CleanInv'
  BY <1>1, <1>2, <1>3 DEF PhaseInv, HeldInv, CleanInv, health
<1> QED BY <1>4, <1>5 DEF PluginInv, PartsInv

\* One of the last registrations fails, whichever have been made.
LEMMA FinishFailsKeeps ==
  ASSUME PluginInv, FinishFails
  PROVE  PluginInv'
<1>1. PICK n \in 0..Len(Ending) : CleaningStarts("failed", held \cup {Ending[i] : i \in 1..n})
  BY DEF FinishFails
<1> DEFINE more == {Ending[i] : i \in 1..n}
<1>2. more \subseteq {"coreService", "sourceService", "timer", "listener"}
  <2>1. Len(Ending) = 4
    BY DEF Ending
  <2>2. \A i \in 1..n : i \in {1, 2, 3, 4}
    BY <2>1
  <2> QED BY <2>2 DEF Ending
<1> HIDE DEF more
<1>3. held \cup more \subseteq Parts /\ "health" \notin more /\ chain = <<>>
  BY <1>2, PartsAre DEF PluginInv, PluginTyped, FinishFails
<1>4. CleaningStarts("failed", held \cup more)
  BY <1>1 DEF more
<1>5. failures' = failures /\ chain' = chain /\ closed' = closed
  BY DEF FinishFails
<1>6. "health" \in held \cup more => "healthDomain" \in held \cup more
  BY <1>3 DEF PluginInv, PartsInv, HeldInv
<1> QED BY <1>3, <1>4, <1>5, <1>6, CleaningStartsKeeps

\* The host disposes the plugin.
LEMMA DisposeKeeps ==
  ASSUME PluginInv, Dispose
  PROVE  PluginInv'
<1>1. CleaningStarts(gate, held) /\ failures' = failures /\ chain' = chain /\ closed' = closed
  BY DEF Dispose, health
<1>2. held \in SUBSET Parts
  BY DEF PluginInv, PluginTyped
<1> QED BY <1>1, <1>2, CleaningStartsKeeps DEF PluginInv, PartsInv, HeldInv

\* The health service takes no more checks.
LEMMA HealthClosesKeeps ==
  ASSUME PluginInv, HealthCloses
  PROVE  PluginInv'
<1>1. /\ step = "cleaning" /\ closed' = TRUE /\ chain' = chain
      /\ UNCHANGED plugin
  BY DEF HealthCloses
<1> QED BY <1>1 DEF plugin, PluginInv, PluginTyped, PartsInv, PhaseInv, HeldInv, CleanInv, Left

\* An operation is over, or has failed: what it does not release is reported, and
\* there is no check after the one on the health service.
LEMMA OperationEnds ==
  ASSUME PluginInv, step = "cleaning", todo # <<>>, MayEnd(Head(todo)), todo' = Tail(todo),
         UNCHANGED <<gate, step, chain, closed>>,
         \/ held' = held \ Releases(Head(todo)) /\ failures' = failures
         \/ held' = held /\ failures' = failures \cup {Head(todo)}
  PROVE  PluginInv'
<1> DEFINE h == Head(todo)
<1>1. todo \in Seq(OpNames)
  BY DEF PluginInv, PluginTyped
<1>2. h \in OpNames /\ Tail(todo) \in Seq(OpNames) /\ Left = {h} \cup Left'
  BY <1>1, TailHas DEF Left
<1> HIDE DEF h
<1>3. \/ held' = held \ Releases(h) /\ failures' = failures
      \/ held' = held /\ failures' = failures \cup {h}
  BY DEF h
<1>4. MayEnd(h)
  BY DEF h
<1>5. PluginTyped'
  BY <1>2, <1>3 DEF PluginInv, PluginTyped
<1>6. PhaseInv'
  BY DEF PluginInv, PartsInv, PhaseInv
<1>7. /\ held \subseteq OpParts(failures \cup Left)
      /\ "health" \notin Left => chain = <<>> /\ ("health" \in held => closed)
      /\ chain # <<>> => "health" \in held
      /\ "health" \in held => "healthDomain" \in held
  BY DEF PluginInv, PartsInv, HeldInv, CleanInv
<1>8. held' \subseteq OpParts((failures \cup Left)')
  BY <1>2, <1>3, <1>7 DEF OpParts
<1>9. "health" \notin Left' => chain = <<>> /\ ("health" \in held => closed)
  BY <1>2, <1>4, <1>7 DEF MayEnd
<1>10. held' \subseteq held
  BY <1>3
<1>11. "health" \in held' => "healthDomain" \in held'
  <2>1. "healthDomain" \in Releases(h) => "health" \in Releases(h)
    BY <1>2, OpNamesAre DEF Releases
  <2> QED BY <2>1, <1>3, <1>7
<1>12. chain # <<>> => "health" \in held'
  <2>1. "health" \in Releases(h) => h = "health"
    BY <1>2, OpNamesAre DEF Releases
  <2> QED BY <2>1, <1>3, <1>4, <1>7 DEF MayEnd
<1>13. HeldInv'
  BY <1>11, <1>12 DEF PluginInv, PartsInv, HeldInv
<1>14. CleanInv'
  BY <1>8, <1>9, <1>10 DEF CleanInv
<1> QED BY <1>5, <1>6, <1>13, <1>14 DEF PluginInv, PartsInv

\* A step of cleanup().
LEMMA CleaningKeeps ==
  ASSUME PluginInv, Cleaning
  PROVE  PluginInv'
<1>1. CASE HealthCloses
  BY <1>1, HealthClosesKeeps
<1>2. CASE Release
  BY <1>2, OperationEnds DEF Release, health
<1>3. CASE ReleaseFails
  BY <1>3, OperationEnds DEF ReleaseFails
<1>4. CASE CleaningEnds
  <2>1. /\ step = "cleaning" /\ todo = <<>> /\ step' = "off"
        /\ UNCHANGED <<gate, held, todo, failures, chain, closed>>
    BY <1>4 DEF CleaningEnds, health
  <2> QED BY <2>1 DEF PluginInv, PluginTyped, PartsInv, PhaseInv, HeldInv, CleanInv, Left
<1> QED BY <1>1, <1>2, <1>3, <1>4 DEF Cleaning

\* The plugin begins anew: no check is left of the time before.
LEMMA ActivateKeeps ==
  ASSUME PluginInv, Activate
  PROVE  PluginInv' /\ chain = <<>>
<1>1. /\ step = "off" /\ gate' = "starting" /\ step' = "opening" /\ held' = Beginning
      /\ failures' = {} /\ closed' = FALSE /\ UNCHANGED <<chain, todo>>
  BY DEF Activate
<1>2. todo = <<>> /\ chain = <<>>
  BY <1>1 DEF PluginInv, PartsInv, CleanInv, Left
<1>3. Beginning \subseteq Parts /\ Beginning = {"leases", "routes"}
  BY DEF Parts, Beginning
<1> QED BY <1>1, <1>2, <1>3 DEF PluginInv, PluginTyped, PartsInv, PhaseInv, HeldInv, CleanInv

\* A step of the checks or the requests alone: no check is added.
LEMMA OthersKeep ==
  ASSUME PluginInv, UNCHANGED plugin, chain' # <<>> => chain # <<>>, closed' = closed
  PROVE  PluginInv'
BY DEF plugin, PluginInv, PluginTyped, PartsInv, PhaseInv, HeldInv, CleanInv, Left

\* A check is asked for, which happens only over an open store.
LEMMA AskKeeps ==
  ASSUME PluginInv, NEW c \in Checks, Ask(c)
  PROVE  PluginInv'
<1>1. /\ held \cap {"timer", "listener"} # {} /\ "health" \in held /\ ~closed
      /\ closed' = closed /\ UNCHANGED plugin
  BY DEF Ask, Recheck
<1>2. step # "opening" /\ ("health" \in Left \/ step \notin {"cleaning", "off"})
  BY <1>1 DEF PluginInv, PartsInv, HeldInv, CleanInv
<1> QED BY <1>1, <1>2 DEF plugin, PluginInv, PluginTyped, PartsInv, PhaseInv, HeldInv, CleanInv, Left

(***************************************************************************)
(* Every step.                                                             *)
(***************************************************************************)

\* The checks' variables stay, but for faults and what is shown.
LEMMA CheckSame ==
  ASSUME CheckInv, UNCHANGED <<fact, changes, chain, seen, package, slow, since>>,
         faults' = faults \/ (faults < MaxFaults /\ faults' = faults + 1),
         shown' \in Shown, closed' \in BOOLEAN
  PROVE  CheckInv'
<1>1. faults' \in 0..MaxFaults
  BY FaultKeeps DEF CheckInv, HealthTypeOK
<1>2. HealthTypeOK'
  BY <1>1 DEF CheckInv, HealthTypeOK
<1>3. ChainInv' /\ SeenInv'
  BY SameChain DEF CheckInv, SeenInv, Found
<1> QED BY <1>2, <1>3 DEF CheckInv

\* The first check begins.
LEMMA OpenKeepsChecks ==
  ASSUME CheckInv, PluginInv, Open
  PROVE  CheckInv' /\ (chain' = chain \/ chain = <<>>)
<1>1. step = "opening" /\ chain = <<>> /\ seen = Unseen /\ package = Unread
  BY DEF Open, PluginInv, PartsInv, HeldInv, CheckInv, SeenInv
<1>2. \/ UNCHANGED <<chain, since>>
      \/ chain' = <<First>> /\ since' = [since EXCEPT ![First] = Good(fact)]
  BY DEF Open
<1>3. UNCHANGED <<fact, changes, faults, seen, package, slow, shown, closed>>
  BY DEF Open
<1>4. CASE UNCHANGED <<chain, since>>
  BY <1>3, <1>4, CheckSame DEF CheckInv, HealthTypeOK
<1>5. CASE chain' = <<First>> /\ since' = [since EXCEPT ![First] = Good(fact)]
  <2>1. /\ chain' \in Seq(Checks) /\ Len(chain') = 1 /\ chain' # <<>>
        /\ \A i \in 1..Len(chain') : i = 1 /\ chain'[i] = First
    BY <1>5, FirstAssumption
  <2>2. /\ since' \in [Checks -> SUBSET (Strict \X {"listed", "present", "active"})]
        /\ since'[First] = Good(fact)
    BY <1>5, FirstAssumption, GoodTyped DEF CheckInv, HealthTypeOK
  <2>3. HealthTypeOK'
    BY <1>3, <2>1, <2>2 DEF CheckInv, HealthTypeOK
  <2>4. ChainInv'
    BY <1>3, <2>1, <2>2 DEF ChainInv
  <2>5. SeenInv'
    BY <1>1, <1>3, <2>1 DEF SeenInv, Found, Unseen, Unread, Strict
  <2> QED BY <1>1, <2>3, <2>4, <2>5 DEF CheckInv
<1> QED BY <1>1, <1>2, <1>4, <1>5

\* A request at the gate disturbs nothing else.
LEMMA RequestTyped ==
  ASSUME TypeOK, NEW r \in Requests, Fetch(r) \/ Abort(r) \/ Resume(r) \/ Handled(r)
  PROVE  req' \in [Requests -> {"none", "waiting", "aborted", "handled"}] /\ UNCHANGED <<health, plugin>>
<1>1. \A gone \in BOOLEAN : Passed(gone) \in {"handled", "none"}
  BY DEF Passed
<1>2. (req[r] = "aborted") \in BOOLEAN
  OBVIOUS
<1>3. Passed(FALSE) \in {"handled", "none"} /\ Passed(req[r] = "aborted") \in {"handled", "none"}
  BY <1>1, <1>2
<1>4. CASE Fetch(r)
  BY <1>3, <1>4 DEF TypeOK, Fetch
<1>5. CASE Abort(r)
  BY <1>5 DEF TypeOK, Abort
<1>6. CASE Resume(r)
  BY <1>3, <1>6 DEF TypeOK, Resume
<1>7. CASE Handled(r)
  BY <1>7 DEF TypeOK, Handled
<1> QED BY <1>4, <1>5, <1>6, <1>7

\* What a step does, for both arguments at once.
Honest ==
  chain # <<>> /\ chain' = Tail(chain) /\ shown' = "normal" =>
    Strict \X {"listed", "present", "active"} \subseteq since[Head(chain)]

\* The invariant, of the checks and of the parts.
LEMMA IInvIs ==
  IInv <=> /\ CheckInv /\ PluginInv
           /\ req \in [Requests -> {"none", "waiting", "aborted", "handled"}]
BY TypeIs DEF IInv, CheckInv, PluginInv

\* The same of the next state.
LEMMA IInvAgain ==
  ASSUME CheckInv', PluginInv', (req \in [Requests -> {"none", "waiting", "aborted", "handled"}])'
  PROVE  IInv'
BY DEF IInv, TypeOK, CheckInv, PluginInv, PluginTyped, OpNames

\* A step that does not take the head from the chain is no end of a check.
LEMMA NoEnd ==
  ASSUME HealthTypeOK, chain' = chain \/ chain = <<>> \/ chain' # Tail(chain)
  PROVE  Honest
<1>1. ASSUME chain # <<>> PROVE chain # Tail(chain)
  <2>1. chain \in Seq(Checks)
    BY DEF HealthTypeOK
  <2>2. Len(Tail(chain)) = Len(chain) - 1 /\ Len(chain) \in Nat
    BY <1>1, <2>1, TailHas
  <2>3. Len(Tail(chain)) # Len(chain)
    BY <2>2
  <2> QED BY <2>3
<1> QED BY <1>1 DEF Honest

\* Each step keeps the invariant, and shows as normal only what was good.
LEMMA NextKeeps ==
  ASSUME IInv, Next
  PROVE  IInv' /\ Honest
<1> USE IInvAgain
<1>0. /\ CheckInv /\ PluginInv /\ HealthTypeOK /\ TypeOK
      /\ req \in [Requests -> {"none", "waiting", "aborted", "handled"}]
      /\ faults \in Nat /\ shown \in Shown /\ closed \in BOOLEAN
  BY BoundAssumption, IInvIs DEF IInv, CheckInv, TypeOK, HealthTypeOK
<1>1. ASSUME NEW k \in Components, Change(k), UNCHANGED <<plugin, req>>
      PROVE  IInv' /\ Honest
  BY <1>0, <1>1, ChangeKeeps, OthersKeep, NoEnd
<1>2. CASE CheckStep
  <2>1. Checking /\ UNCHANGED <<plugin, req>>
    BY <1>2 DEF CheckStep
  <2>2. CheckInv' /\ closed' = closed /\ Honest /\ (chain' # <<>> => chain # <<>>)
    BY <1>0, <2>1, CheckingKeeps, NoEnd DEF Honest
  <2> QED BY <1>0, <2>1, <2>2, OthersKeep
<1>3. CASE Open
  BY <1>0, <1>3, OpenKeeps, OpenKeepsChecks, NoEnd DEF Open
<1>4. CASE OpenFails
  <2>1. /\ UNCHANGED <<fact, changes, chain, seen, package, slow, since, shown, closed, req>>
        /\ faults < MaxFaults /\ faults' = faults + 1
    BY <1>4 DEF OpenFails, Fault
  <2>2. CheckInv'
    BY <1>0, <2>1, CheckSame
  <2> QED BY <1>0, <1>4, <2>1, <2>2, OpenFailsKeeps, NoEnd
<1>5. CASE Finish
  <2>1. UNCHANGED health /\ req' = req
    BY <1>5 DEF Finish
  <2>2. CheckInv' /\ chain' = chain
    BY <1>0, <2>1, CheckSame DEF health
  <2> QED BY <1>0, <1>5, <2>1, <2>2, FinishKeeps, NoEnd
<1>6. CASE FinishFails
  <2>1. /\ UNCHANGED <<fact, changes, chain, seen, package, slow, since, shown, closed, req>>
        /\ faults < MaxFaults /\ faults' = faults + 1
    BY <1>6 DEF FinishFails, Fault
  <2>2. CheckInv'
    BY <1>0, <2>1, CheckSame
  <2> QED BY <1>0, <1>6, <2>1, <2>2, FinishFailsKeeps, NoEnd
<1>7. CASE Dispose
  <2>1. UNCHANGED health /\ req' = req
    BY <1>7 DEF Dispose
  <2>2. CheckInv' /\ chain' = chain
    BY <1>0, <2>1, CheckSame DEF health
  <2> QED BY <1>0, <1>7, <2>1, <2>2, DisposeKeeps, NoEnd
<1>8. CASE Cleaning
  <2>1. /\ UNCHANGED <<fact, changes, chain, seen, package, slow, since, shown, req>>
        /\ faults' = faults \/ (faults < MaxFaults /\ faults' = faults + 1)
        /\ closed' \in BOOLEAN
    <3>1. CASE HealthCloses
      BY <3>1 DEF HealthCloses
    <3>2. CASE Release
      BY <1>0, <3>2 DEF Release, health
    <3>3. CASE ReleaseFails
      BY <1>0, <3>3 DEF ReleaseFails, Fault
    <3>4. CASE CleaningEnds
      BY <1>0, <3>4 DEF CleaningEnds, health
    <3> QED BY <1>8, <3>1, <3>2, <3>3, <3>4 DEF Cleaning
  <2>2. CheckInv'
    BY <1>0, <2>1, CheckSame
  <2> QED BY <1>0, <1>8, <2>1, <2>2, CleaningKeeps, NoEnd
<1>9. CASE Activate
  <2>1. /\ UNCHANGED <<fact, changes, faults, chain, seen, package, slow, since, req>>
        /\ shown' \in Shown /\ closed' \in BOOLEAN
    BY <1>9 DEF Activate, Shown
  <2>2. CheckInv'
    BY <1>0, <2>1, CheckSame
  <2> QED BY <1>0, <1>9, <2>1, <2>2, ActivateKeeps, NoEnd
<1>10. ASSUME NEW c \in Checks, Ask(c) PROVE IInv' /\ Honest
  <2>1. Recheck(c) /\ req' = req
    BY <1>10 DEF Ask
  <2> QED BY <1>0, <1>10, <2>1, RecheckKeeps, AskKeeps, NoEnd
<1>11. ASSUME NEW r \in Requests, Fetch(r) \/ Abort(r) \/ Resume(r) \/ Handled(r)
       PROVE  IInv' /\ Honest
  <2>1. UNCHANGED <<health, plugin>> /\ req' \in [Requests -> {"none", "waiting", "aborted", "handled"}]
    BY <1>0, <1>11, RequestTyped
  <2>2. CheckInv' /\ chain' = chain /\ closed' = closed
    BY <1>0, <2>1, CheckSame DEF health
  <2> QED BY <1>0, <2>1, <2>2, OthersKeep, NoEnd
<1> QED BY <1>1, <1>2, <1>3, <1>4, <1>5, <1>6, <1>7, <1>8, <1>9, <1>10, <1>11 DEF Next

\* The invariant holds when apply() begins.
LEMMA InitHolds == Init => IInv
<1> SUFFICES ASSUME Init PROVE IInv
  OBVIOUS
<1>1. HealthTypeOK
  <2>1. chain \in Seq(Checks) /\ changes \in 0..MaxChanges /\ faults \in 0..MaxFaults
    BY BoundAssumption DEF Init, HealthInit
  <2> QED BY <2>1 DEF Init, HealthInit, HealthTypeOK, Unseen, Unread, Shown
<1>2. ChainInv /\ SeenInv
  BY DEF Init, HealthInit, ChainInv, SeenInv, Unread
<1>3. PluginTyped
  BY DEF Init, PluginTyped, Parts
<1>4. Beginning = {"leases", "routes"}
  BY DEF Beginning
<1>5. PartsInv
  BY <1>4 DEF Init, HealthInit, PartsInv, PhaseInv, HeldInv, CleanInv
<1> QED BY <1>1, <1>2, <1>3, <1>5, IInvIs DEF Init, CheckInv, PluginInv

\* The invariant and what a step may show, on every behaviour.
THEOREM PluginInductive == Spec => []IInv /\ [][IInv /\ Honest]_vars
<1>1. IInv /\ [Next]_vars => IInv'
  <2> SUFFICES ASSUME IInv, [Next]_vars PROVE IInv'
    OBVIOUS
  <2>1. CASE Next
    BY <2>1, NextKeeps
  <2>2. CASE UNCHANGED vars
    BY <2>2 DEF vars, health, IInv, TypeOK, HealthTypeOK, PartsInv, PhaseInv, HeldInv, CleanInv, Left,
                ChainInv, SeenInv, Found
  <2> QED BY <2>1, <2>2
<1>2. IInv /\ [Next]_vars => [IInv /\ Honest]_vars
  BY NextKeeps
<1> QED BY <1>1, <1>2, InitHolds, PTL DEF Spec

\* Every variable of the plugin and its checks keeps to its type (src/dsh.mjs,
\* src/health/service.ts).
THEOREM TypeCorrect == Spec => []TypeOK
<1>1. IInv => TypeOK
  BY DEF IInv
<1> QED BY <1>1, PluginInductive, PTL

\* The gate lets requests in only while every part is there, checks run only over an
\* open store, and a plugin that is off has released every part or reports the
\* operation that failed (apply() and cleanup() in src/dsh.mjs), for any number of
\* failures.
THEOREM WholeOrReported == Spec => []PluginIsWhole
<1>1. IInv => PluginIsWhole
  <2> SUFFICES ASSUME IInv PROVE PluginIsWhole
    OBVIOUS
  <2>1. gate = "ready" => step = "up" /\ held = Parts /\ ~closed
    BY DEF IInv, PartsInv, PhaseInv, HeldInv
  <2>2. chain # <<>> => {"health", "healthDomain"} \subseteq held
    BY DEF IInv, PartsInv, HeldInv
  <2>3. ASSUME step = "off" PROVE held \subseteq UNION {Releases(op) : op \in failures}
    <3>1. Left = {}
      BY <2>3 DEF IInv, PartsInv, CleanInv, Left
    <3>2. failures \cup Left = failures
      BY <3>1
    <3> QED BY <2>3, <3>2 DEF IInv, PartsInv, CleanInv, OpParts
  <2> QED BY <2>1, <2>2, <2>3 DEF PluginIsWhole
<1> QED BY <1>1, PluginInductive, PTL

\* A check shows "normal" only when every component that may block or restrict was
\* listed, present and active at some time since the check was asked for (recheck()
\* in src/health/service.ts and evaluate() in src/health/evaluate.ts), for any number
\* of checks and components.
THEOREM HonestHealth == Spec => HealthIsHonest
<1>1. [IInv /\ Honest]_vars =>
        [chain # <<>> /\ chain' = Tail(chain) /\ shown' = "normal" =>
           Strict \X {"listed", "present", "active"} \subseteq since[Head(chain)]]_vars
  BY DEF Honest
<1> QED BY <1>1, PluginInductive, PTL DEF HealthIsHonest
=============================================================================
