---------------------------- MODULE SharedHomeProofs ----------------------------
(***************************************************************************)
(* Proofs about the files of the shared home, which any number of          *)
(* processes read and claim: SharedIdentity (the device and its key, for   *)
(* any number of clients, overlapping resolutions and keys) and            *)
(* AgentOnboarding (the consent generation and the local close, for any    *)
(* number of processes and ids).  The two specifications share nothing     *)
(* but the idea: what is claimed by a link is never claimed again.         *)
(***************************************************************************)
EXTENDS SharedIdentity, AgentOnboarding, TLAPS

(***************************************************************************)
(* SharedIdentity                                                          *)
(***************************************************************************)

LEMMA IdleJobType == IdleJob \in Job
  BY DEF IdleJob, Job, PC, OptKey

LEMMA IdentityType == Failed \in Identity /\ \A s \in Sources : Shared(s) \in Identity
  BY DEF Failed, Shared, Identity

LEMMA SourceType == \A j, won : SourceOf(j, won) \in Sources
  BY DEF SourceOf, Sources

\* What the resolution's steps make of a job is a job.
LEMMA JobType ==
  ASSUME NEW j \in Job, NEW k \in OptKey, NEW pc \in PC,
         NEW t \in {"none", "partial", "whole"}
  PROVE  /\ [j EXCEPT !.pc = pc, !.local = k] \in Job
         /\ [j EXCEPT !.pc = pc, !.cand = k] \in Job
         /\ [j EXCEPT !.pc = pc, !.won = k] \in Job
         /\ [j EXCEPT !.pc = pc, !.temp = t] \in Job
  BY DEF Job

\* Type correctness of the identity protocol, whatever clients, overlapping
\* resolutions and keys there are.
THEOREM TypeCorrect == Spec => []TypeOK
<1>1. ASSUME Init PROVE TypeOK
  <2>1. snap \in [Clients -> Snapshot]
    <3>1. <<>> \in Seq(Keys)
      OBVIOUS
    <3>2. [device : OptKey, replaced : {<<>>}, registered : OptKey] \subseteq Snapshot
      BY <3>1 DEF Snapshot
    <3> QED
      BY <1>1, <3>2 DEF Init
  <2> QED
    BY <1>1, <2>1, IdleJobType, IdentityType, RemovalAssumption DEF Init, TypeOK, OptKey
<1>2. TypeOK /\ [Next]_vars => TypeOK'
  <2> SUFFICES ASSUME TypeOK, [Next]_vars PROVE TypeOK'
    OBVIOUS
  <2> USE ResolverAssumption, RemovalAssumption
  <2>0. ASSUME NEW r \in Resolvers PROVE ClientOf[r] \in Clients /\ job[r] \in Job
    BY DEF TypeOK
  <2>j. ASSUME NEW r \in Resolvers PROVE job[r].cand \in OptKey /\ job[r].local \in OptKey
                                         /\ job[r].won \in OptKey
    BY <2>0 DEF Job
  <2>s. ASSUME NEW c \in Clients PROVE snap[c] \in Snapshot /\ snap[c].device \in OptKey
    BY DEF TypeOK, Snapshot
  <2>1. ASSUME NEW r \in Resolvers, Boot(r) \/ Refresh(r) PROVE TypeOK'
    <3>1. [IdleJob EXCEPT !.pc = "read", !.local = snap[ClientOf[r]].device] \in Job
      BY <2>0, <2>s, IdleJobType, JobType DEF PC
    <3> QED
      BY <2>1, <3>1 DEF TypeOK, Boot, Refresh, Begin
  <2>2. ASSUME NEW r \in Resolvers, ReadExisting(r) \/ ReadBack(r) PROVE TypeOK'
    <3>1. Shared(SourceOf(job[r], file)) \in Identity
      BY SourceType, IdentityType
    <3>2. CASE Return(r, Shared(SourceOf(job[r], file)))
      BY <2>2, <3>1, <3>2, IdleJobType DEF TypeOK, ReadExisting, ReadBack, Return
    <3>3. CASE job' = [job EXCEPT ![r].pc = "publish", ![r].won = file]
               /\ UNCHANGED <<running, identity>>
      <4>1. [job[r] EXCEPT !.pc = "publish", !.won = file] \in Job
        BY <2>2, <2>0, JobType DEF ReadExisting, ReadBack, PC, OptKey
      <4> QED
        BY <2>2, <3>3, <4>1 DEF TypeOK, ReadExisting, ReadBack
    <3> QED
      BY <2>2, <3>2, <3>3 DEF ReadExisting, ReadBack, Resolved
  <2>3. ASSUME NEW r \in Resolvers, ReadAbsent(r) PROVE TypeOK'
    <3>1. PICK k \in OptKey : job' = [job EXCEPT ![r].pc = "open", ![r].cand = k]
      BY <2>3, <2>j DEF ReadAbsent, FreshKey, OptKey
    <3>2. [job[r] EXCEPT !.pc = "open", !.cand = k] \in Job
      BY <2>0, JobType DEF PC
    <3> QED
      BY <2>3, <3>1, <3>2 DEF TypeOK, ReadAbsent
  <2>4. ASSUME NEW r \in Resolvers, OpenTemp(r) \/ WriteTemp(r) PROVE TypeOK'
    <3>1. /\ [job[r] EXCEPT !.pc = "write", !.temp = "partial"] \in Job
          /\ [job[r] EXCEPT !.pc = "link", !.temp = "whole"] \in Job
      BY <2>0, JobType DEF PC, OptKey
    <3> QED
      BY <2>4, <3>1 DEF TypeOK, OpenTemp, WriteTemp
  <2>5. ASSUME NEW r \in Resolvers, Link(r) PROVE TypeOK'
    <3>1. [job[r] EXCEPT !.pc = "readback", !.temp = "none"] \in Job
      BY <2>0, JobType DEF PC, OptKey
    <3>2. file' \in OptKey \cup {Torn}
      BY <2>5, <2>j DEF Link, TypeOK
    <3> QED
      BY <2>5, <3>1, <3>2 DEF TypeOK, Link
  <2>6. ASSUME NEW r \in Resolvers, StoreFails(r) PROVE TypeOK'
    BY <2>6, IdleJobType, IdentityType DEF TypeOK, StoreFails, Return
  <2>7. ASSUME NEW r \in Resolvers, PublishDevice(r) PROVE TypeOK'
    <3>1. Shared(SourceOf(job[r], job[r].won)) \in Identity
      BY SourceType, IdentityType
    <3>2. Adopt(snap[ClientOf[r]], job[r].won) \in Snapshot
      BY <2>0, <2>j, <2>s DEF Adopt, Snapshot, OptKey
    <3> QED
      BY <2>7, <3>1, <3>2, IdleJobType DEF TypeOK, PublishDevice, Return
  <2>8. ASSUME NEW r \in Resolvers, PublishFails(r) PROVE TypeOK'
    BY <2>8, IdleJobType DEF TypeOK, PublishFails
  <2>9. ASSUME NEW c \in Clients, RegisterStart(c) \/ RegisterCommit(c) \/ RegisterFails(c)
        PROVE TypeOK'
    <3>1. [snap[c] EXCEPT !.registered = sending[c]] \in Snapshot
      BY DEF TypeOK, Snapshot
    <3>2. NoKey \in OptKey
      BY DEF OptKey
    <3> QED
      BY <2>9, <2>s, <3>1, <3>2 DEF TypeOK, RegisterStart, RegisterCommit, RegisterFails
  <2>10. ASSUME NEW c \in Clients, Crash(c) PROVE TypeOK'
    BY <2>10, IdleJobType, IdentityType DEF TypeOK, Crash, OptKey
  <2>11. CASE Damage \/ Repair \/ Remove
    BY <2>11 DEF TypeOK, Damage, Repair, Remove, OptKey
  <2>12. CASE UNCHANGED vars
    BY <2>12 DEF TypeOK, vars
  <2> QED
    BY <2>1, <2>2, <2>3, <2>4, <2>5, <2>6, <2>7, <2>8, <2>9, <2>10, <2>11, <2>12
    DEF Next, Step
<1> QED
  BY <1>1, <1>2, PTL DEF Spec

(***************************************************************************)
(* What a resolution carries is what it made or read.                      *)
(***************************************************************************)
JobInv ==
  \A r \in Resolvers :
    /\ job[r].pc \in {"open", "write", "link"} => job[r].cand \in Keys
    /\ job[r].pc = "link" => job[r].temp = "whole"
    /\ job[r].pc = "publish" => job[r].won \in Keys

LEMMA JobInvStep ==
  ASSUME TypeOK, JobInv, NeverTorn, [Next]_vars PROVE JobInv' /\ NeverTorn'
<1> USE ResolverAssumption DEF JobInv, NeverTorn
<1>0. \A r \in Resolvers : job[r] \in Job
  BY DEF TypeOK
<1>1. ASSUME NEW r \in Resolvers, Boot(r) \/ Refresh(r) PROVE JobInv' /\ NeverTorn'
  BY <1>0, <1>1 DEF Boot, Refresh, Begin, IdleJob, TypeOK
<1>2. ASSUME NEW r \in Resolvers, ReadExisting(r) \/ ReadBack(r) PROVE JobInv' /\ NeverTorn'
  BY <1>0, <1>2 DEF ReadExisting, ReadBack, Resolved, Return, IdleJob, TypeOK, Job
<1>3. ASSUME NEW r \in Resolvers, ReadAbsent(r) PROVE JobInv' /\ NeverTorn'
  <2>1. PICK k \in Keys : job' = [job EXCEPT ![r].pc = "open", ![r].cand = k]
    BY <1>0, <1>3 DEF ReadAbsent, FreshKey, Job, OptKey
  <2> QED
    BY <1>0, <1>3, <2>1 DEF ReadAbsent, TypeOK, Job
<1>4. ASSUME NEW r \in Resolvers, OpenTemp(r) \/ WriteTemp(r) PROVE JobInv' /\ NeverTorn'
  BY <1>0, <1>4 DEF OpenTemp, WriteTemp, TypeOK, Job
<1>5. ASSUME NEW r \in Resolvers, Link(r) PROVE JobInv' /\ NeverTorn'
  BY <1>0, <1>5, KeyAssumption DEF Link, TypeOK, Job
<1>6. ASSUME NEW r \in Resolvers, StoreFails(r) \/ PublishDevice(r) \/ PublishFails(r)
      PROVE JobInv' /\ NeverTorn'
  BY <1>0, <1>6 DEF StoreFails, PublishDevice, PublishFails, Return, IdleJob, TypeOK
<1>7. ASSUME NEW c \in Clients,
             RegisterStart(c) \/ RegisterCommit(c) \/ RegisterFails(c)
      PROVE JobInv' /\ NeverTorn'
  BY <1>7 DEF RegisterStart, RegisterCommit, RegisterFails
<1>8. ASSUME NEW c \in Clients, Crash(c) PROVE JobInv' /\ NeverTorn'
  BY <1>8 DEF Crash, IdleJob
<1>9. CASE Damage \/ Repair \/ Remove
  BY <1>9, KeyAssumption DEF Damage, Repair, Remove
<1>10. CASE UNCHANGED vars
  BY <1>10 DEF vars
<1> QED
  BY <1>1, <1>2, <1>3, <1>4, <1>5, <1>6, <1>7, <1>8, <1>9, <1>10 DEF Next, Step

\* A reader of the file never sees half an identity.
THEOREM FileIsWhole == Spec => []NeverTorn
<1>1. Init => JobInv /\ NeverTorn
  BY KeyAssumption DEF Init, JobInv, NeverTorn, IdleJob
<1>2. TypeOK /\ (JobInv /\ NeverTorn) /\ [Next]_vars => (JobInv /\ NeverTorn)'
  BY JobInvStep
<1> QED
  BY <1>1, <1>2, TypeCorrect, PTL DEF Spec

(***************************************************************************)
(* Keys are kept.                                                          *)
(***************************************************************************)
LEMMA AdoptKeepsKeys ==
  ASSUME NEW s \in Snapshot, NEW won \in OptKey
  PROVE  KeysOf(s) \ {NoKey} \subseteq KeysOf(Adopt(s, won))
<1>1. CASE s.device = won \/ s.device = NoKey
  BY <1>1 DEF Adopt, KeysOf, Snapshot
<1>2. CASE s.device # won /\ s.device # NoKey
  <2> DEFINE t == Adopt(s, won)
  <2>1. s.device \in Keys /\ s.replaced \in Seq(Keys)
    BY <1>2 DEF Snapshot, OptKey
  <2>2. t.replaced = Append(s.replaced, s.device)
    BY <1>2 DEF Adopt
  <2>3. /\ DOMAIN t.replaced = 1..(Len(s.replaced) + 1)
        /\ \A i \in DOMAIN s.replaced : t.replaced[i] = s.replaced[i]
        /\ t.replaced[Len(s.replaced) + 1] = s.device
        /\ DOMAIN s.replaced = 1..Len(s.replaced) /\ Len(s.replaced) \in Nat
    BY <2>1, <2>2
  <2> QED
    BY <2>3 DEF KeysOf
<1> QED
  BY <1>1, <1>2

\* No client ever loses a key it held, whatever races, failures, crashes and
\* removals of the file happen.
THEOREM KeysAreKept == Spec => NoKeyLost
<1> DEFINE Kept == \A c \in Clients : KeysOf(snap[c]) \ {NoKey} \subseteq KeysOf(snap'[c])
<1>1. TypeOK /\ [Next]_vars => [Kept]_vars
  <2> SUFFICES ASSUME TypeOK, Next PROVE Kept
    OBVIOUS
  <2> USE ResolverAssumption
  <2>1. CASE UNCHANGED snap
    BY <2>1
  <2>2. ASSUME NEW r \in Resolvers, PublishDevice(r) PROVE Kept
    BY <2>2, AdoptKeepsKeys DEF PublishDevice, TypeOK, Job
  <2>3. ASSUME NEW c \in Clients, RegisterCommit(c) PROVE Kept
    BY <2>3 DEF RegisterCommit, TypeOK, Snapshot, KeysOf
  <2> QED
    BY <2>1, <2>2, <2>3
    DEF Next, Step, Boot, Refresh, ReadExisting, ReadAbsent, OpenTemp, WriteTemp, Link,
        ReadBack, StoreFails, PublishFails, RegisterStart, RegisterFails, Crash,
        Damage, Repair, Remove
<1> QED
  BY <1>1, TypeCorrect, PTL DEF Spec, NoKeyLost

(***************************************************************************)
(* One identity, as long as nobody moves the file away.                    *)
(*                                                                         *)
(* Agreement alone is not inductive: a resolution about to publish must    *)
(* carry the key that is in the file, an in-flight registration must have  *)
(* been sent with it, and a client that replaced its device has replaced   *)
(* it by the file's key.  A resolution that captured the local device can   *)
(* rely on it unless another one already replaced it by the file's key.     *)
(***************************************************************************)
JobOne(r) ==
  /\ job[r].pc \in {"readback", "publish"} => file \in Keys
  /\ job[r].pc = "publish" => job[r].won = file
  /\ job[r].local # NoKey => snap[ClientOf[r]].device \in {job[r].local, file}

ClientOne(c) ==
  /\ identity[c].status = "shared" => file # NoKey /\ snap[c].device = file
  /\ sending[c] # NoKey => sending[c] = file /\ snap[c].device = file
  /\ snap[c].replaced # <<>> =>
       /\ file \in Keys /\ snap[c].device = file
       /\ Len(snap[c].replaced) = 1 /\ snap[c].replaced[1] # file
  /\ snap[c].registered \in {NoKey, snap[c].device}

OneIdentity == (\A r \in Resolvers : JobOne(r)) /\ (\A c \in Clients : ClientOne(c))

\* The file is moved away for good: from then on `removals` is positive.
LEMMA RemoveCounts ==
  ASSUME TypeOK, [Next]_vars, removals' = 0
  PROVE  removals = 0 /\ ~Remove
<1>1. removals \in Nat /\ (Remove => removals' = removals + 1)
  BY RemovalAssumption DEF TypeOK, Remove
<1>2. Remove \/ UNCHANGED removals
  BY DEF Next, Step, Boot, Refresh, ReadExisting, ReadAbsent, OpenTemp, WriteTemp, Link, ReadBack,
         StoreFails, PublishDevice, PublishFails, RegisterStart, RegisterCommit, RegisterFails,
         Crash, Damage, Repair, vars
<1> QED
  BY <1>1, <1>2

LEMMA JobOneStep ==
  ASSUME TypeOK, JobInv, NeverTorn, OneIdentity, [Next]_vars, removals' = 0, NEW s \in Resolvers
  PROVE  JobOne(s)'
<1> USE ResolverAssumption, KeyAssumption DEF JobOne
<1>0. /\ \A r \in Resolvers : job[r] \in Job /\ ClientOf[r] \in Clients
      /\ \A c \in Clients : snap[c] \in Snapshot /\ sending[c] \in OptKey
      /\ file \in OptKey
  BY DEF TypeOK, NeverTorn
<1>1. ASSUME NEW r \in Resolvers, Boot(r) \/ Refresh(r) PROVE JobOne(s)'
  <2>1. UNCHANGED <<file, snap>>
    BY <1>1 DEF Boot, Refresh
  <2>2. CASE s = r
    <3>1. job'[s].pc = "read" /\ job'[s].local = snap[ClientOf[s]].device
      BY <1>1, <2>2 DEF Boot, Refresh, Begin, IdleJob, TypeOK
    <3> QED
      BY <2>1, <3>1
  <2>3. CASE s # r
    <3>1. job'[s] = job[s]
      BY <1>1, <2>3 DEF Boot, Refresh, Begin, TypeOK
    <3> QED
      BY <2>1, <3>1 DEF OneIdentity
  <2> QED
    BY <2>2, <2>3
<1>2. ASSUME NEW r \in Resolvers, ReadExisting(r) \/ ReadBack(r) PROVE JobOne(s)'
  BY <1>0, <1>2
  DEF OneIdentity, JobOne, ReadExisting, ReadBack, Resolved, Return, Shared, IdleJob, TypeOK, Job
<1>3. ASSUME NEW r \in Resolvers, ReadAbsent(r) PROVE JobOne(s)'
  <2>1. PICK k : job' = [job EXCEPT ![r].pc = "open", ![r].cand = k]
    BY <1>3 DEF ReadAbsent
  <2> QED
    BY <1>0, <1>3, <2>1 DEF OneIdentity, ReadAbsent, TypeOK, Job
<1>4. ASSUME NEW r \in Resolvers, OpenTemp(r) \/ WriteTemp(r) PROVE JobOne(s)'
  <2>1. /\ UNCHANGED <<file, snap>>
        /\ s # r => job'[s] = job[s]
        /\ s = r => job'[s].pc \in {"write", "link"} /\ job'[s].local = job[s].local
    BY <1>0, <1>4 DEF OpenTemp, WriteTemp, TypeOK, Job
  <2> QED
    BY <2>1 DEF OneIdentity
<1>5. ASSUME NEW r \in Resolvers, Link(r) PROVE JobOne(s)'
  BY <1>0, <1>5 DEF OneIdentity, Link, TypeOK, JobInv, OptKey, Job
<1>6. ASSUME NEW r \in Resolvers, StoreFails(r) \/ PublishFails(r) PROVE JobOne(s)'
  BY <1>0, <1>6 DEF OneIdentity, StoreFails, PublishFails, Return, Failed, IdleJob, TypeOK
<1>7. ASSUME NEW r \in Resolvers, PublishDevice(r) PROVE JobOne(s)'
  <2>1. job[r].won = file /\ file \in Keys
    BY <1>7 DEF OneIdentity, JobOne, PublishDevice
  <2> QED
    BY <1>0, <1>7, <2>1
    DEF OneIdentity, PublishDevice, Adopt, Return, Shared, IdleJob, TypeOK, Snapshot, OptKey
<1>8. ASSUME NEW c \in Clients, RegisterStart(c) \/ RegisterFails(c) PROVE JobOne(s)'
  <2>1. identity[c].status \in {"failed", "shared"}
    BY DEF TypeOK, Identity
  <2> QED
    BY <1>0, <1>8, <2>1 DEF OneIdentity, ClientOne, RegisterStart, RegisterFails, Ready, TypeOK
<1>9. ASSUME NEW c \in Clients, RegisterCommit(c) PROVE JobOne(s)'
  BY <1>0, <1>9 DEF OneIdentity, ClientOne, RegisterCommit, TypeOK, Snapshot
<1>10. ASSUME NEW c \in Clients, Crash(c) PROVE JobOne(s)'
  BY <1>0, <1>10 DEF OneIdentity, Crash, IdleJob, Failed, TypeOK
<1>11. CASE Damage \/ Repair \/ Remove
  BY <1>11, RemoveCounts DEF OneIdentity, Damage, Repair
<1>12. CASE UNCHANGED vars
  BY <1>12 DEF OneIdentity, vars
<1> QED
  BY <1>1, <1>2, <1>3, <1>4, <1>5, <1>6, <1>7, <1>8, <1>9, <1>10, <1>11, <1>12 DEF Next, Step

LEMMA ClientOneStep ==
  ASSUME TypeOK, JobInv, NeverTorn, OneIdentity, [Next]_vars, removals' = 0, NEW d \in Clients
  PROVE  ClientOne(d)'
<1> USE ResolverAssumption, KeyAssumption DEF ClientOne
<1>0. /\ \A r \in Resolvers : job[r] \in Job /\ ClientOf[r] \in Clients
      /\ \A c \in Clients : snap[c] \in Snapshot /\ sending[c] \in OptKey
      /\ file \in OptKey
  BY DEF TypeOK, NeverTorn
<1>1. ASSUME NEW r \in Resolvers, Boot(r) \/ Refresh(r) PROVE ClientOne(d)'
  BY <1>0, <1>1 DEF OneIdentity, Boot, Refresh, Begin, IdleJob, TypeOK
<1>2. ASSUME NEW r \in Resolvers, ReadExisting(r) \/ ReadBack(r) PROVE ClientOne(d)'
  BY <1>0, <1>2
  DEF OneIdentity, JobOne, ReadExisting, ReadBack, Resolved, Return, Shared, IdleJob, TypeOK, Job
<1>3. ASSUME NEW r \in Resolvers, ReadAbsent(r) PROVE ClientOne(d)'
  <2>1. PICK k : job' = [job EXCEPT ![r].pc = "open", ![r].cand = k]
    BY <1>3 DEF ReadAbsent
  <2> QED
    BY <1>0, <1>3, <2>1 DEF OneIdentity, ReadAbsent, TypeOK, Job
<1>4. ASSUME NEW r \in Resolvers, OpenTemp(r) \/ WriteTemp(r) PROVE ClientOne(d)'
  BY <1>0, <1>4 DEF OneIdentity, OpenTemp, WriteTemp, TypeOK, Job
<1>5. ASSUME NEW r \in Resolvers, Link(r) PROVE ClientOne(d)'
  BY <1>0, <1>5 DEF OneIdentity, Link, TypeOK, JobInv, OptKey, Job
<1>6. ASSUME NEW r \in Resolvers, StoreFails(r) \/ PublishFails(r) PROVE ClientOne(d)'
  BY <1>0, <1>6 DEF OneIdentity, StoreFails, PublishFails, Return, Failed, IdleJob, TypeOK
<1>7. ASSUME NEW r \in Resolvers, PublishDevice(r) PROVE ClientOne(d)'
  <2>1. job[r].won = file /\ file \in Keys
    BY <1>7 DEF OneIdentity, JobOne, PublishDevice
  <2> QED
    BY <1>0, <1>7, <2>1
    DEF OneIdentity, PublishDevice, Adopt, Return, Shared, IdleJob, TypeOK, Snapshot, OptKey
<1>8. ASSUME NEW c \in Clients, RegisterStart(c) \/ RegisterFails(c) PROVE ClientOne(d)'
  <2>1. identity[c].status \in {"failed", "shared"}
    BY DEF TypeOK, Identity
  <2> QED
    BY <1>0, <1>8, <2>1 DEF OneIdentity, ClientOne, RegisterStart, RegisterFails, Ready, TypeOK
<1>9. ASSUME NEW c \in Clients, RegisterCommit(c) PROVE ClientOne(d)'
  BY <1>0, <1>9 DEF OneIdentity, ClientOne, RegisterCommit, TypeOK, Snapshot
<1>10. ASSUME NEW c \in Clients, Crash(c) PROVE ClientOne(d)'
  BY <1>0, <1>10 DEF OneIdentity, Crash, IdleJob, Failed, TypeOK
<1>11. CASE Damage \/ Repair \/ Remove
  BY <1>11, RemoveCounts DEF OneIdentity, Damage, Repair
<1>12. CASE UNCHANGED vars
  BY <1>12 DEF OneIdentity, vars
<1> QED
  BY <1>1, <1>2, <1>3, <1>4, <1>5, <1>6, <1>7, <1>8, <1>9, <1>10, <1>11, <1>12 DEF Next, Step

\* Racing claims, failures and crashes never make two clients act under
\* different keys, and a registration is recorded only for the device in use.
THEOREM OneMachineIdentity ==
  Spec => [](removals = 0 => Agreement /\ RegistrationOfDevice /\ ReplacedOnce)
<1> DEFINE I == JobInv /\ NeverTorn /\ (removals = 0 => OneIdentity)
<1>1. Init => I
  BY KeyAssumption, ResolverAssumption
  DEF Init, JobInv, NeverTorn, OneIdentity, JobOne, ClientOne, IdleJob, Failed
<1>2. TypeOK /\ I /\ [Next]_vars => I'
  BY JobInvStep, JobOneStep, ClientOneStep, RemoveCounts DEF OneIdentity
<1>3. TypeOK /\ OneIdentity => Agreement /\ RegistrationOfDevice /\ ReplacedOnce
  <2> SUFFICES ASSUME TypeOK, OneIdentity PROVE Agreement /\ RegistrationOfDevice /\ ReplacedOnce
    OBVIOUS
  <2>1. Agreement /\ RegistrationOfDevice
    BY DEF OneIdentity, ClientOne, Agreement, RegistrationOfDevice
  <2>2. ASSUME NEW c \in Clients, NEW i \in DOMAIN snap[c].replaced
        PROVE  i = 1 /\ snap[c].replaced[i] # snap[c].device
    <3>1. snap[c].replaced \in Seq(Keys)
      BY DEF TypeOK, Snapshot
    <3>2. snap[c].replaced # <<>>
      BY <2>2, <3>1
    <3> QED
      BY <2>2, <3>1, <3>2 DEF OneIdentity, ClientOne
  <2> QED
    BY <2>1, <2>2 DEF ReplacedOnce
<1> QED
  BY <1>1, <1>2, <1>3, TypeCorrect, PTL DEF Spec

(***************************************************************************)
(* Refinement: the file is the write-once register of WriteOnceIdentity.   *)
(***************************************************************************)
Known == [c \in Clients |-> IF identity[c].status = "shared" THEN snap[c].device ELSE NoKey]

\* The concrete protocol implements the write-once register.
THEOREM Implements == Spec => WriteOnce
<1> USE ResolverAssumption, KeyAssumption
<1> DEFINE I == JobInv /\ NeverTorn /\ (removals = 0 => OneIdentity)
<1>1. Init => Abstract!Init
  BY DEF Init, Abstract!Init, Failed
<1>2. ASSUME TypeOK, I, I', [Next]_vars, removals' = 0 PROVE [Abstract!Next]_(Abstract!vars)
  <2>0. /\ \A r \in Resolvers : job[r] \in Job /\ ClientOf[r] \in Clients
        /\ \A c \in Clients : snap[c] \in Snapshot
        /\ file \in OptKey
    BY <1>2 DEF TypeOK, NeverTorn
  <2>i. OneIdentity /\ OneIdentity' /\ ~Remove
    BY <1>2, RemoveCounts
  <2>1. ASSUME UNCHANGED <<file, identity, snap>> PROVE UNCHANGED Abstract!vars
    BY <2>1 DEF Abstract!vars
  <2>2. ASSUME NEW r \in Resolvers, Link(r) PROVE [Abstract!Next]_(Abstract!vars)
    <3>1. CASE file # NoKey
      BY <2>1, <2>2, <3>1 DEF Link
    <3>2. CASE file = NoKey
      BY <2>0, <2>2, <3>2, <1>2 DEF Link, JobInv, Abstract!Next, Abstract!Claim
    <3> QED
      BY <3>1, <3>2
  <2>3. ASSUME NEW c \in Clients, UNCHANGED file, Known' = [Known EXCEPT ![c] = NoKey]
        PROVE [Abstract!Next]_(Abstract!vars)
    BY <2>3 DEF Known, Abstract!Next, Abstract!Forget
  <2>4. ASSUME NEW c \in Clients, UNCHANGED file, file # NoKey, Known' = [Known EXCEPT ![c] = file]
        PROVE [Abstract!Next]_(Abstract!vars)
    BY <2>4 DEF Known, Abstract!Next, Abstract!Learn
  <2>5. ASSUME NEW r \in Resolvers, NEW id \in {Failed} \cup {Shared(x) : x \in Sources},
               identity' = [identity EXCEPT ![ClientOf[r]] = id], UNCHANGED <<file, snap>>
        PROVE [Abstract!Next]_(Abstract!vars)
    <3>1. CASE id = Failed
      <4>1. Known' = [Known EXCEPT ![ClientOf[r]] = NoKey]
        BY <2>5, <3>1, <1>2 DEF Known, Failed, TypeOK
      <4> QED
        BY <2>0, <2>3, <2>5, <4>1
    <3>2. CASE id # Failed
      <4>1. id.status = "shared"
        BY <2>5, <3>2 DEF Shared
      <4>2. file # NoKey /\ snap[ClientOf[r]].device = file
        BY <1>2, <2>0, <2>5, <4>1, <2>i DEF OneIdentity, ClientOne, TypeOK
      <4>3. Known' = [Known EXCEPT ![ClientOf[r]] = file]
        BY <2>5, <4>1, <4>2, <1>2 DEF Known, TypeOK
      <4> QED
        BY <2>0, <2>4, <2>5, <4>2, <4>3
    <3> QED
      BY <3>1, <3>2
  <2>6. ASSUME NEW r \in Resolvers, ReadExisting(r) \/ ReadBack(r) PROVE [Abstract!Next]_(Abstract!vars)
    <3>1. CASE UNCHANGED identity
      BY <2>1, <2>6, <3>1 DEF ReadExisting, ReadBack
    <3>2. CASE Return(r, Shared(SourceOf(job[r], file)))
      BY <2>5, <2>6, <3>2, SourceType DEF ReadExisting, ReadBack, Return
    <3> QED
      BY <2>6, <3>1, <3>2 DEF ReadExisting, ReadBack, Resolved
  <2>7. ASSUME NEW r \in Resolvers, StoreFails(r) PROVE [Abstract!Next]_(Abstract!vars)
    BY <2>5, <2>7 DEF StoreFails, Return
  <2>8. ASSUME NEW r \in Resolvers, PublishDevice(r) PROVE [Abstract!Next]_(Abstract!vars)
    <3> DEFINE c == ClientOf[r]
    <3>1. job[r].won = file /\ file \in Keys
      BY <2>i, <2>8 DEF OneIdentity, JobOne, PublishDevice
    <3>2. /\ UNCHANGED file /\ c \in Clients
          /\ identity' = [identity EXCEPT ![c] = Shared(SourceOf(job[r], job[r].won))]
          /\ snap' = [snap EXCEPT ![c] = Adopt(@, file)]
      BY <2>0, <2>8, <3>1 DEF PublishDevice, Return
    <3>3. snap'[c].device = file
      BY <2>0, <3>2, <1>2 DEF Adopt, TypeOK, Snapshot
    <3>4. Known' = [Known EXCEPT ![c] = file]
      BY <3>2, <3>3, <1>2 DEF Known, Shared, TypeOK
    <3> QED
      BY <2>4, <3>1, <3>2, <3>4
  <2>9. ASSUME NEW c \in Clients, RegisterCommit(c) PROVE [Abstract!Next]_(Abstract!vars)
    <3>1. \A d \in Clients : snap'[d].device = snap[d].device
      BY <2>0, <2>9, <1>2 DEF RegisterCommit, TypeOK, Snapshot
    <3>2. Known' = Known /\ UNCHANGED file
      BY <2>9, <3>1 DEF RegisterCommit, Known
    <3> QED
      BY <3>2 DEF Known, Abstract!vars
  <2>10. ASSUME NEW c \in Clients, Crash(c) PROVE [Abstract!Next]_(Abstract!vars)
    <3>1. Known' = [Known EXCEPT ![c] = NoKey]
      BY <2>10, <1>2 DEF Crash, Known, Failed, TypeOK
    <3> QED
      BY <2>3, <2>10, <3>1 DEF Crash
  <2>11. CASE Damage \/ Repair \/ Remove \/ UNCHANGED vars
    BY <2>1, <2>11, <2>i DEF Damage, Repair, vars
  <2> QED
    BY <2>1, <2>2, <2>6, <2>7, <2>8, <2>9, <2>10, <2>11, <1>2
    DEF Next, Step, Boot, Refresh, ReadAbsent, OpenTemp, WriteTemp, PublishFails,
        RegisterStart, RegisterFails
<1>3. Init => I
  BY DEF Init, JobInv, NeverTorn, OneIdentity, JobOne, ClientOne, IdleJob, Failed
<1>4. TypeOK /\ I /\ [Next]_vars => I'
  BY JobInvStep, JobOneStep, ClientOneStep, RemoveCounts DEF OneIdentity
<1>5. TypeOK /\ I /\ I' /\ [Next]_vars
        => [removals' = 0 => Abstract!Next \/ UNCHANGED Abstract!vars]_vars
  BY <1>2
<1> QED
  BY <1>1, <1>5, <1>3, <1>4, TypeCorrect, PTL DEF Spec, WriteOnce

(***************************************************************************)
(* Only one client founds the identity.  A key that one client minted is   *)
(* nobody else's: no other client holds it, captured it or offers it until *)
(* the file holds it, and from then on nobody offers a key.                *)
(***************************************************************************)
LocalInv(t) == job[t].local # NoKey => snap[ClientOf[t]].device # NoKey

OfferInv(s, t) ==
  ClientOf[s] # ClientOf[t] /\ job[s].cand # NoKey =>
    /\ job[s].cand = job[t].cand => job[s].local # NoKey /\ job[t].local # NoKey
    /\ file = NoKey /\ job[s].local = NoKey => job[t].local # job[s].cand

MintInv(s, d) ==
  ClientOf[s] # d /\ job[s].cand # NoKey =>
    /\ file = NoKey /\ job[s].local = NoKey => snap[d].device # job[s].cand
    /\ identity[d].source = "created" => job[s].cand # file
    /\ identity[d].source = "migrated" /\ job[s].local = NoKey => job[s].cand # file

SourceInv(d) == identity[d].source # "none" => identity[d].status = "shared"

Founding ==
  /\ \A s \in Resolvers : LocalInv(s)
  /\ \A s, t \in Resolvers : OfferInv(s, t)
  /\ \A s \in Resolvers, d \in Clients : MintInv(s, d)
  /\ \A d \in Clients : SourceInv(d)
  /\ FounderIsUnique

\* A resolution that ends with `won`, the key in the file, names its source
\* truthfully.
LEMMA FoundingReturn ==
  ASSUME TypeOK, OneIdentity, Founding, NEW r \in Resolvers,
         file \in Keys, Return(r, Shared(SourceOf(job[r], file))),
         UNCHANGED file,
         \A c \in Clients : snap'[c].device \in {snap[c].device, file}
  PROVE  Founding'
<1> USE ResolverAssumption, KeyAssumption
<1> DEFINE c == ClientOf[r]
           source == SourceOf(job[r], file)
<1>0. /\ c \in Clients /\ job \in [Resolvers -> Job] /\ identity \in [Clients -> Identity]
  BY DEF TypeOK
<1>1. /\ identity' = [identity EXCEPT ![c] = Shared(source)]
      /\ job' = [job EXCEPT ![r] = IdleJob]
  BY DEF Return
<1>2. /\ source = "created" => job[r].cand = file /\ job[r].local = NoKey
      /\ source = "migrated" => job[r].cand = file
  BY DEF SourceOf
<1>3. \A s \in Resolvers : job'[s] = IF s = r THEN IdleJob ELSE job[s]
  BY <1>0, <1>1
<1>4. \A d \in Clients : identity'[d] = IF d = c THEN Shared(source) ELSE identity[d]
  BY <1>0, <1>1
<1>5. ASSUME NEW s \in Resolvers PROVE LocalInv(s)'
  BY <1>3 DEF Founding, LocalInv, IdleJob
<1>6. ASSUME NEW s \in Resolvers, NEW t \in Resolvers PROVE OfferInv(s, t)'
  BY <1>3 DEF Founding, OfferInv, IdleJob
<1>7. ASSUME NEW s \in Resolvers, NEW d \in Clients PROVE MintInv(s, d)'
  <2>1. CASE d # c \/ s = r
    BY <1>3, <1>4, <2>1 DEF Founding, MintInv, IdleJob
  <2>2. CASE d = c /\ s # r
    <3>1. OfferInv(s, r)
      BY DEF Founding
    <3> QED
      BY <1>2, <1>3, <1>4, <2>2, <3>1 DEF MintInv, OfferInv, Shared
  <2> QED
    BY <2>1, <2>2
<1>8. ASSUME NEW d \in Clients PROVE SourceInv(d)'
  BY <1>4 DEF Founding, SourceInv, Shared
<1>9. FounderIsUnique'
  <2> SUFFICES ASSUME NEW a \in Clients, NEW b \in Clients, a # b,
                      identity'[a].source = "created",
                      identity'[b].source \in {"created", "migrated"}
               PROVE  FALSE
    BY DEF FounderIsUnique
  <2>1. CASE a # c /\ b # c
    BY <1>4, <2>1 DEF Founding, FounderIsUnique
  <2>2. CASE a = c
    BY <1>2, <1>4, <2>2 DEF Founding, MintInv, Shared
  <2>3. CASE b = c
    BY <1>2, <1>4, <2>3 DEF Founding, MintInv, Shared
  <2> QED
    BY <2>1, <2>2, <2>3
<1> QED
  BY <1>5, <1>6, <1>7, <1>8, <1>9 DEF Founding

LEMMA FoundingStep ==
  ASSUME TypeOK, JobInv, NeverTorn, OneIdentity, Founding, [Next]_vars, removals' = 0
  PROVE  Founding'
<1> USE ResolverAssumption, KeyAssumption
<1>0. /\ \A r \in Resolvers : job[r] \in Job /\ ClientOf[r] \in Clients
      /\ \A c \in Clients : snap[c] \in Snapshot /\ sending[c] \in OptKey
      /\ file \in OptKey
      /\ job \in [Resolvers -> Job] /\ identity \in [Clients -> Identity]
  BY DEF TypeOK, NeverTorn
\* Steps that change no candidate, no captured device and no identity.
<1>a. ASSUME \A s \in Resolvers : job'[s].cand = job[s].cand /\ job'[s].local = job[s].local,
             file' = file \/ file # NoKey \/ file' # NoKey,
             file' # file => file = NoKey /\ \E r \in Resolvers : file' = job[r].cand,
             \A c \in Clients : snap'[c].device = snap[c].device,
             UNCHANGED identity
      PROVE  Founding'
  <2>1. ASSUME NEW d \in Clients, identity[d].source # "none" PROVE file' = file
    BY <1>a, <2>1 DEF Founding, SourceInv, OneIdentity, ClientOne
  <2>2. \A s \in Resolvers : LocalInv(s)'
    BY <1>a, <1>0 DEF Founding, LocalInv
  <2>3. \A s, t \in Resolvers : OfferInv(s, t)'
    BY <1>a DEF Founding, OfferInv
  <2>4. \A s \in Resolvers, d \in Clients : MintInv(s, d)'
    BY <1>a, <2>1 DEF Founding, MintInv
  <2>5. (\A d \in Clients : SourceInv(d)') /\ FounderIsUnique'
    BY <1>a DEF Founding, SourceInv, FounderIsUnique
  <2> QED
    BY <2>2, <2>3, <2>4, <2>5 DEF Founding
\* Steps after which some jobs are idle and some clients hold no identity.
<1>b. ASSUME \A s \in Resolvers : \/ job'[s] = IdleJob
                                  \/ job'[s].cand = job[s].cand /\ job'[s].local = job[s].local,
             \A c \in Clients : identity'[c] \in {identity[c], Failed},
             UNCHANGED <<file, snap>>
      PROVE  Founding'
  <2>1. \A s \in Resolvers : LocalInv(s)'
    BY <1>b, <1>0 DEF Founding, LocalInv, IdleJob
  <2>2. \A s, t \in Resolvers : OfferInv(s, t)'
    BY <1>b DEF Founding, OfferInv, IdleJob
  <2>3. \A s \in Resolvers, d \in Clients : MintInv(s, d)'
    BY <1>b DEF Founding, MintInv, IdleJob, Failed
  <2>4. (\A d \in Clients : SourceInv(d)') /\ FounderIsUnique'
    BY <1>b DEF Founding, SourceInv, FounderIsUnique, Failed
  <2> QED
    BY <2>1, <2>2, <2>3, <2>4 DEF Founding
<1>1. ASSUME NEW r \in Resolvers, Boot(r) \/ Refresh(r) PROVE Founding'
  <2>1. UNCHANGED <<file, snap, identity>>
    BY <1>1 DEF Boot, Refresh
  <2>2. job'[r].cand = NoKey /\ job'[r].local = snap[ClientOf[r]].device
    BY <1>0, <1>1 DEF Boot, Refresh, Begin, IdleJob
  <2>3. \A s \in Resolvers : s # r => job'[s] = job[s]
    BY <1>0, <1>1 DEF Boot, Refresh, Begin
  <2>4. ASSUME NEW s \in Resolvers PROVE LocalInv(s)'
    BY <2>1, <2>2, <2>3 DEF Founding, LocalInv
  <2>5. ASSUME NEW s \in Resolvers, NEW t \in Resolvers PROVE OfferInv(s, t)'
    <3>1. CASE s = r
      BY <2>2, <3>1 DEF OfferInv
    <3>2. CASE s # r /\ t = r
      <4>1. MintInv(s, ClientOf[r])
        BY <1>0 DEF Founding
      <4> QED
        BY <2>1, <2>2, <2>3, <3>2, <4>1 DEF OfferInv, MintInv
    <3>3. CASE s # r /\ t # r
      BY <2>1, <2>3, <3>3 DEF Founding, OfferInv
    <3> QED
      BY <3>1, <3>2, <3>3
  <2>6. ASSUME NEW s \in Resolvers, NEW d \in Clients PROVE MintInv(s, d)'
    BY <2>1, <2>2, <2>3 DEF Founding, MintInv
  <2>7. (\A d \in Clients : SourceInv(d)') /\ FounderIsUnique'
    BY <2>1 DEF Founding, SourceInv, FounderIsUnique
  <2> QED
    BY <2>4, <2>5, <2>6, <2>7 DEF Founding
<1>2. ASSUME NEW r \in Resolvers, ReadExisting(r) \/ ReadBack(r) PROVE Founding'
  <2>1. CASE Return(r, Shared(SourceOf(job[r], file)))
    BY <1>2, <2>1, FoundingReturn DEF ReadExisting, ReadBack
  <2>2. CASE job' = [job EXCEPT ![r].pc = "publish", ![r].won = file]
             /\ UNCHANGED <<running, identity>>
    <3>1. \A s \in Resolvers : job'[s].cand = job[s].cand /\ job'[s].local = job[s].local
      BY <1>0, <2>2 DEF Job
    <3> QED
      BY <1>2, <1>a, <2>2, <3>1 DEF ReadExisting, ReadBack
  <2> QED
    BY <1>2, <2>1, <2>2 DEF ReadExisting, ReadBack, Resolved
<1>3. ASSUME NEW r \in Resolvers, ReadAbsent(r) PROVE Founding'
  <2>1. PICK k \in Keys : /\ job' = [job EXCEPT ![r].pc = "open", ![r].cand = k]
                          /\ job[r].local # NoKey => k = job[r].local
                          /\ job[r].local = NoKey => k \notin Held
    BY <1>0, <1>3 DEF ReadAbsent, FreshKey, Job, OptKey
  <2>2. file = NoKey /\ UNCHANGED <<file, snap, identity>>
    BY <1>3 DEF ReadAbsent
  <2>3. /\ job'[r].cand = k
        /\ \A s \in Resolvers : job'[s].local = job[s].local
        /\ \A s \in Resolvers : s # r => job'[s].cand = job[s].cand
    BY <1>0, <2>1 DEF Job
  <2>4. ASSUME job[r].local = NoKey
        PROVE  /\ \A d \in Clients : snap[d].device # k
               /\ \A s \in Resolvers : job[s].cand # k
               /\ \A s \in Resolvers : job[s].local # k
    <3>1. (\A d \in Clients : snap[d].device # k) /\ (\A s \in Resolvers : job[s].cand # k)
      BY <2>1, <2>4 DEF Held
    <3>2. ASSUME NEW s \in Resolvers PROVE job[s].local # k
      BY <1>0, <2>1, <2>2, <3>1 DEF Founding, LocalInv, OneIdentity, JobOne
    <3> QED
      BY <3>1, <3>2
  <2>5. \A d \in Clients : identity[d].source = "none"
    BY <1>0, <2>2 DEF Founding, SourceInv, OneIdentity, ClientOne
  <2>6. ASSUME NEW s \in Resolvers PROVE LocalInv(s)'
    BY <2>2, <2>3 DEF Founding, LocalInv
  <2>7. ASSUME NEW s \in Resolvers, NEW t \in Resolvers PROVE OfferInv(s, t)'
    <3>1. OfferInv(s, t) /\ OfferInv(t, s)
      BY DEF Founding
    <3> QED
      BY <2>1, <2>2, <2>3, <2>4, <3>1 DEF OfferInv
  <2>8. ASSUME NEW s \in Resolvers, NEW d \in Clients PROVE MintInv(s, d)'
    BY <2>2, <2>3, <2>4, <2>5 DEF Founding, MintInv
  <2>9. (\A d \in Clients : SourceInv(d)') /\ FounderIsUnique'
    BY <2>2 DEF Founding, SourceInv, FounderIsUnique
  <2> QED
    BY <2>6, <2>7, <2>8, <2>9 DEF Founding
<1>4. ASSUME NEW r \in Resolvers, OpenTemp(r) \/ WriteTemp(r) \/ Link(r) PROVE Founding'
  <2>1. \A s \in Resolvers : job'[s].cand = job[s].cand /\ job'[s].local = job[s].local
    BY <1>0, <1>4 DEF OpenTemp, WriteTemp, Link, Job
  <2>2. file' # file => file = NoKey /\ file' = job[r].cand /\ file' # NoKey
    BY <1>4 DEF OpenTemp, WriteTemp, Link, JobInv
  <2> QED
    BY <1>4, <1>a, <2>1, <2>2 DEF OpenTemp, WriteTemp, Link
<1>5. ASSUME NEW r \in Resolvers, StoreFails(r) PROVE Founding'
  BY <1>0, <1>5, <1>b DEF StoreFails, Return
<1>6. ASSUME NEW r \in Resolvers, PublishFails(r) PROVE Founding'
  BY <1>0, <1>6, <1>b DEF PublishFails
<1>7. ASSUME NEW r \in Resolvers, PublishDevice(r) PROVE Founding'
  <2>1. job[r].won = file /\ file \in Keys
    BY <1>7 DEF OneIdentity, JobOne, PublishDevice
  <2>2. ASSUME NEW c \in Clients PROVE snap'[c].device \in {snap[c].device, file}
    BY <1>0, <1>7, <2>1 DEF PublishDevice, Adopt, TypeOK, Snapshot
  <2> QED
    BY <1>7, <2>1, <2>2, FoundingReturn DEF PublishDevice
<1>8. ASSUME NEW c \in Clients, RegisterCommit(c) PROVE Founding'
  <2>1. \A d \in Clients : snap'[d].device = snap[d].device
    BY <1>0, <1>8 DEF RegisterCommit, TypeOK, Snapshot
  <2> QED
    BY <1>8, <1>a, <2>1 DEF RegisterCommit
<1>9. ASSUME NEW c \in Clients, RegisterStart(c) \/ RegisterFails(c) PROVE Founding'
  BY <1>9, <1>b DEF RegisterStart, RegisterFails
<1>10. ASSUME NEW c \in Clients, Crash(c) PROVE Founding'
  BY <1>0, <1>10, <1>b DEF Crash
<1>11. CASE Damage \/ Repair \/ Remove \/ UNCHANGED vars
  BY <1>11, <1>b, RemoveCounts DEF Damage, Repair, vars
<1> QED
  BY <1>1, <1>2, <1>3, <1>4, <1>5, <1>6, <1>7, <1>8, <1>9, <1>10, <1>11 DEF Next, Step

\* At most one client can claim to have created the machine's identity.
THEOREM OneFounder == Spec => [](removals = 0 => FounderIsUnique)
<1> DEFINE I == JobInv /\ NeverTorn /\ (removals = 0 => OneIdentity /\ Founding)
<1>1. Init => I
  BY KeyAssumption, ResolverAssumption
  DEF Init, JobInv, NeverTorn, OneIdentity, JobOne, ClientOne, IdleJob, Failed,
      Founding, LocalInv, OfferInv, MintInv, SourceInv, FounderIsUnique
<1>2. TypeOK /\ I /\ [Next]_vars => I'
  BY JobInvStep, JobOneStep, ClientOneStep, FoundingStep, RemoveCounts DEF OneIdentity
<1>3. I => (removals = 0 => FounderIsUnique)
  BY DEF Founding
<1> QED
  BY <1>1, <1>2, <1>3, TypeCorrect, PTL DEF Spec

\* The two together: the machine has one device, whoever made it, until
\* somebody moves the file away.
THEOREM MachineHasOneDevice == Spec => []OneDevice
<1>1. /\ NeverTorn
      /\ removals = 0 => Agreement /\ RegistrationOfDevice /\ ReplacedOnce
      /\ removals = 0 => FounderIsUnique
      => OneDevice
  BY DEF OneDevice
<1> QED
  BY <1>1, FileIsWhole, OneMachineIdentity, OneFounder, PTL

(***************************************************************************)
(* AgentOnboarding.                                                        *)
(*                                                                         *)
(* No invariant of the files alone is inductive: what a process has read   *)
(* is still there when it writes.  CallInv says so of one call, and holds  *)
(* of all of them because the files, and what the server has answered,     *)
(* only go forward (Onward).                                               *)
(***************************************************************************)

Answered == {"active", "withdrawn"}
Reading == {"consent", "prepared", "grant"}

\* Where a call is, or where it is back after it has read the consent.
Heads(r) == IF r.pc \in Reading THEN r.to ELSE r.pc

\* What one call knows: the preparation it has read is the one on disk, a generation it
\* is about to store was answered, a consent it takes for granted is on disk, and one
\* that began after the close gets no further than to read it.
CallInv(r) ==
  /\ r.prep # None => r.prep = prepared
  /\ r.pc = "reread" => prepared # None
  /\ r.pc \in {"post", "challenge", "get", "active"} => r.prep # None
  /\ r.op = "prepare" /\ Heads(r) = "final" => r.prep # None
  /\ r.pc = "active" => server[r.prep] \in Answered
  /\ r.consent = "granted" => r.id # None /\ r.id = prepared /\ grant = prepared
  /\ Heads(r) = "closed" => closeFile # "absent" /\ r.pc \in {"consent", "closed"}
  /\ r.pc \in {"closed", "delete"} => r.id # None
  /\ r.pc = "serve" => r.consent = "granted"
  /\ Heads(r) # "none" /\ (r.pc # "idle" => r.op \in Ops)

\* A call that began after the local close does nothing but read it.
LateInv(r) ==
  r.late => /\ closeFile # "absent"
            /\ r.pc \in {"consent", "checked", "closing", "closed", "delete", "final"}
            /\ r.pc \in {"checked", "final"} => r.consent = "closed"

Calls == \A p \in Procs : CallInv(proc[p]) /\ LateInv(proc[p])
NothingLate == \A g \in given : ~g.late

IInv == AgentTypeOK /\ OneGeneration /\ Calls /\ NothingLate

\* What no step takes back.
Onward ==
  /\ closeFile # "absent" => closeFile' # "absent"
  /\ prepared # None => prepared' = prepared
  /\ grant # None => grant' = grant
  /\ \A i \in Ids : server[i] \in Answered => server'[i] \in Answered


\* One process takes a step of its call.
CallStep(p) ==
  \/ \E op \in Ops : BeginCall(p, op)
  \/ ReadClose(p) \/ ReadPrepared(p) \/ ReadGrant(p) \/ Checked(p) \/ Close(p) \/ Closed(p)
  \/ Onboard(p) \/ Claim(p) \/ Reread(p) \/ Post(p) \/ Challenge(p) \/ Get(p) \/ Grant(p)
  \/ Final(p) \/ Serve(p) \/ Delete(p) \/ Fails(p)

\* A call holds values of its types, and keeps them when one of its parts is replaced.
LEMMA CallTypes ==
  ASSUME AgentTypeOK, NEW p \in Procs
  PROVE  /\ proc[p] \in Proc /\ Idle \in Proc
         /\ \A op \in Ops : CallAt(op, "consent", "checked", closeFile # "absent") \in Proc
         /\ proc[p].prep \in Ids \cup {None} /\ proc[p].id \in Ids \cup {None}
         /\ proc[p].late \in BOOLEAN /\ proc[p].consent \in {"open", "granted", "closed"}
BY DEF AgentTypeOK, Proc, Idle, CallAt

\* The operation begins, reads the consent again, or ends.
LEMMA ChecksAs ==
  ASSUME IInv, NEW p \in Procs, Checked(p)
  PROVE  \/ proc[p].op = "withhold" /\ proc' = [proc EXCEPT ![p].pc = "consent", ![p].to = "closing"]
         \/ /\ proc[p].op = "withdraw"
            /\ proc' = [proc EXCEPT ![p].existing = device, ![p].pc = "consent", ![p].to = "closing"]
         \/ /\ proc[p].op \in {"prepare", "sync"} /\ proc[p].consent # "closed"
            /\ proc' = [proc EXCEPT ![p].pc = "onboard", ![p].existing = device]
         \/ /\ proc[p].op = "sign" /\ proc[p].consent = "granted"
            /\ proc' = [proc EXCEPT ![p].pc = "serve", ![p].existing = device]
         \/ proc' = [proc EXCEPT ![p] = Idle]
BY DEF IInv, Calls, CallInv, At, Checked, Reads, Ends, Ops

\* A step of one call leaves the others alone.
LEMMA OthersStay ==
  ASSUME IInv, NEW p \in Procs, CallStep(p), NEW q \in Procs, q # p
  PROVE  proc'[q] = proc[q]
<1> USE DEF IInv, AgentTypeOK
<1>1. CASE \E op \in Ops : BeginCall(p, op)
  BY <1>1 DEF BeginCall
<1>2. CASE Checked(p)
  BY <1>2, ChecksAs
<1>3. CASE \/ ReadClose(p) \/ ReadPrepared(p) \/ ReadGrant(p) \/ Close(p) \/ Closed(p) \/ Onboard(p)
           \/ Claim(p) \/ Reread(p) \/ Post(p)
  BY <1>3 DEF ReadClose, ReadPrepared, ReadGrant, Close, Closed, Onboard, Claim, Reread, Post,
              Goes, Reads, Ends
<1>4. CASE \/ Challenge(p) \/ Get(p) \/ Grant(p) \/ Final(p) \/ Serve(p) \/ Delete(p) \/ Fails(p)
  BY <1>4 DEF Challenge, Get, Grant, Final, Serve, Delete, Fails, Goes, Reads, Ends
<1> QED BY <1>1, <1>2, <1>3, <1>4, CallStep(p) DEF CallStep

\* A step of one call has a call of that type as its outcome.
LEMMA CallTyped ==
  ASSUME IInv, NEW p \in Procs, CallStep(p)
  PROVE  proc' \in [Procs -> Proc]
<1> USE DEF IInv, AgentTypeOK, At
<1>1. proc[p] \in Proc /\ Idle \in Proc /\ CallInv(proc[p])
  BY CallTypes DEF Calls
<1>2. CASE \E op \in Ops : BeginCall(p, op)
  BY <1>2, CallTypes DEF BeginCall
<1>3. CASE ReadClose(p)
  BY <1>1, <1>3 DEF ReadClose, Goes, Proc, CallInv, Heads, Reading
<1>4. CASE ReadPrepared(p) \/ ReadGrant(p)
  BY <1>1, <1>4 DEF ReadPrepared, ReadGrant, Ends, Proc, CallInv, Heads, Reading
<1>5. CASE Checked(p)
  <2>0. device \in BOOLEAN /\ proc[p] \in Proc
    BY <1>1
  <2>1. ASSUME NEW r \in Proc, NEW e \in BOOLEAN
        PROVE  /\ [r EXCEPT !.pc = "consent", !.to = "closing"] \in Proc
               /\ [r EXCEPT !.existing = e, !.pc = "consent", !.to = "closing"] \in Proc
               /\ [r EXCEPT !.pc = "onboard", !.existing = e] \in Proc
               /\ [r EXCEPT !.pc = "serve", !.existing = e] \in Proc
    BY DEF Proc
  <2>2. CASE proc' = [proc EXCEPT ![p].pc = "consent", ![p].to = "closing"]
    BY <2>0, <2>1, <2>2
  <2>3. CASE proc' = [proc EXCEPT ![p].existing = device, ![p].pc = "consent", ![p].to = "closing"]
    BY <2>0, <2>1, <2>3
  <2>4. CASE proc' = [proc EXCEPT ![p].pc = "onboard", ![p].existing = device]
    BY <2>0, <2>1, <2>4
  <2>5. CASE proc' = [proc EXCEPT ![p].pc = "serve", ![p].existing = device]
    BY <2>0, <2>1, <2>5
  <2>6. CASE proc' = [proc EXCEPT ![p] = Idle]
    BY <1>1, <2>6
  <2> QED BY <1>5, <2>2, <2>3, <2>4, <2>5, <2>6, ChecksAs
<1>6. CASE Close(p) \/ Closed(p)
  BY <1>1, <1>6 DEF Close, Closed, Reads, Goes, Ends, Proc
<1>7. CASE Onboard(p) \/ Claim(p) \/ Reread(p)
  BY <1>1, <1>7 DEF Onboard, Claim, Reread, Goes, Ends, Proc
<1>8. CASE Post(p) \/ Challenge(p) \/ Get(p) \/ Grant(p)
  BY <1>1, <1>8 DEF Post, Challenge, Get, Grant, Reads, Goes, Proc
<1>9. CASE Final(p) \/ Serve(p) \/ Delete(p) \/ Fails(p)
  BY <1>1, <1>9 DEF Final, Serve, Delete, Fails, Ends
<1> QED BY <1>2, <1>3, <1>4, <1>5, <1>6, <1>7, <1>8, <1>9, CallStep(p) DEF CallStep

\* The files: none is taken back, what is stored and returned is of the one generation,
\* and nothing is returned to a call that began after the close.
LEMMA FilesStep ==
  ASSUME IInv, NEW p \in Procs, CallStep(p)
  PROVE  Onward /\ OneGeneration' /\ NothingLate' /\ given' \subseteq Given
<1> USE DEF IInv, AgentTypeOK, At, Onward, OneGeneration, NothingLate, Answered
<1>1. CallInv(proc[p]) /\ LateInv(proc[p])
  BY DEF Calls
<1>2. CASE UNCHANGED <<closeFile, prepared, grant, server, given>>
  BY <1>2
<1>3. CASE Close(p)
  <2>1. closeFile' \in Ids
    BY <1>3, CallTypes DEF Close
  <2> QED BY <1>3, <2>1, NoneAssumption DEF Close
<1>4. CASE Claim(p)
  BY <1>4, NoneAssumption DEF Claim, New, Given
<1>5. CASE Post(p) \/ Delete(p) \/ Fails(p)
  <2>1. UNCHANGED <<files, given>>
    BY <1>5 DEF Post, Delete, Fails
  <2>2. \/ UNCHANGED server
        \/ /\ proc[p].prep # None
           /\ server' = [server EXCEPT ![proc[p].prep] = IF @ = "none" THEN "pending" ELSE @]
        \/ \E i \in Ids : server' = [server EXCEPT ![i] = "withdrawn"]
    BY <1>1, <1>5, CallTypes DEF Post, Delete, Fails, CallInv
  <2>3. proc[p].prep # None => proc[p].prep = prepared /\ prepared \in Ids
    BY <1>1 DEF CallInv
  <2> QED BY <2>1, <2>2, <2>3 DEF files
<1>6. CASE Grant(p)
  BY <1>1, <1>6, NoneAssumption DEF Grant, CallInv
<1>7. CASE Final(p)
  <2>1. UNCHANGED <<files, server>>
    BY <1>7 DEF Final
  <2>2. ASSUME NEW g \in given', g \notin given
        PROVE  /\ g.id = prepared /\ (g.what # "link" => grant = prepared) /\ ~g.late
               /\ g \in Given
    <3>0. proc[p].pc = "final" /\ proc[p].consent # "closed"
      BY <1>7, <2>2 DEF Final
    <3>1. proc[p].pc = "final" /\ proc[p].consent # "closed" /\ ~proc[p].late
      BY <1>1, <3>0, Zenon DEF LateInv
    <3>2. CASE proc[p].op = "prepare"
      <4>1. g = [what |-> "link", id |-> proc[p].prep, late |-> proc[p].late]
        BY <1>7, <2>2, <3>1, <3>2 DEF Final
      <4>2. proc[p].prep = prepared /\ prepared \in Ids
        BY <1>1, <3>1, <3>2 DEF CallInv, Heads, Reading
      <4> QED BY <3>1, <4>1, <4>2, CallTypes DEF Given
    <3>3. CASE proc[p].op # "prepare"
      <4>1. /\ proc[p].consent = "granted"
            /\ g = [what |-> "grant", id |-> proc[p].id, late |-> proc[p].late]
        BY <1>7, <2>2, <3>1, <3>3 DEF Final, Gives
      <4>2. proc[p].id = prepared /\ grant = prepared /\ prepared \in Ids
        BY <1>1, <3>1, <4>1 DEF CallInv
      <4> QED BY <3>1, <4>1, <4>2, CallTypes DEF Given
    <3> QED BY <3>2, <3>3
  <2> QED BY <2>1, <2>2 DEF files
<1>8. CASE Serve(p)
  <2>1. proc[p].id = prepared /\ grant = prepared /\ prepared \in Ids
    BY <1>1, <1>8 DEF Serve, CallInv
  <2>2. ~proc[p].late
    BY <1>1, <1>8 DEF Serve, LateInv
  <2>3. given' = given \cup {[what |-> "signature", id |-> proc[p].id, late |-> proc[p].late]}
    BY <1>8 DEF Serve, Gives
  <2>4. [what |-> "signature", id |-> proc[p].id, late |-> proc[p].late] \in Given
    BY <2>1, CallTypes DEF Given
  <2> QED BY <1>8, <2>1, <2>2, <2>3, <2>4 DEF Serve, files
<1> QED
  BY <1>2, <1>3, <1>4, <1>5, <1>6, <1>7, <1>8, CallStep(p)
  DEF CallStep, BeginCall, ReadClose, ReadPrepared, ReadGrant, Checked, Closed, Onboard, Reread, Challenge,
      Get, files

\* What a call knows stays true of it when the files go forward under another one's step.
LEMMA StillKnows ==
  ASSUME IInv, Onward, NEW q \in Procs, proc'[q] = proc[q]
  PROVE  (CallInv(proc[q]) /\ LateInv(proc[q]))'
<1>1. CallInv(proc[q]) /\ LateInv(proc[q])
  BY DEF IInv, Calls
<1>2. proc[q].prep \in Ids \cup {None} /\ proc[q].id \in Ids \cup {None}
  BY CallTypes DEF IInv
<1>3. CallInv(proc[q])'
  BY <1>1, <1>2 DEF CallInv, Heads, Onward
<1>4. LateInv(proc[q])'
  BY <1>1 DEF LateInv, Onward
<1> QED BY <1>3, <1>4

\* What the call that takes the step knows is true after it.
LEMMA LearnsTruth ==
  ASSUME IInv, NEW p \in Procs, CallStep(p)
  PROVE  CallInv(proc[p])'
<1> USE DEF IInv, AgentTypeOK, At, CallInv, Heads, Reading
<1>1. CallInv(proc[p]) /\ Idle.pc = "idle" /\ Idle.prep = None /\ Idle.consent = "open"
  BY DEF Calls, Idle, CallAt
<1>2. proc[p] \in Proc /\ proc[p].prep \in Ids \cup {None} /\ proc[p].id \in Ids \cup {None}
  BY CallTypes
<1>3. CASE proc' = [proc EXCEPT ![p] = Idle]
  BY <1>1, <1>3
<1>4. CASE \E op \in Ops : BeginCall(p, op)
  BY <1>4 DEF BeginCall, CallAt
<1>5. CASE ReadClose(p)
  BY <1>1, <1>2, <1>5, NoneAssumption DEF ReadClose, Goes, Proc, files
<1>6. CASE ReadPrepared(p)
  BY <1>1, <1>2, <1>6 DEF ReadPrepared, Proc, files
<1>7. CASE ReadGrant(p)
  BY <1>1, <1>2, <1>3, <1>7 DEF ReadGrant, Ends, Proc, files, OneGeneration
<1>8. CASE Checked(p)
  <2>1. proc[p].pc = "checked" /\ UNCHANGED <<files, server>>
    BY <1>8 DEF Checked
  <2>2. CASE proc' = [proc EXCEPT ![p].pc = "consent", ![p].to = "closing"]
    BY <1>1, <1>2, <2>1, <2>2 DEF Proc, files
  <2>3. CASE proc' = [proc EXCEPT ![p].existing = device, ![p].pc = "consent", ![p].to = "closing"]
    BY <1>1, <1>2, <2>1, <2>3 DEF Proc, files
  <2>4. CASE proc' = [proc EXCEPT ![p].pc = "onboard", ![p].existing = device]
    BY <1>1, <1>2, <2>1, <2>4 DEF Proc, files
  <2>5. CASE proc[p].consent = "granted" /\ proc' = [proc EXCEPT ![p].pc = "serve", ![p].existing = device]
    BY <1>1, <1>2, <2>1, <2>5 DEF Proc, files
  <2> QED BY <1>3, <1>8, <2>2, <2>3, <2>4, <2>5, ChecksAs
<1>9. CASE Close(p)
  BY <1>1, <1>2, <1>9, NoneAssumption DEF Close, Reads, Proc
<1>10. CASE Closed(p)
  BY <1>1, <1>2, <1>3, <1>10 DEF Closed, Reads, Goes, Ends, Proc, files
<1>11. CASE Onboard(p)
  BY <1>1, <1>2, <1>3, <1>11 DEF Onboard, Ends, Proc, files
<1>12. CASE Claim(p)
  BY <1>1, <1>2, <1>12, NoneAssumption DEF Claim, Goes, Proc, files
<1>13. CASE Reread(p)
  BY <1>1, <1>2, <1>13 DEF Reread, Proc, files
<1>14. CASE Post(p)
  BY <1>1, <1>2, <1>14 DEF Post, Reads, Goes, Proc, files
<1>15. CASE Challenge(p)
  BY <1>1, <1>2, <1>15 DEF Challenge, Reads, Proc, files
<1>16. CASE Get(p)
  BY <1>1, <1>2, <1>16 DEF Get, Reads, Goes, Proc, files, Answered
<1>17. CASE Grant(p)
  BY <1>1, <1>2, <1>17 DEF Grant, Reads, Proc
<1>18. CASE Final(p) \/ Serve(p) \/ Delete(p) \/ Fails(p)
  BY <1>3, <1>18 DEF Final, Serve, Delete, Fails, Ends
<1> QED
  BY <1>4, <1>5, <1>6, <1>7, <1>8, <1>9, <1>10, <1>11, <1>12, <1>13, <1>14, <1>15, <1>16, <1>17,
     <1>18, CallStep(p) DEF CallStep

\* A call that began after the close is not let past its reading of the close.
LEMMA LateIsStopped ==
  ASSUME IInv, NEW p \in Procs, CallStep(p)
  PROVE  LateInv(proc[p])'
<1> USE DEF IInv, AgentTypeOK, At, LateInv, Onward
<1>1. LateInv(proc[p]) /\ ~Idle.late /\ Onward
  BY FilesStep DEF Calls, Idle, CallAt
<1>2. proc[p] \in Proc
  BY CallTypes
<1>3. CASE proc' = [proc EXCEPT ![p] = Idle]
  BY <1>1, <1>3
<1>4. CASE \E op \in Ops : BeginCall(p, op)
  <2>1. /\ proc'[p].pc = "consent" /\ proc'[p].late = (closeFile # "absent")
        /\ UNCHANGED closeFile
    BY <1>4 DEF BeginCall, CallAt, files
  <2> QED BY <2>1, Zenon
<1>5. CASE ReadClose(p)
  BY <1>1, <1>2, <1>5 DEF ReadClose, Goes, Proc, files
<1>6. CASE Checked(p)
  <2>1. proc[p].pc = "checked" /\ (proc[p].late => proc[p].consent = "closed")
    BY <1>1, <1>6 DEF Checked
  <2>2. CASE proc' = [proc EXCEPT ![p].pc = "consent", ![p].to = "closing"]
    BY <1>1, <1>2, <2>2 DEF Proc
  <2>3. CASE proc' = [proc EXCEPT ![p].existing = device, ![p].pc = "consent", ![p].to = "closing"]
    BY <1>1, <1>2, <2>3 DEF Proc
  <2>4. CASE /\ proc[p].consent # "closed"
             /\ \/ proc' = [proc EXCEPT ![p].pc = "onboard", ![p].existing = device]
                \/ proc' = [proc EXCEPT ![p].pc = "serve", ![p].existing = device]
    <3>1. proc'[p].late = proc[p].late
      BY <1>2, <2>4 DEF Proc
    <3> QED BY <2>1, <2>4, <3>1
  <2> QED BY <1>3, <1>6, <2>2, <2>3, <2>4, ChecksAs
<1>7. CASE Close(p) \/ Closed(p)
  BY <1>1, <1>2, <1>3, <1>7 DEF Close, Closed, Reads, Goes, Ends, Proc
<1>8. CASE Final(p) \/ Serve(p) \/ Delete(p) \/ Fails(p)
  BY <1>3, <1>8 DEF Final, Serve, Delete, Fails, Ends
<1>9. CASE ReadPrepared(p) \/ ReadGrant(p) \/ Onboard(p) \/ Claim(p) \/ Reread(p)
  BY <1>1, <1>2, <1>3, <1>9
  DEF ReadPrepared, ReadGrant, Onboard, Claim, Reread, Goes, Ends, Proc
<1>10. CASE Post(p) \/ Challenge(p) \/ Get(p) \/ Grant(p)
  BY <1>1, <1>2, <1>10 DEF Post, Challenge, Get, Grant, Reads, Goes, Proc
<1> QED
  BY <1>4, <1>5, <1>6, <1>7, <1>8, <1>9, <1>10, CallStep(p) DEF CallStep

\* The website's answer touches no call.
LEMMA WebsiteStep ==
  ASSUME IInv, NEW i \in Ids, Website(i)
  PROVE  IInv'
<1>1. AgentTypeOK' /\ Onward /\ UNCHANGED proc
  BY DEF IInv, AgentTypeOK, Website, Onward, Answered, files
<1>2. OneGeneration' /\ NothingLate'
  BY DEF IInv, AgentTypeOK, Website, OneGeneration, NothingLate, files
<1>3. Calls'
  BY <1>1, StillKnows DEF Calls
<1> QED BY <1>1, <1>2, <1>3 DEF IInv

LEMMA ProcessStep ==
  ASSUME IInv, NEW p \in Procs, CallStep(p)
  PROVE  IInv'
<1>1. Calls'
  BY FilesStep, OthersStay, StillKnows, LearnsTruth, LateIsStopped DEF Calls
<1>2. closeFile' \in Ids \cup {"absent"} /\ prepared' \in Ids \cup {None}
  <2>1. CASE UNCHANGED <<closeFile, prepared>>
    BY <2>1 DEF IInv, AgentTypeOK
  <2>2. CASE Close(p) \/ Claim(p)
    BY <2>2, CallTypes DEF IInv, AgentTypeOK, Close, Claim
  <2> QED
    BY <2>1, <2>2, CallStep(p)
    DEF CallStep, BeginCall, ReadClose, ReadPrepared, ReadGrant, Checked, Closed, Onboard, Reread, Post,
        Challenge, Get, Grant, Final, Serve, Delete, Fails, files
<1>3. grant' \in Ids \cup {None} /\ device' \in BOOLEAN
  <2>1. CASE UNCHANGED <<grant, device>>
    BY <2>1 DEF IInv, AgentTypeOK
  <2>2. CASE Grant(p) \/ Onboard(p) \/ Serve(p)
    BY <2>2, CallTypes DEF IInv, AgentTypeOK, Grant, Onboard, Serve, files
  <2> QED
    BY <2>1, <2>2, CallStep(p)
    DEF CallStep, BeginCall, ReadClose, ReadPrepared, ReadGrant, Checked, Close, Closed, Claim, Reread, Post,
        Challenge, Get, Final, Delete, Fails, files
<1>4. server' \in [Ids -> {"none", "pending", "active", "withdrawn"}]
  <2>1. CASE UNCHANGED server
    BY <2>1 DEF IInv, AgentTypeOK
  <2>2. CASE Post(p) \/ Delete(p) \/ Fails(p)
    BY <2>2 DEF IInv, AgentTypeOK, Post, Delete, Fails
  <2> QED
    BY <2>1, <2>2, CallStep(p)
    DEF CallStep, BeginCall, ReadClose, ReadPrepared, ReadGrant, Checked, Close, Closed, Onboard, Claim,
        Reread, Challenge, Get, Grant, Final, Serve, files
<1> QED BY <1>1, <1>2, <1>3, <1>4, CallTyped, FilesStep DEF IInv, AgentTypeOK

LEMMA IInvInit == AgentInit => IInv
BY NoneAssumption
DEF AgentInit, IInv, AgentTypeOK, Idle, CallAt, Proc, Given, OneGeneration, Calls, CallInv, LateInv, Heads,
    Reading, NothingLate

LEMMA IInvStep == IInv /\ [AgentNext]_agentVars => IInv'
<1> SUFFICES ASSUME IInv, [AgentNext]_agentVars PROVE IInv'
  OBVIOUS
<1>1. CASE UNCHANGED agentVars
  BY <1>1
  DEF agentVars, IInv, AgentTypeOK, OneGeneration, Calls, CallInv, LateInv, Heads, NothingLate
<1>2. CASE \E i \in Ids : Website(i)
  BY <1>2, WebsiteStep
<1>3. CASE \E p \in Procs : CallStep(p)
  BY <1>3, ProcessStep
<1> QED BY <1>1, <1>2, <1>3 DEF AgentNext, CallStep

\* The files, the calls and what they return keep their types.
THEOREM AgentTypeCorrect == AgentSpec => []AgentTypeOK
<1>1. IInv => AgentTypeOK
  BY DEF IInv
<1> QED BY <1>1, IInvInit, IInvStep, PTL DEF AgentSpec

\* However many processes prepare, close, withdraw and die, there is one consent
\* generation: the link that claims onboarding.json (agent.ts:104-108) decides it, the
\* grant that is stored (agent.ts:121-125) and every link, grant and signature that is
\* returned are of it, and the server holds no other one open.
THEOREM GenerationIsOne == AgentSpec => []OneGeneration
<1>1. IInv => OneGeneration
  BY DEF IInv
<1> QED BY <1>1, IInvInit, IInvStep, PTL DEF AgentSpec

\* The local close is for good: consent.json stays once it is there, and no call that
\* begins after it returns a link, a grant or a signature, whatever the website answers.
THEOREM CloseIsForGood == AgentSpec => ClosedForGood
<1>1. IInv /\ [AgentNext]_agentVars
        => [closeFile # "absent" => closeFile' # "absent" /\ \A g \in given' : ~g.late]_agentVars
  <2> SUFFICES ASSUME IInv, AgentNext
               PROVE  closeFile # "absent" => closeFile' # "absent" /\ \A g \in given' : ~g.late
    OBVIOUS
  <2>1. IInv'
    BY IInvStep
  <2>2. Onward
    <3>1. CASE \E i \in Ids : Website(i)
      BY <3>1 DEF IInv, AgentTypeOK, Website, Onward, Answered, files
    <3>2. CASE \E p \in Procs : CallStep(p)
      BY <3>2, FilesStep
    <3> QED BY <3>1, <3>2 DEF AgentNext, CallStep
  <2> QED BY <2>1, <2>2 DEF IInv, NothingLate, Onward
<1> QED BY <1>1, IInvInit, IInvStep, PTL DEF AgentSpec, ClosedForGood
=============================================================================
