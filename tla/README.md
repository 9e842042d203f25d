# hanamesh-core in TLA+

This directory specifies the concurrent behaviour of `hanamesh-core`, the plugin
that gives a DSH or HanaMesh desktop client its device identity, registers it
with the identity server, keeps the person's consent and the addresses, reads back
contributions and points, checks the other components of the suite and serves
their packages. The code is `src/*.ts` and `src/dsh.mjs`; paths below are relative
to `src/` unless they begin with `docs/`.

    tlc -workers 2 -config Session.cfg MCSessionController    # a run of section 4
    tlapm SharedHomeProofs.tla                                # the proofs of section 6

1. [Inventory](#1-inventory) - 2. [How the modules are written](#2-how-the-modules-are-written) -
3. [Modules and code](#3-modules-and-code) - 4. [Runs](#4-runs) - 5. [Fairness](#5-fairness) -
6. [Proofs](#6-proofs) - 7. [What the code and its docs disagree on](#7-disagreements) -
8. [Not modelled](#8-not-modelled) - 9. [Plan](#9-plan)

## 1. Inventory

The plugin is one JavaScript process per client. Its code runs one task at a
time, but every `await` lets other requests, timers and answers in. Two clients
of one OS user (DSH and HanaMesh desktop) meet only in the file
`identity/device.json`; the agent's command line is a process per call and meets
the others in `identity/` and `agent/`.

| component | state it keeps | operations | who it talks to | what makes it hard | what makes it correct |
|---|---|---|---|---|---|
| shared device identity (`shared-device.ts`, `device.ts`, `controller.ts` 176-228) | the identity file; in each client's snapshot `device`, `replacedDevices`, the registration; `#identity` | read, claim (temp file, `link(2)`), resolve at start and at `refresh`, adopt, replace | the other client through the file; publication chain; registration | two first starts at once, overlapping refreshes, a crash between any two file calls, a damaged file and its repair, a registration in flight while the key is replaced | one key per machine; nobody loses a key; a registration belongs to the key that made it |
| publication chain (`controller.ts` 236-245) | `#state`, `#publishTail`, the storage domain | `#publish(update)` | every operation that changes the snapshot | writes of several calls queue; the store can fail; `dispose` cuts the queue | no lost update; nothing written after close |
| settings (`controller.ts` 286-337, 418-426) | consent, `#serverOverride`, `#websiteOverride`, the generation counters, `#transport` | `setConsent`, `setServerOrigin`, `setWebsiteOrigin` | chain, registration, timer, listeners | everything in flight belongs to the past | answers of the past are dropped; what is in effect is what was saved |
| registration (`registration.ts`, `transport.ts`, `controller.ts` 339-391) | `registration` in the snapshot, `#registrationFailure`, `#contributionsTimer` | `register`, `startRegistration`, `startContributions` | identity server, chain | two requests and a retry, each followed by a check; overlapping calls; withdrawal | nothing sent after a withdrawal; recorded for the right server; not forgotten |
| bind link (`bind-link.ts`, `controller.ts` 409-449) | none | `bindLink` | identity server | addresses saved meanwhile | the link and its nonce belong together |
| prompt markers (`controller.ts` 683-709) | two time stamps in the snapshot | `markPointsPromptShown`, `markConsentPromptShown` | chain | several windows | stamped once |
| recovery and contributions (`controller.ts` 451-569) | `#registrationRecovery`, `#contributions`, `#bound`, `#account` | `refreshContributions`, `#recoverRegistration` | usage and identity servers, registration | retries, single flight, several waits | answers of the past are dropped; one recovery at a time, one per interval |
| points (`controller.ts` 577-642) | `#points`, `#hanaNames` | `refreshPoints`, `#hanaName` | custody and registry servers | parallel workers over a shared cache | rows, names and cache are of one server |
| activity (`controller.ts` 644-681) | none | `activity` | usage server | - | a stateless read |
| activation gate, plugin lifecycle (`activation.ts`, `dsh.mjs`) | the gate's phase, the parts that are open | `apply`, `cleanup`, `fetch` | every other part | failure half way; disposal while requests wait | everything owned is released or reported; nobody waits for ever |
| health checks (`health/*.ts`) | the snapshot, the chain | `recheck`, `close` | loader, storage | overlapping rechecks, components that change under a check, a diagnosis that never comes | never better than what the check saw; comes to be what is the case |
| managed suite source (`suite/source-lifecycle.ts`) | the selection, the listening source, the owned set | `initialize`, `configure`, `close` | package server, storage | open, store and release each can fail; close meanwhile | what is shown is served and stored; no listener is left behind |
| package server (`suite/source-package.ts`) | the verified archives, its sockets, the requests it has passed on | open, answer, pass on, `close` | file system, loopback port, installers, the peer registry | clients that keep their connection, a peer registry that never answers, a close in the middle | a close comes to its end and leaves no socket and no request |
| client peer leases (`suite/client-peers.ts`, `client/index.ts` 70-118, `routes.ts` 86-104) | the active leases and a revision | `open`, `close`, the page's observer | pages, through a response that stays open | abort races; carriers that do not forward an abort | no lease outlives its page |
| suite declaration (`suite/service.ts`, `registry.ts`, `facts.ts`, `local.ts`) | the locals of one `read` | `read` | package files, registry, leases | packages are replaced, releases published and pages gone while it reads one after the other | complete only what was whole at one time; offered only what can be installed |
| agent onboarding (`agent.ts`, `agent-cli.ts`) | three files in `<shared>/agent` | one process per call | usage and identity servers, other agent processes | processes race over files and die | one generation; a local close is for good |
| settings page (`client/index.ts` 336-460) | React state, `stateRead`, `consentWrite`, `configurationWrites` | polls, refreshes, saves, posts | routes | answers in any order, failures between commit and answer | never back behind a save; comes to show the host's state |
| first consent prompt (`client/index.ts` 11-56, 674-746) | `consentPromptTail`, the Web Lock, the marker's request | mount, display, close, enable | routes, other mounts and windows | mounts of StrictMode, several windows, unmounts and deaths in between | asked once; nobody holds up the queue |
| binding prompt, points, activity and usage views (`client/index.ts`) | React state | reads | routes | - | they follow the host |
| routes, validation, errors, bind link text, contract fixtures, system browser | none | | | | |

`PROJECT.json` lists, under "hazards", where in the code each of these
difficulties bites, and the property that would notice.

## 2. How the modules are written

- **One action is the code between two awaits.** JavaScript runs it without
  interruption. Where the code awaits, the model has two actions and anything may
  happen in between. What a call holds across its awaits (captured generations,
  transports, arguments) is its record, usually `call[c]`; a set of names
  (`Calls`, `Resolvers`, `Procs`) bounds how many overlap.
- **A generation counter is kept as its comparison.** The code captures a counter
  and later asks whether it has moved. The model keeps that answer ("same") in
  every call and resets it in all of them when the counter is bumped. Nothing else
  of the counter is observable, and the state space stays finite.
- **Microtasks.** Continuations of one settled promise run in the order they were
  attached. The models let them run in any order, and let other tasks in between;
  what holds for them holds for the code.
- **The store** may refuse a write. Whether it had written it then is open: where
  that can be told after a restart (`SessionController`, `SuiteSource`) both are
  possible. In `SharedIdentity` a refused publication leaves nothing behind: a client reads
  the identity file again at its next start, so that both outcomes lead to the same. A process that dies in a
  write has the same two outcomes.
- **Requests** may fail, or be answered at any later time. A server's answer is a
  member of a small set.
- **`Exclusive`** (in `SessionController`, `Recovery` and `Points`) is an
  assumption about the *callers*: no settings call is overtaken by the start of
  another one, or of a registration or a reading, before it has been stored. (In
  `Recovery` settings calls are one at a time in any case and in `Points` only servers are
  saved, so that there it is about what starts while a server is saved.) Within
  one settings page `consentWrite` and `configurationWrites` (`client/index.ts`
  385-451) largely keep to it; other windows, the contributions timer and `refresh`
  do not. `Exclusive = FALSE` is what the code does by itself. Section 7 says what
  goes wrong then, and the run `old_server_recorded` shows it; the runs and the
  theorems that assume it say so.
- **History variables** (`asked`, `heard`, `link`, `since`, `given`) record what a
  property speaks of and no action reads.

A definition whose comment begins with "Mutant:" is not part of the specification:
it is what its neighbour would be with a plausible bug. `PROJECT.json` names the
pairs. Exchanging one for the other makes the named property fail, which shows
that the property can tell.

## 3. Modules and code

`PROJECT.json`, "map", gives the lines of every definition. In short:

**`WriteOnceIdentity`** is the promise: a register that is written once, and
clients that come to know its value. **`SharedIdentity`** is the code. `file` is
`identity/device.json`, `snap[c]` a client's storage domain, `job[r]` the locals of
one `#resolveSharedIdentity`: `ReadExisting`, `OpenTemp`, `WriteTemp`, `Link`,
`ReadBack`, `PublishDevice` are its awaits, `StoreFails` and `PublishFails` its
errors. `Adopt` is the update that it publishes, evaluated when its turn comes.
`Boot` and `Refresh` start a resolution, `RegisterStart/Commit/Fails` are the part
of `register()` that compares the device before and after. Outside: `Crash`,
`Damage` and `Repair` of the file, and `Remove`, a person who moves the file away.
A key stands for the id and both halves of the key pair.

**`DurableSettings`** is the promise of the settings: a register (`shown`, what
`getState()` gives; `kept`, what is on the disk) that takes one operation at a time. An
operation is stored and then shown (`Commit`), or stored while its caller gets an error
(`Doubt`), which the next start (`Restart`) or the next operation settles. A change of the
server in effect takes the registration away in the same write, and a registration is
recorded only under consent and for the server in effect. **`SessionController`** is the
code, and implements it with `shown <- mem` and `kept <- stored` (`SettingsAreDurable`): the
register knows no chain, no generation and no request. It has the controller's fields under their names: `stored` is
the storage domain, `mem` is `#state`, `queue`, `writing` and `next` are the
`#publishTail` chain (`Enqueue`, then `Turn` evaluates the update on the state of
that moment, then `FinishHead` or `FailHead`; `RejectHead` after `dispose`). Each
public method is an action that starts it and one per await: `SetConsent`,
`SetServer`, `SetWebsite`, `Register` / `SendDevice` / `RetryWithoutLabel` /
`Registered`, `BindLink` / `BindAnswered`, `MarkPoints`, `MarkConsent`, and
`Continue` for what comes after a write. `Background` is `startRegistration()` as
`setConsent` and `setServerOrigin` call it. `Boot`, `Dispose`, `Close`, `Crash`
are the life of the plugin.

**`Recovery`** is `refreshContributions` and `#recoverRegistration` with the steps
of `register`, `setConsent` and `setServerOrigin` that reset what they keep. Each
request of a refresh (`usage`, `verify`, `register`, `confirm`) is signed (`Sign`,
which waits for the server with `authNonceSource: "server"`), served (`Serve`) and
answered (`Arrive`), each an await apart; `JoinedContinues` is a refresh that found
another's recovery in flight. The server may lose the device (`Forget`, a restored
database) or revoke it. Simplified: the two requests of a registration are one (the
order of withdrawal and second request is `SessionController`'s), one settings call
runs at a time, and the plugin is not disposed. `Scenarios` bounds what one
behaviour exercises.

**`Points`** is `refreshPoints` with its workers and `#hanaName` with its cache.
Amounts are abstract; what is kept of an answer is which server gave it and which
server named each row. `authNonceSource` is "client", its default, so signing does
not wait.

**`SuiteSource`** is `ManagedSource`: the `#tail` chain of `configure` calls, each
of which opens a candidate, stores the selection, takes the place of the old source
and releases that one; `close()`, which stops the listeners one after another; and
the listeners with their ports. `stored` is the *set* of selections that the store
may hold after a crash. A listener whose close was rejected stays `stuck`: the code
keeps the rejected promise, so a second attempt gives the same answer.
**`PackageServer`**, which it extends, is what happens on those listeners: a client
connects, asks for a package that the peer registry must answer for, the answer, the
timer or the client's going ends the request, and `Shut` is the `close` of a listener,
which aborts the requests and destroys the sockets. A listener has come to its end
(`Released`, `CloseReleases`) when no socket is left, as `server.close` has it.

**`ClientPeers`** joins three pieces of code: the page (`startClientPeerLease`:
`Load`, `Generation`, `Hide`, `Show`, `Leave`, `SeesEnd`, `TransportFails`), the
host (`ClientPeerLeases` and the route: `Arrives`, `SignalAborts`,
`BodyCancelled`, `Close`) and the reader's two snapshots (`ReadStarts`, `Reported`).
An abort reaches the host either through the request's signal (`Signals`) or, on
carriers that do not forward it, as the cancellation of the response's body.

**`SuiteDeclaration`** extends it to the whole of `SuiteDeclarationService.read`. It
observes the component, Core and the bundle on disk (`Observed`), then reads the three
catalogs (`Listed`, `ListFails`), each an await of its own. Meanwhile an installation
replaces the packages one by one (`Install`, `Replace`) and a release appears in the
registry package by package (`Publish`). `Complete` and `Offers` are what the
declaration would say now, `Declare` returns it. A package's records never change once
published, so a bundle is data: the members it names (`Contents`), what its manifest
accepts (`Fits`) and the Reacts that its records and its members' accept (`Takes`; a
record that does not validate accepts none). `component` stands for the two components;
Node and the other peers are part of `Takes`. Behaviours come in two kinds, so that the
state space stays small: in one the pages move and the packages are read at once, in the
other the packages move and a connected page may only leave. Taken for granted: a
registry does not withdraw a version, an installation only goes forward (one that was
rolled back in the middle of a reading could show each read the right version of a suite
that was never whole; the same happens on the way forward when a later release with the
same Core takes a component back to the version before: TLC finds it when the third
release of the run is given the Core of the first, and `Upgrades` never offers such a
release), and a managed source that is replaced by another one on the same
port between two catalogs counts as one registry. The code compares the *leases* again at
its end and the packages never: a declaration speaks of a moment in its reading, not of
its end, and `CompleteWasReal` says just that.

**`CoreHost`** is the host as its windows see it, a state with a version number and the
two facts the consent prompt depends on; a route commits and takes its answer in one
step. **`SettingsPage`** is the state of `HanaMeshSection`: `latest` stands for
`stateRead` (the reading whose number is current, or none), `consentWrite` and `writes`
for the two guards. Each request goes out, is answered by the host (`HostAnswers`) or
fails before or after its commit (`CallFails`), and arrives, each in any order.
`Save` has the guards of the buttons. A poll is answered before the next is due, and the
settings are not closed and opened again. **`ConsentPrompt`** is `FirstConsentPrompt`
with `CoreModal`: a mount waits for those before it in `consentPromptTail` (`Turn`),
then for the Web Lock where there is one (`Lock`), reads the state, is rendered,
displayed, stamps the marker, and is closed or enabled; its effect may be cleaned up, or
its window die, at any point. **`ClientWindows`** puts both over one host.

**`Health`** is `HealthService` over `LoaderObservationSource` and `evaluate`.
`chain` is `#chain`; the head's check lists the entries (`List`), reads each
package (`Inspect`), then its phase (`Look`), waits for the cause of a failure or
its timeout (`Diagnosed`), and stores and shows what it found (`Published`,
`PublishFails`). Components change (`Change`) between any two of these.
**`Plugin`** extends it by `apply()`, `cleanup()` and the gate: `held` are the
parts that are open, in the order of `Opening` and `Ending`; `todo` are the
operations that `cleanup` has still to do. The first check belongs to the
activation, later ones are asked for by timer, event and person.
`HealthTypeOK`/`HealthInit` are the part of the component.

**`AgentOnboarding`** is `agentCall`: a process per call, an action per file access
or request. `closeFile`, `prepared` and `grant` are `consent.json`,
`onboarding.json` and `onboarding-grant.json`. `readConsent()` is the subroutine
`ReadClose`, `ReadPrepared`, `ReadGrant`, and `to` is where it returns to. `Fails`
is a request or a file that fails as well as a process that dies.

## 4. Runs

Every run ends within the time given on two cores; all explore their state space
completely.

| run | module, cfg | what it checks | bounds | states |
|---|---|---|---|---|
| `shared_home` | `MCSharedHome`, `SharedHome.cfg` | of the identity `TypeOK`, `OneDevice`, refinement `WriteOnce`, `NoKeyLost`; of the agent `AgentTypeOK`, `OneGeneration`, `ClosedForGood` | 2 clients, 3 resolutions (two overlap in one client), 4 keys, 1 removal of the file; 2 processes of the agent at a time, any number after one another | 1.6 M, 112 s |
| `session` | `MCSessionController`, `Session.cfg` | `TypeOK`, `ServerInEffect`, `StaysQuiet`, `NeverForgetsToRegister`, `SentWithConsent`, `LinkMatches`, refinement `SettingsAreDurable` | 2 calls, 2 servers, 2 websites (one of each local), `Exclusive`, everything but markers and a store that refuses a setting | 1.8 M, 50 s |
| `session_writes` | `MCSessionController`, `SessionWrites.cfg` | `WritesAreKept`, `EveryCallReturns` | 3 calls of settings and markers with no exclusion, store failures, dispose, crash | 145 k, 104 s |
| `old_server_recorded` | `MCSessionController`, `SessionOldServer.cfg` | `IssuerInEffect` is **violated** | 2 calls, no exclusion | - |
| `marked_twice` | `MCSessionController`, `SessionMarkedTwice.cfg` | `PointsMarkedOnce` is **violated** | 2 calls of markers, crash | - |
| `recovery` | `MCRecovery`, `Recovery.cfg` | `TypeOK`, `OneRecoveryIsSeen`, `ReadFromServerInEffect`, `SentWithConsent` | 2 calls, 2 servers, 2 principals, three scenarios, `Exclusive` | 3.2 M, 79 s |
| `recovery_comes_back` | `MCRecovery`, `RecoveryLive.cfg` | `ComesBack` | 2 refreshes, 1 server that knows the device or has lost it | 2.8 k, 17 s |
| `points` | `MCPoints`, `Points.cfg` | `TypeOK`, `OneServer` | 2 readings of 2 rows with 2 workers each, 2 servers, `Exclusive` | 246 k, 13 s |
| `suite_source` | `MCSuiteSource`, `SuiteSource.cfg` | `TypeOK`, `ShownIsTrue`, `ListenersAreOwned`, `EveryCallReturns` | 2 calls, 2 options (one on a fixed port), 3 listeners, 1 client with a connection, 1 close that fails, restarts | 349 k, 100 s |
| `suite_declaration` | `MCSuiteDeclaration`, `SuiteDeclaration.cfg` | `TypeOK`, `LeaseFollowsPage`, `DeclarationIsTrue`, `BothSidesLearn` | 2 pages (one on each kind of carrier), 2 versions of React, 2 requests under way, 2 connection generations, 3 releases | 554 k, 120 s |
| `plugin` | `MCPlugin`, `Plugin.cfg` | `TypeOK`, `PluginIsWhole`, `HealthIsHonest`, `EverythingSettles` (`Converges` and `EveryoneIsAnswered`) | a component that blocks and changes, one that is only noticed, 2 overlapping checks, 1 request, 1 change, 2 failures, restarts | 236 k, 105 s |
| `client_windows` | `MCClientWindows`, `ClientWindows.cfg` | `TypeOK`, `AskedOnce`, `ShownGoesForward`, `PageConverges`, `PromptsMoveOn` | 1 settings page with 3 requests under way, 3 mounts of the prompt in 2 windows, with and without Web Locks, 3 acts (1 where page and prompt are together) | 340 k, 82 s |

`shared_home` is two explorations in one: a behaviour is of the clients and the identity
file or of the agent's processes, never of both (`who` in `MCSharedHome`). What the ones
write the others do not read, except that a call of the agent makes a device when there
is none.

Why these bounds are enough to see the interesting cases:

- Races are between two: every hazard of the inventory needs two overlapping calls,
  clients, processes or pages, or one and a settings call. Three calls
  (`session_writes`) put a writer behind a writer behind a failing writer. Three
  resolutions give one client two overlapping refreshes beside another client.
- Two servers distinguish "the old one" from "the one in effect"; going back to the
  first is possible and tried. A third could only be another old one.
- Keys: two clients' own ones, one that a refresh makes after a failure, and one
  for the person's removal. Consent ids are as many; two are in use at a time (a
  generation, or a tombstone, and one that a losing claim made), and no third is made
  meanwhile.
- Three releases: the second brings another component, the third another Core whose
  component is older and accepts one React only, so that "the bundle goes forward" and
  "no member goes back" differ, and a release can suit one page and not another.
- `MaxActs` bounds what a person, another window or a failure does in `ClientWindows`:
  three acts are a save, a second one that overlaps it and a failure, or an unmount, the
  death of a window and a press of a button. Beside a prompt the page needs one.
- Counters are gone (section 2). What is bounded in guards: `MaxRemovals`,
  `MaxStuck`, `MaxGen` (a connection lost and come back), `MaxChanges`,
  `MaxFaults` (a step of `apply` that fails and then one of the cleanup), the names
  in `Listeners`, `Invs` and `Ids`: a page makes no new request while all names
  are taken, which only delays it.
- Symmetry is declared only where no liveness property is checked in the run.
- `CHECK_DEADLOCK` is on in all runs but `client_windows`, where everything may really
  come to rest: the acts are used up, the prompts are done and no settings are open.

What the properties say is in the comment of each. The ones a reader should start
with: `OneDevice` (one key, in the file, in every client and every record),
`ServerInEffect` and `SentWithConsent` (nothing of the past is recorded, nothing is
sent after a withdrawal), `WritesAreKept` (the chain loses no update, and the consent prompt's marker is stamped
once; the points prompt's is not, see section 7),
`OneRecoveryIsSeen` (an interrupted recovery leaves no void registration that nobody
reports), `ShownIsTrue` and `ListenersAreOwned`, `DeclarationIsTrue`, `PluginIsWhole`,
`OneGeneration` and `ClosedForGood`, `ShownGoesForward` and `AskedOnce`. Several of them
are the conjunction of named parts; the parts have comments of their own.

## 5. Fairness

`Spec` is `Init /\ [][Next]_vars`. `FairSpec` adds what the event loop, the
timeouts and the operating system give:

- `SessionController`: a caller whose promise is settled goes on (weak); the store
  answers (strong, as other calls' steps come in between); a request ends, at the
  latest by the timeout of `ServerTransport` (strong fairness of the *failures*
  only: no server is assumed to answer); `dispose` finishes.
- `Recovery`: signing, serving and arriving happen at last, the intervals of
  attempts and readings pass, and refreshes are asked for (the timer). The run has
  no network failures, so this is: a server that answers is reached. `ComesBack`
  is about that case; that a refresh *returns* with failures too is
  `SessionController`'s argument.
- `SuiteSource`: files and the store answer, with a result or an error, and the timer of
  a request to the peer registry fires. No client is assumed to close its connection and
  no peer registry to answer.
- `SuiteDeclaration`: a request arrives or is lost, an abort and the end of a response
  get through. No page is assumed to come, show itself or go.
- `Plugin`: each await of `apply`, `cleanup` and a check ends either way, the
  continuation of a settled promise runs, the interval timer ticks. No component is
  assumed to recover and none to tell why it failed: `Diagnosed` is always possible
  because of the timeout in `health/loader.ts` 34-36.

- `ClientWindows`: the interval of the page ticks, the host answers and answers arrive,
  the tasks of the prompts' queue run. No prompt is assumed to be displayed or closed and
  no window to live: `PromptsMoveOn` says that a mount waits only behind a prompt that a
  person can see.

No failure is assumed to stop and no person to act, with two exceptions: `Converges`
speaks of the time after the last change and the last failure, and so does
`PageConverges`, as `MaxActs` runs out (a page whose every reading fails shows an error).

## 6. Proofs

TLC checks the instances above; the theorems hold for every value of the
constants. `PROJECT.json`, "theorems", lists them. Each module of proofs has its
inductive invariant, or two of them, one on top of the other; the comment of each
conjunct says what it is about, the following why it is needed.

**`SharedHomeProofs`** is about both uses of the shared home. The identity in it
(`SharedIdentity`), for any number of clients, resolutions and keys:

- `TypeCorrect`: types are invariant. It needs only that `ClientOf` is a function.
- `FileIsWhole`: nothing half-written is ever visible. By itself it is not
  inductive: the step `Link` must know that the temp file is whole and the candidate
  a key. `JobInv` says what each resolution carries at each of its steps, and
  `JobInv /\ NeverTorn` is inductive.
- `KeysAreKept`: an action property; `AdoptKeepsKeys` is the case of the update
  that replaces the device, the other updates leave both fields alone.
- `OneMachineIdentity`, `OneFounder`, `MachineHasOneDevice`: until somebody moves the
  file away (`removals = 0`; moving it away is what makes a second identity,
  and is what `docs/API.md` tells a person to do with a damaged file).
  The inductive invariant `OneIdentity` ties each resolution (`JobOne`: what it read
  or linked is what the file holds) and each client (`ClientOne`: its device is the
  file's, or has not been compared with the file yet; it replaced at most one; its
  registration is its device's). `Founding` adds who may claim to have created the
  identity: a resolution that will say so offered the very key that is in the file,
  and no two offer the same.
- `Implements`: until then each step is a step of
  `WriteOnceIdentity` or a stutter, with `shared <- file` and `known` the device of
  the clients that report "shared".

The onboarding over it (`AgentOnboarding`), for any number of processes and ids:
`AgentTypeCorrect`, `GenerationIsOne` (`OneGeneration`), `CloseIsForGood` (`ClosedForGood`).
What a process has read before may not be what it finds when it writes, so no invariant of
the files alone is inductive. `CallInv` says what one process knows at each step; that the
others do not disturb it is a lemma of its own (`Onward`: files and the server's answers
only go forward), used once instead of for every pair of steps. `LateInv`: a process that
began after the local close gets no further than to read it.

**`SessionControllerProofs`**, for any number of overlapping calls, servers and websites:

- `TypeCorrect`. `TypeOK` is not inductive: the argument
  of a call must have the type that its operation asks for (`ArgOK`), else a consent
  could be stored where an address belongs, and the head of the chain must exist while
  a write is under way. `Typed` adds both.
- `NothingIsLost` (`WritesAreKept`) and `WithdrawnIsQuiet` (`StaysQuiet`), unconditional.
  `KeptInv`: a call is in the chain once and its head's update is with the store
  (`QueueInv`), that update differs from the published snapshot in the fields its writer
  owns and no others (`NextInv`), of the consent prompt's marker there is at most one
  writer at a time (`MarkInv`; of the points prompt's there may be two), and a consent that
  was written is the one in force until its caller has gone on (`ConsentInv`), which is
  when it starts or stops a registration.
- Under `Exclusive` (no settings call is overtaken by the start of another one or of a
  registration before it is stored): `OneServer`, `ConsentGoverns`, `LinksMatch`. Without it they are false:
  `old_server_recorded` is the counterexample of the first. `SettledInv`: there is one
  setting at a time, what a registration captured is still in effect as long as it may be
  recorded (`WantedInv`), the transport is that of the address in effect (`OriginInv`), the
  stored, published and written snapshots name the server that registered them
  (`IssuerInv`), and a bind link still holds the website and server it was asked for
  (`LinkInv`).
- Under `Exclusive` also `Implements` (`SettingsAreDurable`), with the step simulation in
  `RegisterSees`. What is hard in it is that a call decides what it will write, and by which
  comparison of addresses and generations, before the calls in front of it in the chain have
  been stored. `FitsTo` says what a decision must agree with, `QueuedFits` that it still does
  when the call's turn comes (from `SettledInv`), `UpdateChanges` that the update is then one
  operation of the register, and `ApplyInv`, added to the inductive invariant, that the
  operation with the store is one on what is published. It holds through failures of the store,
  `dispose()` and crashes, and without an assumption on what the store refuses.
- `NothingForgotten` (`NeverForgetsToRegister`), when furthermore the store refuses no
  setting (`"refusal" \notin Ops`; section 7 says what a refused setting leaves behind).
  `DutyInv` names who is to register or to see to it at any moment, `RecordInv` that a
  registration which still counts ends as an outcome or a kept error.

**`RecoveryProofs`**, for any number of calls, servers and principals:

- `TypeCorrect`, `ReadFromServer`, `NeverVoid` (a part of `OneRecoveryIsSeen`) and
  `ConsentToSend`, with no assumption on how calls overlap. A setting overtakes calls at
  any of their steps; `BehindInv` says that an overtaken call which waits for the store
  is followed in the chain by the setting that overtook it, and `DutyInv` that a client
  without a registration therefore has somebody who registers it again, or says why
  not. `Live` (requests over a transport that is not disposed go to the server in
  effect) is what `ReadFromServer` rests on.
- `OneRecovery` (all of `OneRecoveryIsSeen`) under `Exclusive`. `SingleInv`: no request
  survives the saving of a server, a recovery that has what it captured is the one in
  flight (`FlightInv`), and what is shown as "checking" is being checked (`CheckingInv`).

**`PointsProofs`**: `TypeCorrect`, and `PointsOfOneServer`: under `Exclusive`, `OneServer`
for any number of readings, rows and workers. The inductive invariant `ServerInv`
adds that a call whose generation is still current began when no server was being
saved, and has read from and asks only the server in effect (`CallInv`).

**`SuiteSourceProofs`**, for any number of calls, options, listeners and clients:
`TypeCorrect`, `NothingOutlivesItsUse` (`ListenersAreOwned`) and `ShownAsStored`
(`ShownIsTrue`, an action property). Neither could hold without the calls taking turns:
only the head of the chain works (`TailInv`), so at most one listener is held by a call
(`HoldsInv`). `UpInv` accounts for each listener that is up: it is shown, held, one whose
close failed, or one that `close()` has still to release. `LifeInv` is the same of a
process that ends, and `ShownInv` and `ConnInv` are what the last two say of the registry
that is shown and of the clients that are connected.

**`PluginProofs`**, for any components, policies, checks and requests: `TypeCorrect`,
`WholeOrReported` (`PluginIsWhole`) and `HonestHealth` (`HealthIsHonest`). Two arguments
that meet in the chain of checks. The parts: in each step of `apply` and `cleanup` certain
parts are open (`HeldInv`), a part still open while cleaning is one whose operation is to
come or has failed (`CleanInv`), and a check needs the health store, so that closing it
in the right place leaves none behind. The checks: `since` of each holds all that is good
now (`ChainInv`), and what the head has found of a strict component was good after it was
asked for (`SeenInv`), which is what "normal" must not say too soon.

**`SuiteDeclarationProofs`**, for any pages, requests, bundles and versions:

- `TypeCorrect`, `LeasesFollow` (`LeaseFollowsPage`), `ReportsWhatIsHeld`. `LeaseFollowsPage`
  is not inductive: a page that observes must know that the request it aborts is the only one
  it wants, and one that comes back that it let go of it before (`PageInv`), and a request
  under way is one of a page (`OwnInv`). `ReaderInv`: a reader whose revision is unchanged
  still sees what it saw. That one React is reported is a fact about cardinalities
  (`KnownReact`), which is why the requests are finitely many.
- `OffersAreSound`: for any releases whatever, what is offered is wholly published, goes
  forward from what was observed and suits every page, and nothing is missed that stood still.
  `DiskInv`: the disk holds a bundle or a mixture of two, the later of which is the target.
  `FactsInv`: what was observed is of the latest bundle or an earlier one, and what was read
  in a catalog stays there.
- `DeclarationHolds` (`DeclarationIsTrue`): a suite called complete was whole on disk at one
  moment of the reading. Each package is read once and any of them may be replaced before,
  between and after, so the moment depends on the order of the reads. If the
  bundle, read last, is not the target any more or not yet, the members read before it are
  not both its own unless it was whole when the reading began (`PassingInv`); if it is the
  target, the members observed are already on disk, and it is whole (`ComingInv`). The
  hypothesis `NoWayBack` (no release for this Core takes a member back to a version given up
  before) is needed, as section 3 shows; it is a hypothesis of this theorem only, and the
  releases of the run satisfy it (`ReleasesGoForward`).

**`ClientWindowsProofs`**, for any number of windows, mounts and overlapping requests:
`TypeCorrect`, `NobodyIsAskedTwice` (`AskedOnce`), `NeverGoesBack` (`ShownGoesForward`).
The page: what may be shown next is no older than what is shown (`OrderInv`). That this
is kept needs the counters to count the saves under way (`CountInv`, with finite
cardinalities), so that the reading that counts overlaps no save (`LatestInv`) and a save
that is still alone is the only one (`AloneInv`). The prompts: of two mounts in a window
one waits for the other (`LineInv`), with Web Locks one mount in all holds the lock
(`LockInv`), and who has sent a marker keeps it until the marker has arrived
(`MarkerInv`); so the state that a mount reads under the lock still holds when it is
rendered (`StampInv`). A window that dies between displaying a prompt and its marker is
excepted in `AskedOnce` itself.

The proofs rest on the named assumptions of the modules (constants are disjoint from
`None`, functions have their domains) and on nothing else; TLC evaluates those
assumptions in the runs. `Exclusive`, `"refusal" \notin Ops` and `NoWayBack` are hypotheses
of the theorems that name them, never assumptions of a module.

Model-checked only are

- liveness, which needs fairness and `ENABLED`: `EveryCallReturns`, `ComesBack`,
  `EverythingSettles`, `BothSidesLearn`, `PageConverges`, `PromptsMoveOn`;
- what `old_server_recorded` and `marked_twice` violate.

Every safety property of every passing run is a theorem.

## 7. Disagreements

Found while the code was translated. The first and the third are runs; the others are
described here and, where a hazard in `PROJECT.json` stands for them, noted there.

1. **An old server's answer is recorded** (`old_server_recorded`).
   `setServerOrigin` bumps the generation (`controller.ts` 312), then awaits the
   store, then replaces the transport (323). A registration that starts in between
   captures the new generation and the old transport (345), passes `same()` and is
   recorded for the new server. `docs/API.md` 12 and `controller.ts` 91 say that
   results of requests to the previous server are never recorded. The same window
   lets `refreshPoints` (593, before 617) show points of the old server: this is why
   `Points` needs `Exclusive`.
2. **Two addresses at once.** `setServerOrigin` decides whether the address changes
   against the override of that moment (311), not of its turn in the chain: of two
   overlapping calls the second may skip what the first's write makes necessary, and
   the transport then goes elsewhere than `getServerOrigin()` says.
3. **Two stamps** (`marked_twice`). `markPointsPromptShown` tests the marker before its write (685)
   and stamps inside it (688): overlapping calls stamp twice, though 683 and
   `docs/API.md` 20 promise that a marker is not overwritten. `markConsentPromptShown`
   shares one promise and does not (`MarkedOnce`, a part of `WritesAreKept`).
4. **A lost error.** A successful registration clears `#registrationFailure` (356);
   the failure of an overlapping one that is published later leaves status "failed"
   without it (`docs/API.md` 86: the error stays in both).
5. **Two recoveries.** A change of consent or server lets go of a recovery that is
   still between its steps (325), and another may begin before the old one has
   noticed. "Single flight" (453) holds of the recoveries that can still act, which
   is what `SingleFlight`, a part of `OneRecoveryIsSeen`, states.
6. **A withdrawal that misses its generation.** `close()` in `agent.ts` 84-88 takes
   a tombstone id when it reads no preparation. A prepare that passed its check before
   may then claim another id and announce it to the server. No link, grant or
   signature of it gets out (`ClosedForGood`), but a later `withdraw` sends its DELETE
   for the tombstone (137), and the server keeps the generation pending
   (`docs/AGENT.md` 11: "signs only fixed DELETE for that generation").
7. **A nudge that does not come again.** `PointsBindPrompt` clears its interval
   (`client/index.ts` 645) before it reads the settings (646). When that read fails there
   is no next tick, though the comment at 650 says "a failed read simply waits for the
   next tick": the prompt stays away until the next mount. Before that, a poll that is
   slower than its interval, or a second window, can show it twice (the host's marker is
   stamped after the display).
8. **When the marker is stamped.** `docs/API.md` 62 says that a client posts
   `points/prompt-shown` before it shows the prompt. The code posts it when the prompt is
   displayed (658), as `docs/API.md` 141 says.

Further behaviour that the models show and the code accepts: `same()` in `register`
(`controller.ts` 346) compares generations and not devices, so once a person has moved the
identity file away (`removals = 1`) a registration in flight while a refresh replaces the
device is recorded for the new key; overlapping refreshes may apply the older answer last;
`controller.ts` 504 sets `#registrationFailure` without asking whether the call is still current; a setting whose write fails has already
stopped a registration in flight, or left a recovery "checking", and nobody starts
another until the next setting or restart; the listener of
`loader/config-update` (`dsh.mjs` 136) is removed only after the health service was
closed, so an event in between makes a `recheck` that rejects with nobody to catch it. A refresh that
fails after an overlapping one has succeeded leaves its failure as the identity's status
until the next refresh (`controller.ts` 211); a manual `register()` that succeeds does not
start the contributions timer (357). On the settings page the answer of a save that
another save overlapped is shown as it comes, and may be the older state until the next
poll; `loadPoints` has no guard and repairs itself in the same way; "retry registration"
is not held back while a server is being saved, which is the window of 1; a change of
server while the activity is loading leaves the old server's activity on the page (374)
until it is asked for again. A page that is left open in one window learns of a change in
another with its next poll.

## 8. Not modelled

- Pure functions without state: validation, error formatting, the text of a bind link,
  the answer checks of `activity`, registry and package metadata, the configuration.
- In `routes.ts`: the checks of origin, size and form, and the routes that only hand on a
  call that is modelled elsewhere.
- The content of the package archives: a listener that opens has verified them, one that
  cannot fails to open. What it has it answers at once.
- In `suite/service.ts`: the install command, the codes in `blocked`, the difference
  between `incomplete` and `unknown`, and the parsing of ranges and repositories.
- In `client/index.ts`: the points, activity and local usage that the page also loads, the
  binding prompt, the page of the suite source, the layout. They keep nothing that the
  modelled parts read.
- In `AgentOnboarding`: origins that differ from the prepared ones and answers of the
  wrong form, which only make a call fail.
- In `SessionController`: a configured server that changes between two activations
  (the snapshot does not say which server registered it).
- The contract suite: test doubles.

## 9. Plan

Done: the identity file; settings, registration, links and markers; recovery; points;
suite source and package server; leases and the declaration; activation, cleanup and
health; agent onboarding; the settings page and the consent prompt; and the proofs of
the safety of all of them, with the identity and the settings shown to implement
`WriteOnceIdentity` and `DurableSettings`.

Next, in this order:

1. The configured server as a variable that changes while the plugin is off, once the
   snapshot says which server registered it.
2. The binding prompt, with the timer that it stops too early (section 7, 7).
