# Rebekah: a verification project

TLA+ models of the parts of Rebekah that run over time and talk to something
that may fail, with TLC configurations that check them on small instances and
TLAPS proofs of what matters most. All paths below are relative to the
repository (`nix/gateway.py`, `deploy/podman/rebekah-ab`, ...).

Rebekah is one container image and what is needed to run it: a supervisor
(`nix/entrypoint.sh`) starts Ollama, OpenCode, Sylvae, WeftMark, optionally
Ephor with an MCP gate, Litestream for the audit ledger, and the gateway
(`nix/gateway.py`), the one listener a host publishes. The gateway serves a
console, proxies the services, and, if told to, pushes its views to a remote
Dash and carries out the decisions a reviewer makes there. On the host,
`deploy/podman/rebekah-ab` moves a unit from one image to the next.

1. [The system](#1-the-system)
2. [The modules](#2-the-modules)
3. [The runs](#3-the-runs)
4. [Fairness](#4-fairness)
5. [What is proved](#5-what-is-proved)
6. [Where the code and what is said of it differ](#6-where-the-code-and-what-is-said-of-it-differ)
7. [What is not modelled](#7-what-is-not-modelled)
8. [Plan](#8-plan)
9. [Running it](#9-running-it)

## 1. The system

`PROJECT.json` lists every component with its sources, and under `hazards`
what is hard to test in it, at the line where it bites.

| component | state it keeps | operations | what is hard | what makes it correct | module |
|---|---|---|---|---|---|
| Decisions from Dash (`gateway.py` 1268-1533, 2136-2212) | `applied`, `unreported` in memory; the Nostoi ledger; holds at the bridge and the gates, change sets at WeftMark | take commands, look a hold up, append intent, call, append outcome, report | lost replies, retries, restarts, the clock, a reviewer deciding the same hold elsewhere | every effect has its intent in the ledger; nothing applied twice; no untrue result; every decision answered | `Decisions`, `AuditTrail` |
| Dash push scheduler (`gateway.py` 2214-2360) | last digest, last push, last call, poll interval, refresh, failures | round: build, push or poll or nothing; wait | times read before and used after slow calls; lost replies; backoff | a heartbeat, changes and clicks reach Dash in time; it catches up after failures | `DashPush` |
| A/B deployment (`deploy/podman/rebekah-ab`) | the pin, last-good, previous-good, pending record, lock | activate, rollback, recover, EXIT trap | killed or powered off between any two steps, failed restarts, two operators | baselines are verified images; an unverified pin is always recorded; exit codes are true | `ABDeploy` |
| Supervisor (`nix/entrypoint.sh`) | `pids`, traps | serve, run_as, health, stop_services, on_stop_signal | a signal between any two commands, services that end or never end | one exit ends all, nothing cut off, the status says why, a stop fits in the runtime's patience | `Supervisor` |
| MCP bridge (`nix/mcp-bridge.py`) | slots, sessions, pumps, children | accept, two copies per session, reap | half-closed streams, full buffers, children that crash or linger | children bounded, both streams whole, slots come back | `McpBridge` |
| Sessions and sign-in (`gateway.py` 359-524, 1835-1864) | users, session hashes and expiry in SQLite; `initial-admin-password` | login, logout, principal, seed the first user | threads that read, judge and delete a row in separate steps; restarts; a seed that fails half-way; a clock set back | a session that ended serves nobody, none ends without a cause, the seeded password can be found | `Sessions` |
| OIDC (`gateway.py`, `OidcVerifier`) | keys | verify a token | claims, keys that cannot be fetched | only the accepted ones pass | `Sessions`, in part |
| Configuration (`gateway.py`, `Config`) | none | parse the environment | ranges | defaults and clamps | planned |
| HTTP handler and proxy (`gateway.py`, `make_handler`) | none | route, authorise, relay | streams, bodies | who reaches which backend | planned |
| Read-only views (`gateway.py` 614-681, 1205-1234, 2149-2175) | none between rounds | `DashPusher.views`: list the holds of the bridge and of each gate, read the agenda and Frog, fit the push under the cap | sources read one after the other while they change, each cut at a limit, any of them down | nothing pending is missing from a view that calls itself complete; nothing decided is shown; a large optional view displaces nothing else | `DashViews`, in part |
| Daily agenda (`gateway.py` 722-954) | none; reads three files of a generator | read, check, project an edition | files replaced one by one while they are read, a generator that stops, clocks that disagree | never half an edition; the true reason why there is none; an edition in place is shown in the end | `Agenda`, `EditionSource`, `DashViews` |
| Ephor connector, govern, evidence commands (`nix/*.sh`) | evidence and result files, Ephor's entries, the ledger | capture, run, finalize, review | failure between two of them, shared files | an outcome per entry | planned |
| OCI tools (`tools/oci_*.py`) | an OCI layout on disk | publish and verify a handoff, acquire an image, inspect | several writers and no lock, files written in place, a kill between any two writes | the index leads to what is there; acquiring is all or nothing; what is indexed is lost to nobody but those that write the index together, or are killed at it | `OciLayout` (of inspect, what it refuses) |
| Launcher and unit (`rebekah-run`, `rebekah.service`) | none | build a command line; restart policy | a stop is not a failure | composition of two modules | planned |
| Console, packaging, CI, demo, tests | | | | | not modelled |

How they interact: the supervisor starts everything and is the only one to
stop it; the bridge is one of its children, and a session of it a child of the
bridge; every view the gateway serves goes through its authenticator, which
asks the local token, the store and the issuer in that order; the pusher thread
of the gateway runs `step` round after round, and a round that Dash answers with commands runs `take_commands` before the push is
remembered; what a round pushes is what `views` read from Ephor's surfaces, the
agenda's directory and Frog, one after the other; the deployment script restarts the unit, whose stop is the
supervisor's, and reads the gateway's health endpoint.

## 2. The modules

Each module opens with what it leaves out. Definitions keep the names of the
code; `PROJECT.json` maps each to its lines. A definition whose comment begins
with "Fault:" is no part of a specification: it is a plausible bug in the
definition after it, and `mutants` says which property notices it.

**`Decisions`** is one pusher thread and what it talks to. `pc` is the point
inside `take_commands`: `take`, `lookup`, `intent`, `send`, `outcome`,
`report`. Every network or ledger call is a step of its own, so anything
happens between two of them. `Form` says how far a command gets: an id that is a
JSON list or object raises in `cid in self.applied` and ends the round
(`TakeUnhashable`), one that is not well formed is skipped (`TakeUnaddressable`),
the rest are refused or carried out. `batch` is the rest of a response, `applied`,
`order`, `unreported` are the pusher's dictionaries, `queue` and `told` are
Dash's side, `intents` and `outcomes` the ledger, `status`, `deadline`,
`effects` the surfaces'. A call without an answer leaves an orphan, a request
that the surface may still carry out at any later time. `decider` and `raced` are
history: who decided a hold, Ephor's reviewers included, and which holds were
decided since the lookup of the current command. Failures
(`PollRepeats`, `LookupFails`, `IntentFails`, `SendUnanswered`,
`OutcomeFails`, `ReportFails`, `RoundAborted`, `Crash`) share one budget.

**`AuditTrail`** is the promise of `docs/audit-first.md`: per command, an
intent is recorded before each act, an outcome never says more than happened,
and Dash hears "ok" only of what happened and was recorded. `Decisions`
implements it with its own variables (`KeepsTrail`).

**`DashPush`** is the time side of the same thread. Times are ages and a
countdown; a round takes up to `RoundTime`, the ages it computes with are
those at its start, as in the code. `EphorStates` holds both settings of
`cfg.ephor_state`, one of which a behaviour starts with, since the watch
interval changes every wait; `Snapshots` both settings of the runtime snapshot,
whose age makes every build differ (`Changed`). `quiet` and `clickAge` measure
how long Dash has been behind.

**`DashViews`** is what such a round builds: `DashPusher.views`, source by
source (`step`), while holds are requested and decided (`status`) and surfaces
fail. The order in which a surface lists its actions is its own, so a list cut
at `Limit` is any subset of that size. `always` and `ever` remember which holds
were pending throughout the round, or at some time in it. The system, work and
change-request views count by their size only. It extends **`Agenda`**, the
reader of the three agenda files (`manifest`, `snapshot`, `editorial`) and the
generator that replaces them, in any order, one at a time. Contents stand for
their digests; `Projection` keeps the order of the checks (schema, contract,
then data and clocks), which decides what is said of an edition that fails
several. `offered` and `disturbed` are history: the editions on offer during
this read, and whether anything changed since it began. **`EditionSource`** is
the promise, one edition at a time and read at once; `Agenda` implements it with
`offer <- disk["manifest"]` and an answer that counts as an edition only if all
its parts are of that edition (`WholeEditions`).

**`ABDeploy`** has the files, the running image, the lock and, for each run of
the script, its program counter, `recovery_pin` (`armed`) and what it wants to
install. Two things send a run into the EXIT trap (`Trapped`), which keeps the
status it was entered with: `Interrupt`, INT or TERM (130, 143), and
`CommandFails`, a command that fails where `set -e` is in force (1).
`TrapFails` is a command of the trap itself. `RecoverNothing` is `recover` without
a record, which is a success. `Kill` takes a run away and
keeps its lock file's meaning (an flock dies with its holder), `PowerLoss` all
of them. `Respawn` is the unit's `Restart=`. Writes are renames, so one step
each; promotion is therefore four steps.

**`Supervisor`** is `serve()` command by command: `doctor`, `seed`, then for
each service `launch` (the fork) and `note` (`pids+=`), the health loop, `wait
-n`, and `stop_services`. A signal with a trap is pending until the next
command boundary and then runs the trap; without one it ends the script. Time
passes where the script waits. `Order`, `Probes` and `Fallible` say which
services there are, which ones `health()` asks and before which ones a command
may fail.

**`McpBridge`** has, for each connection, the number of chunks that passed each
of eight points (sent, taken, fed, read; wrote, pulled, pushed, got): channels
keep the order, so the counts say which chunks. The two threads of a session
(`inbound`, `outbound`), its child and its client are processes of their own;
`slots` is the semaphore. What a step waits for (a blocking read or write, the end
of a stream) is the operator `May...` before it, so that the proofs can say when a
step is possible.

**`Sessions`** is the gateway's boot (`gate`: `open`, `count`, `create`,
`write`, `upsert`, `up`) and the threads that serve requests (`pc`: `start`,
then `compare`, `mint`, `answer` for a login, `answer` for a logout, `expiry`,
`delete`, `oidc`, `served` for a view). A step is what happens under the
store's lock, or between two uses of it; `row` is what a thread keeps of its
last look at the store, the only thing it knows while others go on. `account`,
`sessions` and `file` survive a `Crash`; `active` is `passwords is not None`.
`revoke` and `principal_for_token` get whatever bearer credential came, of
which only session tokens have a row. `due`, `revoked`, `ended`, `barred` and
`latest` are history: what was minted, which logouts reached the store, which
tokens had their end announced, and which requests arrived after that. The
operator reads the file and removes it as the repository's README says, in one
step, once the gateway is up. Hashing is equality.

**`OciLayout`** is one destination directory, the stage directory of each
acquirer, and processes that publish into or acquire that destination. A blob is
`whole`, `torn` or not there; `index.json` is a list of manifests or unreadable.
A write in place is two steps, empty and fill, with everybody else between them;
a stage is filled step by step and renamed. `Kill` takes a process away at any
point. `Verifies` and `Inspects` are what `verify` and `inspect` accept of what
is left; `inspect` counts the manifests (`MaxDescriptors`), wants none twice, and
checks the subject of each (`SubjectFits`): `SubjectOf` an image may be a manifest
indexed here, the subject may be no descriptor (`Malformed`) or say another size or
type than the index (`Misdescribed`), none of which `acquire` looks at. `met` remembers the publishers that had read the index and not yet
written it back at the same time: there is no lock, and the properties say what
holds for the others.

The `MC*` modules hold the instances; the proof modules are described in
[section 5](#5-what-is-proved).

## 3. The runs

| run | instance | shows |
|---|---|---|
| `decisions_gate` | approve, deny, defer and a command that is refused before any call, on one hold at a gate (no Idempotency-Key); clock to 2, deadline 1; responses and memory of two; one failure | `EffectsAccounted`, `AppliedOnceUnlessForgotten`, `ReportsAgree`, `NoOverturn`, and `KeepsTrail` |
| `decisions_mixed` | a defer on the bridge (with an Idempotency-Key), a review, a command without an id, one whose id is a list; responses of two, a memory of one; one failure | `OkIsRecorded`, `RefusalsAreTrue`, `EveryDecisionReported` |
| `push` | with and without Ephor, with and without a runtime snapshot; poll 2, heartbeat 5, watch 1, round 1, backoff up to 8; two failures | `HeartbeatKept`, `ChangesArrive`, `RefreshServed`, `CatchesUp` |
| `deploy` | two runs, three images of which one never verifies, three failures: kills, signals, commands that fail, power losses, failed restarts | `BaselinesVerified`, `UnverifiedIsRecorded`, `ExitTellsTruth`, `EventuallySettled` |
| `supervisor` | three services, two attempts, two stop requests, two failures | `NothingCutOff`, `StatusTellsWhy`, `HealthyIsTrue`, `KilledOnlyIfUnknown`, `ExitOfOneEndsAll` |
| `bridge` | two connections, one slot, three requests, buffers of one chunk, one failure | `ChildrenBounded`, `WholeAnswer`, `WholeRequest`, `AnswersArrive`, `SlotComesBack` |
| `sessions` | two requests, two sessions of lifetime 1, an issuer's credential good until 1, clock to 2, two failures, crashes or settings of the clock; requests interchangeable | `StaysOut`, `RefusedForCause`, `NeverLockedOut` |
| `views` | three holds, one at the bridge and two at a gate, limit 2, or an agenda of three editions: an old one, its evidence rendered again by a host whose clock is ahead, one of an unknown contract; clock to 2; one generator that stops or file that is damaged; Frog down or ready; a cap that all views pass, and that some of them fit | `AnswerFits`, `PendingIsShown`, `ShownWasPending`, `OptionalYields`, `PushedFits`, `WholeEditions`, `EditionArrives` |
| `oci` | two publishers, each with one of two valid records or an invalid one; two acquirers of images that share the handoffs' config blob, one with a subject that it misdescribes, one with a malformed one; one destination; a limit of two descriptors; any reply to any request; one kill | `IndexLeadsSomewhere`, `AcquiredWhole`, `HandoffStays`, `LeftInOrder` |

The remaining three runs are those of
[section 6](#6-where-the-code-and-what-is-said-of-it-differ). No run names a
type invariant: those are proved, for every instance. `Sessions.SeededOnce`,
`ABDeploy.ClearedOnlyVerified` and the properties about how far a round, a run, a
script or a session is from its end, which the proof modules define, are proved
and not run.

Why the bounds are enough for what is asked:

- *Decisions.* A hold is decided, deferred or refused by at most two commands
  that matter to one another, and the first run has every pair of kinds about
  the same hold. `MaxRemembered` is below the number of commands, so results
  are evicted; `MaxCommands` is below it too, so responses are cut. The second run
  has what blocks the queue and what is behind it. One failure
  reaches every "this call went wrong"; what follows a second, and a refusal for
  bad parameters, which no run takes, are in the proofs, which bound nothing.
  `RefusalsAreTrue` meets no deadline in its run, whose clock stands still: there
  too the theorem says more.
- *Push.* The properties compare ages with sums of intervals; the intervals
  are distinct, the heartbeat no multiple of the poll, and `MaxAge` exceeds
  every sum. Two contents suffice to be shown something old.
- *Deployment.* A third image is needed for "previous"; two runs for the lock;
  three failures reach, for instance, a kill during promotion, a kill of its
  recovery and a failed restart.
- *Supervisor.* One service that health asks and whose start is preceded by a
  command that may fail, one that it does not ask, and a last one. The grace
  is 2 and the runtime's patience 4, with commands of length 1: the relation
  of the defaults (20 s, probes of at most 2 s, `--stop-timeout 30` of
  `deploy/podman/rebekah-run`).
- *Bridge.* Three requests through one-chunk buffers are the fewest with which
  a child can block on a stdout nobody reads. Two connections and one slot make
  every release matter to somebody.
- *Sessions.* A stale row needs one request that read it and one that changes
  it: two. Two sessions, so that losing the wrong one is visible. The clock has
  a value before, at and after the end of a session. Two failures reach a boot
  that is interrupted twice, or a crash and a clock set back; the proofs bound
  none of these.
- *Views.* Ephor and the agenda meet only in the size of the push, so a behaviour
  has one or the other (`Setups`). Three holds exceed the limit of two, in one
  gate and in all surfaces together. Two editions share a snapshot and not an
  editorial, so that a mixture exists whose parts are each intact; the third has
  another snapshot. One clock is so far ahead that an edition is refused first
  and shown later, and evidence becomes stale within the bound of the clock.
- *OCI layout.* Two publishers are the fewest that can lose an index entry and,
  given the same record, the fewest that write the same blobs; a publisher and
  two acquirers the fewest that meet at the rename. One kill leaves every kind
  of partial state for the others to find. With a limit of two descriptors the
  third manifest, for which there are enough processes, is the one too many.

Three of the passing configurations switch the deadlock check off, because these
systems stop: the container has exited (`Supervisor.cfg`), every client has left
(`McpBridge.cfg`), every tool has ended (`OciLayout.cfg`). The violation about
the supervisor does so for the same reason. The others never stop.

## 4. Fairness

- `Decisions`: `WF(Round)`. `run()` loops for the life of the process and every
  call in it has a timeout. Nothing is assumed of Dash, the clock, the
  reviewers or orphaned requests; a result is promised once the failure budget
  is spent.
- `DashPush`: none. Its time-bounded properties are invariants; the bounds of
  `Tick` (no wait longer than asked, no round longer than `RoundTime`) carry
  the assumption that calls have timeouts.
- `ABDeploy`: `WF` on each run's next step, and `SF` on `recover`: somebody
  runs it again and again while something is pending, as
  `deploy/podman/README.md` asks, even though each attempt may be disturbed
  while failures last.
- `Supervisor`: `WF` on the script, on time, and on the runtime's kill. Nothing
  obliges a service to come up or to end on TERM.
- `DashViews`: `WF(Round)`, as for `Decisions`: the loop goes on, and each source
  answers or times out. `WF` of the clock, which refuses an edition only as long
  as it is behind. Nothing is assumed of the generator, of Ephor, or of a
  reviewer; `EditionArrives` promises something only of an edition that stays.
- `Sessions`, `OciLayout`: none; every property is a safety property.
- `McpBridge`: `WF` on each thread of the bridge, on the child (it answers, and
  ends at the end of its stdin: this is the part of the MCP servers that the
  bridge relies on), and on the client's reading. Nobody has to send, close or
  leave. A client that stays and does not read may block its session for ever,
  which is why `Listen` is among them.

## 5. What is proved

For all values of the constants that satisfy the assumptions (finitely many
commands and connections, positive bounds, command time plus grace below the
runtime's patience, and so on; each `ASSUME` is named in its module), every
invariant and every action property that a run checks, the refinements, and, where
a run checks a liveness property, most of what it needs besides fairness: a rank
that every step of the component lowers and no other step raises, with its bound,
and, for the bridge, that somebody can always take a step.

- **`DecisionsProofs`**: `TypeCorrect`, `AuditFirst` (`EffectsAccounted`),
  `OkIsTrue` (`OkIsRecorded`), `Refinement` (`KeepsTrail`), `AppliedOnce`
  (`AppliedOnceUnlessForgotten`), `RefusedIsTrue` (`RefusalsAreTrue`),
  `ReportsNeverDiffer` (`ReportsAgree`) and `NothingIsOverturned`
  (`NoOverturn`): every property of its runs that is not about fairness.
  `EffectsAccounted` is not inductive, since it forgets where the current
  command is: the invariant `AuditInv` adds that the intents exceed what is
  accounted for by one while a request is out or about to be (`send`), and that
  an outcome about to be recorded belongs to the current command. `OkInv`
  follows an "ok" through `res`, `applied` and `unreported` to Dash. The
  refinement maps each step of the thread to one of `AuditTrail` or to a
  stutter. `MemInv` says what the memory knows of a command it has not
  forgotten: Dash was told what is remembered and nothing else, there was at
  most one request, and none if what is remembered is a refusal; between the
  surface's reply and `Finish`, `res` stands in for the memory. Three theorems
  follow from it. `TurnInv` says that a decided hold is not pending, whoever decided
  it, so that what the command past its lookup finds decided was decided since
  (`raced`): `NothingIsOverturned` holds for decisions taken in Ephor as well. Of `EveryDecisionReported`, `RoundsAreBounded`
  is the part that a round ends: it makes at most `5 * MaxCommands + 2` calls, each
  of which, failed or not, brings the end nearer. `TakenIsReported` is the part
  that nothing gets lost on the way: without a failure, a command leaves the batch
  with a result to report, unless it has no id to report it by or one whose id
  raises takes the rest of the batch with it, and a result is dropped when Dash
  has it.
- **`ABDeployProofs`**: `Inductive`, `TypeCorrect`, `BaselinesAreGood`,
  `CrashesAreRecorded`, `RecordClearedLast`, `ExitCodesAreTrue`. The invariant
  says, for each program point of a run that holds the lock, what the files
  say there (`FilesAt`, `OnTrack`) and that nobody else is inside (`RunInv`);
  the properties quantify over every state a kill can leave, so the invariant
  must hold without any run at all. `ExitCodesAreTrue` says of 0 that the wanted image
  is pinned and verified, or that `recover` found nothing to do; of 1 the same with
  B, or that a command failed, and then that the record is there or the pin is an
  image that once passed. `RecoverNeverRefused`: with nobody at work,
  what is pending has an image that is loaded and works, and the lock is free, so
  `recover` is refused neither by flock nor by preflight; this rests on images
  staying loaded (`Loaded` is a constant). Its invariant, `AheadInv`, says of a run
  what it is about to record. `RestoresSettle`: a `recover` or an EXIT trap that is
  not disturbed itself leaves the pin verified and nothing pending. `RunsEnd`: a
  run has at most 27 steps before it. Together they are `EventuallySettled` but
  for fairness.
- **`SupervisorProofs`**: `Inductive`, `TypeCorrect`, `NoServiceIsCutOff`, `StatusIsTrue`,
  `HealthyServicesCameUp`, `StopIsInTime`. The invariant ties
  the program counter to the trap, the reason and the set of started services
  (`Phases`, `Ends`), bounds the time since a request by the grace left
  (`InTime`), and remembers which probes have been answered (`Answered`).
  `StopIsInTime` is the arithmetic of `REBEKAH_STOP_TIMEOUT` against the
  runtime's timeout, for any values. `NoWaitForEver` says that no `wait` is called
  with nothing that could end it (`Noted`: by the end of the launches every
  service is in `pids`), and `ScriptGoesForward` that each command is followed by a
  later one, in an order that nothing reverses: the part of `ExitOfOneEndsAll`
  that is not fairness.
- **`McpBridgeProofs`**: `Inductive`, `TypeCorrect`, `ChildrenAreBounded`,
  `AnswersAreWhole`, `RequestsAreWhole`. The invariant says that chunks pass
  the points in order (`InOrder`), what the session's thread implies for the
  socket and the child (`Phase`), and that behind the end of a stream nothing
  can enter (`RequestsEnd`, `AnswersEnd`); the sessions that hold a slot are as
  many as the semaphore lacks (`SlotsHeld`). `NoCircularWait` says that in every
  state of a session one of its threads, its child or its client's reading can go
  on, unless it is the client's turn or all is over: full buffers on both sides,
  and the end of any stream at any moment, never leave everybody waiting. The proof
  goes up the answers from the client and down the requests to the child: each
  point that does not move says what is in the buffer behind it. `StepsAreBounded`:
  each step takes one session one step further, of at most
  `8 * Requests[s] + 16`. The two are `AnswersArrive` and `SlotComesBack` but for
  fairness.
- **`SessionsProofs`**: `Inductive`, `TypeCorrect`, `EndedSessionsStayOut`
  (`StaysOut`), `SessionsEndForCause` (`RefusedForCause`), `PasswordCanBeFound`
  (`NeverLockedOut`), `SeededOnlyOnce` (`SeededOnce`): every property of the
  run. None is inductive, since all of them depend on what a thread or a boot
  in progress believes. `BootInv` says for each stage of the boot what the user
  and the file are there; `TokenInv` that a row, while it exists, is what was
  minted, that it only goes for a cause, and that a session that ended has no
  row; `ReadInv` what a request may conclude from the row it read: one that is
  about to delete a row has seen it expired, one that came with an ended
  session has found none. A row never comes back because tokens are fresh, so
  "has found none" stays true, which is the heart of `StaysOut`.

- **`DashPushProofs`**: `PushInductive`, `TypeCorrect`, `HeartbeatIsKept`,
  `ChangesAreInTime`, `ClicksAreServed`, `CatchesUpInTime`: every property of the
  run, for any intervals with the order of the defaults. An age grows with the
  clock, so the invariant bounds the age together with what is left of the wait,
  and, while a round runs, by the age it had when the round began: that is what
  the code computes with, and `spent` is what it does not know of.
- **`DashViewsProofs`**: `AgendaInductive`, `EditionsAreWhole` (`WholeEditions`,
  the refinement of `EditionSource`), `AnswersFit` (`AnswerFits`) for `Agenda`
  by itself; `ViewsInductive`, `NothingIsMissed` (`PendingIsShown`),
  `NothingIsOutdated` (`ShownWasPending`), `LargeViewsYield` (`OptionalYields`)
  for the rounds; `PushedEditionsAreWhole` carries the first over to them, and
  `PushedAgendaFits` (`PushedFits`) says the second of what is pushed, after the
  envelope has decided what has room. The reader's invariant is that what it holds are parts of
  the edition whose manifest it read, and that this was on offer during the read
  (`offered`); that of a round, which surfaces are still to be listed for a hold
  pending ever since. `ViewsRoundsEnd` is the part of `EditionArrives` that a round
  ends, `Len(Gates) + 10` steps after it began at the latest, whatever the
  generator, Ephor and the clock do meanwhile.
- **`OciLayoutProofs`**: `TypeCorrect`, `Inductive`, `IndexLeads`
  (`IndexLeadsSomewhere`), `AllOrNothing` (`AcquiredWhole`), `NothingIsLost`
  (`HandoffStays`), `LeftOrderly` (`LeftInOrder`). A blob is backed when it is whole or open for writing; the
  invariant says which blobs are backed at each step of a publisher, that every
  manifest in the index, or in a list about to be written back, is, and that a
  list held by somebody who met nobody contains what others completed. A
  directory that a publisher has begun to use is never replaced by a rename,
  and a stage holds what its acquirer verified; `inspect` accepts it unless the image's
  subject is malformed (`AllInspects`). `LeftInOrder` speaks of the end,
  when nobody is at work, and needs a second invariant, `OrderInv`, of what may be
  unfinished before, as does `HandoffStays` for an index that cannot be read: a file is torn or empty only while somebody has it open, for
  ever if that one was killed (`OpenInv`); a list names each manifest once, and only
  what was finished or acquired (`ListInv`); as long as nobody met anybody, one that
  has emptied the index is the last that may write it, and if none was killed it is
  still at work, so one that fails on it leaves another behind (`AloneInv`). With nobody left no file is open, and the manifests
  of the index and its positions are in bijection, which is how "exactly one" and the
  limit of `inspect` are counted (`LengthOfList`).

Only model-checked: the six liveness properties (`EveryDecisionReported`,
`EventuallySettled`, `ExitOfOneEndsAll`, `AnswersArrive`, `SlotComesBack`,
`EditionArrives`). They follow from fairness and enabledness, which the prover does
not reason about, and from a rank that falls, which is induction over data; what is
proved towards each is named above. That the `May...` operators are the enabling
conditions of the bridge's actions is read off the actions, which begin with them;
no theorem says `ENABLED`.

## 6. Where the code and what is said of it differ

Each of these is a run that ends in a counterexample to one property, which
states what a comment or document says.

1. `decisions_late`. "Past its deadline a hold defaults to deny; never approve
   it late" (`nix/gateway.py:1457`). The clock is read at 1374, before the
   lookup and the intent; the approval may be carried out after the deadline.
2. `deploy_interrupted`. "A pending rollback record survives an interrupted
   deployment" (`deploy/podman/README.md:125`). `do_activate` removes the record
   before it clears `recovery_pin`: a signal in between re-pins the old image
   with nothing recorded.
3. `supervisor_unbounded`. "so a stop is bounded even if a service ignores
   TERM" (`nix/entrypoint.sh:300`). A stop request between the fork and `pids+=`
   leaves a service that gets neither TERM nor KILL, and `wait` waits for it.
   `KilledOnlyIfUnknown`, proved, says that there is no other way.

The models show more, without a run of their own.

*Taking decisions.* A command without a usable id is "not addressable: nothing to
report back to" (`nix/gateway.py:1363`) and skipped. An id that is a list or an
object does not get there: the membership test at 2185 raises, `run` drops the
rest of the response and the report of that round, and, as Dash hands the command
out again, of every round after it. Decisions behind it are never taken and
results not reported. `MAX_COMMANDS` unusable ids at the head of the queue do the
same to what is behind them, without raising. `EveryDecisionReported` excludes
both (`Blocked`).

*Pushing.* "What changed, ignoring the timestamps every build carries"
(`nix/gateway.py:2216`): `runtime_snapshot` puts an age in the system view, which
the digest does not leave out, so with a snapshot every round is a push
(`Changed`; the run holds both settings). A push whose reply is lost, followed by
a change back, leaves Dash with what is no longer so until the heartbeat, because
the digest is compared with the last acknowledged push (`CatchesUp` bounds it).
The thread wakes up to a round later than the deadline it computed, since the
wait counts from the end of a round (`HeartbeatKept` has that round in its bound).

*Stopping.* "exit 0 at once, wherever serve() was" (`nix/entrypoint.sh:330`): the
trap is set at 556, after `doctor` and `seed_ledger`; before it the container
ends with 143. Under `podman stop` through systemd this makes no difference,
under the unit's `Restart=on-failure` a stop by hand is followed by a restart.

*Deploying.* The documented meaning of status 1 is "candidate failed but rollback
verified" (`deploy/podman/README.md:120`). Under `set -e`
(`deploy/podman/rebekah-ab:23`) a command that fails ends the script with its own
status, 1 for most: a backup or a record that cannot be written (224-225), a pin
that `recover` or `rollback` cannot write. Nothing is verified then;
`ExitTellsTruth` says what is true instead (`BrokeOff`). An `rm` of the record that
fails (240) while `recovery_pin` is set puts the old B back in place of the promoted
image and ends with 1 as well. What the trap calls is part of a condition, where
`set -e` is not in force: a write of the pin that fails half-way there may still be
moved into place, which the model does not follow.

*Signing in.* A logout that arrives while the store could not be opened is
answered 200 and revokes nothing (`nix/gateway.py:1862`), though "`POST
/api/logout` revokes it" (`README.md:122-123`): the session is good again once a
later start opens the store, so `ended` counts only logouts that an open store
answered. A comment says that a generated password is "logged once"
(`nix/gateway.py:219`); the code and `README.md:118` agree that it never is.

*Showing holds.* A gate's list is cut to 100 actions before the pending ones are
picked out of it (`nix/gateway.py:1230-1232`), and the whole view to 100 again:
with more actions than that, decided ones included, a pending hold may be missing
from a view that does not call itself stale, though held calls "appear in `GET
/api/v1/oversight`" (`README.md:420-423`). `PendingIsShown` therefore has the
limit in its premise.

*The agenda.* "If the aggregate push envelope would exceed Dash's 512 KiB cap, the
optional agenda is sent as unavailable" (`docs/DAILY-AGENDA.md:119-120`). The code
drops Frog's view first and keeps the agenda if that is enough
(`nix/gateway.py:2162-2174`); `OptionalYields` states the code's order. An intact edition that makes the push too large is sent as
`unavailable`, which `docs/DAILY-AGENDA.md:73-74` says "means a damaged artifact"
and line 120 of the same document says is sent for the large one too. A Frog view
that is `disabled` becomes `unavailable` when it is displaced, although that
saves nothing.

*Layouts.* `publish` empties `index.json` and fills it (`tools/oci_handoff.py:81`): a
kill in between loses every entry and makes all later publications fail, as
`HandoffStays` says. `publish` counts no descriptors and `inspect` takes 256
(`tools/oci_inspect.py:12,58`): the 257th handoff leaves a layout that `inspect`
refuses. `acquire` does not look at the subject of the manifest it stages, so an
image whose subject is no descriptor is acquired and then refused (69-72), and a
subject that describes an indexed manifest wrongly makes `inspect` refuse the
layout (95-96). `publish` writes a blob again even if it is there and right
(`tools/oci_handoff.py:22`), and every handoff shares the config `{}`: a kill
between emptying and filling damages handoffs published earlier, and makes later
publications fail ("corrupt existing blob"). Two publishers that had the index at
the same time lose an entry or leave a torn index; hence `met`. The comment
"Refuse to overwrite a destination created while blobs were being fetched"
(`tools/oci_registry_acquire.py:80`) is true of a directory with something in it;
one created empty after the check is replaced by the rename, and a publisher that
had just created it goes on in what was put there.

One assumption deserves its
name: `wait -n` is taken to remember a child that ended before it was called,
which some versions of bash do not for a child killed by a signal.

## 7. What is not modelled

- *Pure projections and parsing* (`v1_system`, `v1_attention`, `v1_changesets`,
  `v1_change_requests`, `Config`, argument parsing, rendering): one read, one
  result, nothing to interleave. What the schemas of the agenda and of Frog ask
  of each field is one flag of an edition or one kind of reply. Parts with an
  algorithm worth stating are in the plan.
- *OCI details*: sizes, media types and symbolic links, so that a payload above the
  128 MiB that `inspect` reads, or an index above its 1 MiB, is not one of the
  refusals; the referrers that `inspect` lists, and its search for cycles: a handoff
  has no subject and a layout is acquired once, so at most one manifest in it has
  one, and a manifest cannot contain its own digest; the addresses a registry connection may go to, which are one
  kind of missing reply. A power failure, which may lose what was written and
  not synced.
- *Governance* (`nix/govern.sh`, `nix/ephor-connector.sh`, the evidence
  commands) and `seed_ledger` across boots: planned; their hazards are listed
  without a property.
- *Routing* (`make_handler`): who reaches what is a table, and the relaying of
  streams is Python's and the kernel's; planned.
- *Inputs of another repository*: what Ephor, WeftMark, Sylvae, OpenCode, Dash
  and Nostoi do inside. They appear as actions that may happen, marked external
  in the map.
- *Packaging and CI*: Nix expressions and workflow files have no behaviour over
  time of their own.
- *The console* (`nix/ui/index.html`): a browser program over the read-only
  views, which keeps the session token it was given.
- *Sign-in*: time spent hashing, the size and syntax of requests, users other
  than the first; what a power failure leaves of a file that was not synced; a
  statement that reaches the disk and is reported as failed. PyJWT's checks of
  signature, issuer and audience are one flag of a credential.
- *Tests, demo data, documents*: read as evidence of what is promised.

## 8. Plan

Done, in this order: `Decisions` with `AuditTrail`, `ABDeploy`, `DashPush`,
`Supervisor`, `McpBridge`, `Sessions`, `Agenda` with `EditionSource`,
`DashViews`, `OciLayout`. What is left, most important first:

1. `Govern`: connector, evidence and review, `seed_ledger` across boots; an
   outcome per captured entry, and results that belong to the run that reads them.
2. `Unit`: `Supervisor` and `ABDeploy` composed by the restart policy of
   `rebekah.service`: a verified pin is what runs after any crash.
3. `Decisions`, `DashPush` and `DashViews` composed: a decision, and the push that
   shows that its hold is gone.
4. `Routing`: who reaches which backend with which principal, checked against
   the table of the documentation.
5. `OciInspect`: referrers and cycles as operators over graphs, against
   reachability.

Of the proofs, what is left of liveness without fairness: that each step of a round
of `Decisions` and of a run of `ABDeploy` is possible, as `NoCircularWait` says for
the bridge.

## 9. Running it

In this directory:

    tlc -workers 2 -config Supervisor.cfg MCSupervisor.tla
    tlapm SupervisorProofs.tla

`PROJECT.json` names the module and the configuration of every run. The longest
takes about three minutes on two cores.
