# Verification of agentic-chargeback-investigator

TLA+ models of the parts of this repository that keep state and meet
concurrency, and of the contracts they exchange; the TLC runs that check them;
and TLAPS proofs. `PROJECT.json` lists components, runs, mutants, findings,
hazards and theorems, and says for each definition which source lines it stands
for.

## The system

| Component | State | Operations | Here |
|---|---|---|---|
| `agent-registry` | `AgentRepository._agents` (agent id to record with a lease end), one `asyncio.Lock`, the sweeper task | register, renew, deregister, list, capabilities, discover, health; periodic sweep; start-up and shutdown | `LeaseTable`, `LeaseRegistry`, `AgentRegistry`, `LeaseTiming` |
| `transaction-agent` | one async generator per run; nothing shared | `/agent/run`, `/intake`: look up the case, then its transaction, stream AG-UI events, ask the model half-way; `/actions/decision`: log | `AgUiStream`, `InvestigationRun` |
| `investigator-ui` | `App`: events, recommendation, card, `running`; `DecisionCard`: `submittedAction` | start button, two stream subscribers, decision buttons, answer of a post, reload | `InvestigatorUi`, `VerticalSlice` |
| `dispute-mcp-server` | `_cases`, `_audit_log`; seed tables | 13 tools in worker threads, two of them mutate | `SeedData`, `DisputeCalls`, `DisputeStore`, `DisputeMcp` |
| `contracts` | none of its own; instances live in the services | construct, copy with changes, embed, serialise, parse; `required_skills_for` | `Skills`, `Contracts`, `ContractExchange` |
| orchestrator, customer-history, merchant-evidence, policy and duplicate-transaction agents, knowledge-ingestor | none | empty packages | not modelled |

The page posts a run to `transaction-agent` and reads its event stream;
`transaction-agent` calls `dispute-mcp-server` in its own process and the model
over HTTP; decision posts return to `transaction-agent`. Nobody calls the
registry yet: its clients are the agents to come.

What is hard, and which property guards it:

- **The registry locks twice.** `register` and `renew` call `get()` and then
  `upsert()`, each under the lock, with the service reading the clock between
  them without it. What was read must still hold when it is written
  (`SnapshotCurrent`), a slow request must not take back a lease granted after it
  (`NewerLeasesPrevail`), and the whole must look like one step
  (`ImplementsLeaseRegistry`).
- **The sweep reads the clock, then waits for the lock**, on a wall clock that may be
  set meanwhile. It must neither take an agent that was live all along
  (`LiveAgentsStay`) nor leave one that was over (`ListedOutliveSweep`).
- **Shutdown cancels the sweeper anywhere**, in its section or in the queue
  (`LockDiscipline`).
- **Two clocks.** `asyncio.sleep` counts monotonic time, leases wall-clock time
  (`DeadAgentsGone`, `LeaseHonoured`).
- **A stream can fail after its status is sent**, at the model's explanation or
  at the first contract built with a blank run id; the client may hang up and the
  process may end at any point of it (`StreamOK`, `EveryRequestEnds`).
- **A run makes a second lookup whose failure nothing handles**: that every seeded
  case has its own transaction is what keeps it from failing (`OnlyKnownCases`).
- **The page's subscribers and posts finish whenever they finish**, also when the
  page already shows something else or has been reloaded (`ShownIsCurrent`,
  `DecisionsInformed`, `InvestigationShown`, `RecordedForThisCard`).
- **Writes to `dispute-mcp-server` overlap in worker threads** on a repository
  without a lock: an update stores a copy of a record it read before
  (`StoreInv`, `ImplementsDisputeStore`), and an acknowledged audit entry has to
  be in the log (`AcknowledgedAuditsLogged`).
- **Thirteen tables and lists refer to each other by id**, typed in by hand: a tool
  asked about one case must not answer with another's data (`AnswersAgree`).
- **Contracts are validated when constructed and when parsed, not between**:
  `model_copy` and assignment check nothing, and a part is not checked again when
  it becomes part of something else (`AcceptedIsSound`, `ReadAsSent`); times come
  with any offset and are compared and sent (`MomentsKept`).

## Modules

### LeaseTable

The data of the registry, as operators: requests, records, answers, and what each
repository method computes. A table is a total function from agent ids to a
record or `Absent`. A record keeps the capabilities and the lease end; the other
fields of the payload go wherever the capabilities go. Time is whole units.
`/health` is a `list` request whose answer is counted.

### LeaseRegistry (abstract)

What clients are promised: a request is `open` from its arrival until it takes
effect, in one step, with an answer that fits that step; a lease is counted from a
time the clock has shown since the request arrived and since the last sweep; a sweep
drops everything over at a time shown since the one before it; a new process
starts empty. The clock is `datetime.now(UTC)`, which goes on or is set, forward or
back (`ClockMoves`), so moments are not ordered by its readings: `since` and `shown`
are the sets of times it has shown, during a request and since the last sweep.

### AgentRegistry (detailed)

The same service as tasks of an asyncio loop. `running` is the task that has the
loop; `pc` says where a task stands: asking for the lock (`entering`), waiting in
`acquire()` (`queued`), in an `async with self._lock` section (`inside`), back in
the service's code (`service`), returned (`answered`). `Acquire`, `Enqueue` and
`Wake` are `asyncio.Lock`; `Get`, `Upsert`, `Remove`, `ListAll`,
`ListCapabilities`, `FindByCapability` and `RemoveExpired` are the sections;
`BuildRegistration`, `BuildRenewal` and `RefuseRenewal` the service code between
two of them; `SweeperWakes`, `Startup`, `Stop` the `LeaseManager`; `Boot` a new
process. `Stop` waits for the handlers in flight, as uvicorn's graceful shutdown
does, and finds the sweeper at any of its places.

`AwaitYields` separates what the lock gives from what the event loop gives.
`FALSE` is the build: `await coroutine` runs the coroutine directly, and an
uncontended `Lock.acquire()` does not suspend, so in fact no task ever meets
another at the lock. `TRUE` lets every await hand the loop to another task, as any
real I/O added to the repository would. What holds under `TRUE` needs only the
lock; what holds only under `FALSE` would be lost by the first suspending await
inside a handler. In both cases the clock may go on or be set, forward or back,
between any two steps. Three variables are history, for the properties alone:
`since` and `shown` as in `LeaseRegistry`, and `kept`, the times shown since a listed
agent's record was stored. With a clock that never goes back, `NewerLeasesPrevail`
says that a listed lease's end only moves forward, and `ListedOutliveSweep` that
every listed lease ends after the last sweep's reading; a clock that is set back
breaks both of these in the code, and the properties say what is left of them.

`lease_manager.py` catches every exception of a sweep, logs it and goes on; nothing
in a sweep raises, so the handler is left out.

### LeaseTiming

How long an agent is listed, in real time. Requests are atomic (`LeaseRegistry`
justifies that). `loopTime` is the monotonic clock the sweeper sleeps on; `Wall`
is `loopTime` plus a `drift` that may change at any moment within `MaxDrift`;
the loop runs a due timer at most `MaxLag` late.

### SeedData

The constant tables of `dispute-mcp-server`, row by row, with the fields that refer
to other rows and the amounts, and the read tools over them (`ReadTables`).

### DisputeCalls, DisputeStore (abstract), DisputeMcp (detailed)

`DisputeCalls` is what callers send and are answered. In `DisputeStore` a tool
call takes effect in one step. `DisputeMcp` is the server: FastMCP 3 runs a
synchronous tool in a worker thread, so `update_case` is a read
(`ReadForUpdate`) and a store of a changed copy (`StoreUpdated`), `write_audit` a
lookup (`CheckForAudit`) and an append (`AppendEntry`), and anything may happen in
between; each access to the dictionary or the list is atomic under the interpreter
lock. A retry is a call with the arguments of an earlier one: the server compares
no idempotency keys, it only refuses a blank one. `Restart` is a new process,
which starts from the seed data. Of a case the status is kept apart, because tools
change it. The ten tools over constant tables are one action, `GetSeeded`, which
answers the rows that `Tables` has under the id, and an id a table lacks is an
error, as `NotFoundError` is.

### AgUiStream, InvestigationRun

The sequence of events of a run, and a run: `AgentRun` or `Intake` takes the
request, `FindCase` and `FindTransaction` are the two MCP calls before the answer
begins (404 for an unknown case, 500 for an unknown transaction), then `Emit` sends
one event after another, with the model's explanation between the fourth and the
fifth. `ExplanationFails` (time-out, error status, unusable answer) and
`RejectRunId` cut the stream: nothing checks the run id of `/agent/run` before
the first contract is built from it, when `RUN_STARTED` is out. A blank case id is
refused at once by `/agent/run` and looked up by `/intake`. `stream` holds what the
client has not read; an event counts as sent when it is at the client's host.
`Leave` closes connections, `Cancel` is the server noticing one of them, and
`Restart` ends every run in progress, of which nothing is kept.

### InvestigatorUi, VerticalSlice

The page and its handlers, and their composition with the runs: a click starts a
run, the subscribers read the streams of the page's runs, decision posts are
logged, refused or lost. `ReloadPage` drops the page's state and connections at any
moment; a post under way goes on without a page (`orphaned`). Other clients start
runs too, and hang up. Everything the page shows carries, in the model only, the
run it came from.

### Skills, Contracts, ContractExchange

`Skills` is `skills.py`: which skills a dispute type needs, in order. `Contracts` is
the rest of the package as data: every contract as the table of its fields with the
kind of value each takes (`ContractSchema`), and which contracts can arrive in whose
place (`Arriving`). Fields that take every value of their type carry no rule and are
left out, texts are `""`, `" "` or `"x"`.

`ContractExchange` is what may happen to instances on their way, for any such tables.
A producer calls a constructor (`Construct`), sets a field behind the validators'
back (`Assign`), and sends an instance (`Send`); a consumer validates the JSON against
every contract it expects there (`Receive`). As in Python a part is a reference:
`object` maps each instance to its fields, the value of a part is the instance
itself, and what is set in it later shows wherever it is embedded. `given` keeps what
the producer gave, before the conversion to UTC. `Valid` is what a constructor looks
at: each argument and the rules that relate them, but no part (pydantic's
`revalidate_instances='never'`). What is sent is an instance with all that it is made
of, its `Document`: the least set of instances that has it and the parts of its
members. `Loads` is `model_validate_json`, which looks at every one of them, and
`Converted` what both return. JSON keeps the values modelled as they are, so
`Receive` reads the instances themselves, which no step changes once they are sent.

What the code says about its contracts is assumed by name and evaluated by TLC on the
tables of `Contracts`: contracts that can arrive in one place have different fields
or a constant that tells them apart (`SchemaAssumption`), the fields that the
validators of findings and records speak of exist (`RulesAssumption`), and a producer
gives times as times and asks for the skills `required_skills_for` returns, or for
one (`OffersAssumption`).

### MCAgentRegistry, MCLeaseTiming, MCDisputeMcp, MCVerticalSlice, MCContractExchange

Symmetry sets for TLC, and the seed data as the values of the tables. The runs work on two cases of the seed data (`MCDisputeMcp`) and on the page's one
(`MCVerticalSlice`). That the seed data agree and that every case has a transaction
is evaluated on all three, `CASES` as the code has it: `SeedAssumption` in both
modules. `MCContractExchange` gives `ContractExchange` the contracts of the code, and
for each of them one instance to make, one made before, and the arguments to try.

### LeaseTableProofs, AgentRegistryProofs, LeaseHistoryProofs, LeaseTimingProofs, DisputeMcpProofs, SliceProofs, ContractProofs

Lemmas about the operators, and the theorems below.

Definitions marked "Wrong on purpose" are faulty variants of the one that follows
them. No specification uses them; each property has been seen to fail when one of
them replaces the definition it imitates (`mutants` in `PROJECT.json`).

## Runs

| Run | Question | Bounds |
|---|---|---|
| `registry_loop` | Does the build implement the atomic registry? | 2 connections, 2 agents, 2 skills, lease 1, clock up to 1, set either way, symmetric |
| `registry_yields` | What does the lock alone give? | 2 connections, 1 agent, clock up to 1, set either way, symmetric |
| `registry_live` | Does anybody starve on the lock? | 2 connections and the sweeper, clock 0, fair |
| `registry_evict` | Are dead agents dropped? | 2 connections, clock up to 1, set either way, fair |
| `lease_timing` | How stale can a listing be? | 2 agents, lease 5, sweep 2, lag 1, drift 2, time up to 12 |
| `dispute_mcp` | Do unlocked worker threads implement an atomic store, and do all answers about a case agree? | 2 callers, 3 cases (one unknown), 4 other ids, 2 statuses, 1 key, 2 audit entries, symmetric |
| `slice` | Do streams and page behave? | 2 runs, 2 cases (one unknown) and a blank id, 2 posts, 2 actions; reloads, restarts and hang-ups at any moment; fair |
| `contracts` | Can a consumer trust a contract it has parsed? | all contracts; 2 unusual arguments at once where a rule relates them, 1 elsewhere; 1 assignment; parts in parts as deep as the contracts allow; 2 local times, 2 offsets |
| `renew_expired`, `renew_lock`, `slice_stale`, `slice_refused` | the findings below | one or two of everything |

Why this is enough to see the interesting cases. Two connections and the sweeper
make three tasks: two can wait for the lock that the third holds, and between one
handler's two sections there is room for a complete request of the other and a
sweep. With a lease of 1 a lease granted at 0 is over at 1, where it is swept or
renewed late; one granted at 1 outlives every sweep, and a renewal after the clock
is set back to 0 shortens it; and as the clock may go back and forth, leases end and
are granted again without end. In `registry_live` time plays no part. In `lease_timing` two
complete leases with their sweeps fit in the time bound. In `dispute_mcp` two calls
overlap on one case or work on two, and one may repeat the other; the one key lets
both carry it, and two log entries hold a retry and a second case. Its two seeded
cases share a merchant and nothing else, so an answer about the wrong one shows;
each of the four other ids is known to some read tools and unknown to the rest. In
`slice` two runs are
the page's one after the other, or one is somebody else's; two posts give the
double click. In `contracts` a rule relates the fields
named in `Related`, which get two unusual arguments at a time, other fields one; the
usual time is the latest, so that two suffice for a finding that is completed before
it began; two local times and two offsets put a pair of times in every order, before
and after the conversion to UTC. `MaxLoose = 1` lets one instance be made at a time,
to be embedded, sent or left; `MaxTouched = 1` lets one field be set, before its
instance is embedded or after, and one is enough to make a document invalid. The
clock (`MaxTime`, `MaxAt`) and the audit log (`MaxAudit`) are the only other capped
quantities; runs and posts are finite sets, used once each.

**Fairness.** `AgentRegistry`: a task that runs goes on (`WF` on `RunningStep`:
its code does not block); a returned response is delivered (`WF`); a task that is
ready again and again gets the loop (`SF` on `Schedule` and on `SweeperWakes`:
asyncio's ready queue is FIFO and due timers join it). Requests, shutdown,
restarts and the clock owe nothing. `VerticalSlice`: the service goes on with each
of its runs, where the 30-second limit of the HTTP client ends the wait for the
model (a limit on each connect, write and read: that the model does not drip its one
answer byte by byte for ever is assumed), and clients that stay read what has arrived. Nothing is assumed of the
investigator or of decision posts, and nobody owes a reload, a hang-up, a restart,
or that the server notices a hang-up.

Deadlock checking is off in the runs of `VerticalSlice`, where nothing is left to
do with all runs over and all posts used, and in `contracts`, where an instance that
has been read is done with.

## Findings

1. `renew_expired`: `renew()` refuses only an agent that is gone from the table,
   so between the end of a lease and the next sweep it succeeds; the README says
   `404` "if the agent is unknown or already expired". The list and discover
   endpoints serve such an agent for the same reason. `LeaseRegistry` promises
   what the code does; `DeadAgentsGone` bounds how long.
2. `renew_lock`: the design document says the lock is held around `register` and
   `renew`; it is held around `get` and `upsert`. The registry is correct all the
   same, but because of the event loop (see `AwaitYields`).
3. `slice_stale`: `submittedAction` survives into the next investigation, whose
   card says a decision is recorded and takes none.
4. `slice_refused`: the page says "Recorded" whatever status the post was answered
   with.

Seen while reading, not stated as properties: a record that is set to completed by
assignment or `model_copy` has no decision and nothing in its process objects,
although `records.py` calls the rule structurally enforced; what `AcceptedIsSound`
shows is that no consumer takes it. `TransactionFindingDetails.posted_at` is the
one time that is not converted to UTC. A time too close to the ends of `datetime`'s
range raises `OverflowError` in the conversion, which is not a validation error.
`GET /agents/discover` with an
unknown capability is refused by the `SkillId` parameter, where the README promises
an empty list; a run whose explanation fails sends no error event, although
`contracts` has an `InvestigationFailedEvent`, and the page then stays at
"Investigating..." until it is reloaded (`ReloadPage`).

## Proofs

All seven proof modules are checked by `tlapm` from nothing, for any numbers of
connections, agents and skills, callers, cases and keys, runs and posts, and for any
contracts, instances and arguments. They rest
on the assumptions named in the modules (`LeaseTableAssumption`,
`AgentRegistryAssumption`, `LeaseTimingAssumption`, `DisputeCallsAssumption`,
`DisputeMcpAssumption`, `InvestigationRunAssumption`, `InvestigatorUiAssumption`,
`VerticalSliceAssumption`: a positive lease and sweep interval, nonempty
capability sets, distinct model values; `SchemaAssumption`, `RulesAssumption`,
`OffersAssumption`: see `ContractExchange`) and, where a theorem says so, on the
agreement of the seed tables, which TLC evaluates on the tables of the code
(`SeedAssumption` in `MCDisputeMcp` and `MCVerticalSlice`).

- **AgentRegistryProofs, for any `AwaitYields`.** `TaskInvariance`: `TaskInv` is
  inductive. `LockDiscipline` alone is not: that a `queued` task is in `waiters`
  says nothing of a cancelled or restarted process, so `TaskInv` adds the types,
  that a handler is at the method its request calls for with the data that method
  needs (`CallOK`), and that only a task in the middle of its work runs, with all
  of them idle before start-up and after shutdown (`LoopOK`). `TypeCorrectness`
  and `LockIsDisciplined` follow. The hardest step is `Stop`, where the queue has
  to be empty or hold the sweeper alone.
- **AgentRegistryProofs, for the build** (`Build == ~AwaitYields`).
  `LoopInvariance`: `LoopInv` adds that nobody waits for the lock and a task
  between its first await and its answer is the running one (`RunToAnswer`), which
  makes `SnapshotCurrent` inductive; that a record about to be stored is counted
  from a time shown since the request arrived (`GrantOK`); that no sweep and no other
  store has come in between, so that all these times are also times since the last
  sweep and since any listed record was stored (`Unbroken`); and that the sweeper's
  reading is a time shown since the last sweep (`ClockOK`). Together they make
  `ListedOutliveSweep` inductive. Nothing in the argument compares two readings of
  the clock. `Refinement`: under `LoopInv` each step maps to a step of
  `LeaseRegistry` or to a stutter, the effect of a request being its last section;
  `GrantOK` and `Unbroken` supply the time the abstract lease is counted from.
- **LeaseHistoryProofs.** `ClockInvariance`: `ClockOK` holds for any `AwaitYields`.
  From it and `TaskInv` follows `LiveAgentsAreKept`: the sweeper compares with a
  time shown since the last sweep, at which an agent that was live all along was
  live. `NewerLeasesAreKept` is for the build, because it needs `Unbroken`: the
  record that is replaced was stored before the request arrived, so the new lease is
  counted from a later moment, whatever the clock showed then. `TableSteps` says
  which actions touch the table at all.
- **LeaseTimingProofs.** `Invariance`, and from it `DeadAgentsAreGone` (an agent
  that stops renewing is listed for less than lease + sweep interval + lag +
  drift) and `LeasesAreHonoured`.
- **DisputeMcpProofs.** `StoreInvariance`: `StoreInv` is inductive; beside types
  it says which tool a call in the middle of its work belongs to (`CallOK`) and
  that the copy an update is about to store agrees with the repository in all but
  the status (`CopiesLoseNothing`). `Refinement`: the effect of a write is its
  store or its append, the steps before it stutter. The copy argument is what
  breaks as soon as a second field of a case becomes mutable.
  `AcknowledgedAudits`: the log only grows, and a write answers only after its
  append, so every acknowledged entry stays in it. `AnswersAgreement`: if the rows
  of the seed data agree (`SeedsAgree`), so does every answer, whatever is updated
  while it is put together; updates change statuses, on which the agreement does
  not depend.
- **SliceProofs.** Per run, the stream and what has been read of it are together
  an initial part of the protocol, and status, explanation and a blank id determine
  where that part can end (`StreamInv`, `StageInv`); `StreamCorrectness` follows,
  and `KnownCasesOnly` under `TransactionsAgree`. For the page, everything it shows
  is a function of one number, how many events of its current run it has read
  (`Seen`, `PageInv`); of the runs it has started all but the last are finished and
  read (`StartedInv`), without which a late event of an earlier run could change the
  page; and every decision in a post or at the service is about a run that was
  finished and explained (`PostsInv`). `Invariance` puts them together,
  `ShownCurrent` and `InformedDecisions` follow.
- **ContractProofs**, for any contracts. `Invariance`: `Inv` ties what was made to
  its contracts. Touched or not, an instance has exactly the fields of its contract,
  declared parts, and times at the instants that were given (`TableInv`); one that
  nobody touched is also valid, since conversion to UTC keeps what was validated
  before it (`ConvertedIsValid`, `UntouchedInv`). `ReadBack` (`ReadAsSent`) follows
  because no table is valid as two contracts that can arrive in one place
  (`ToldApart`), `MomentsPreserved` because converting twice is converting once.
  `Soundness` (`AcceptedIsSound`) is about producers that touch what they like: a
  part has the field names of its own contract, the contracts of one field have
  different ones, so a part that fits any of them fits its own (`PartsAreValid`).
  Parts nest to any depth and may be shared; the argument needs no induction over
  them, because all that is ever used of a `Document` is that it is closed and that
  each of its members but the root is part of another (`PartOfDocument`), which holds
  because it is the least such set. `PolicyIsLast` is about the six orders of
  `skills.py` and the one skill that is appended to them.
- **LeaseTableProofs.** Lemmas: the types of what the table operators return.

One lemma per action, then one that combines them (`NextTask`, `NextLoop`,
`ClockNext`, `NextInv`), then the temporal step.

Every safety property that a passing run checks is stated by a theorem. Only
model-checked: the liveness properties, which are outside what the prover handles;
and facts about the finite tables of the code, which TLC evaluates: that `SeedsAgree`
and `TransactionsAgree` hold of the seed data, and the assumptions of
`ContractExchange` of the contracts.

## Not modelled

- Reading of environment variables, in every service. The models assume positive
  durations, which `config.py` does not check: a lease of zero or less is over when
  it is granted, a sweep interval of zero makes the sweeper run at every turn of the
  loop, and a lease of NaN makes `timedelta` raise in every registration. The
  settings are floats; the models count whole units.
- The field constraints of the registry's payloads and of those contracts that have
  no rule relating two values (lengths, patterns, URLs): pydantic refuses such a
  request or message before any code here runs.
- Logging, formatting, CORS, the uvicorn and React entry points, package
  re-exports, and the rendering of the page's state.
- A connection of the page that breaks by itself while the page stays open: its
  effect on the page would be that of a stream that is cut. `InvestigationShown` is
  therefore about pages whose connection lasts.
- Decisions that another client posts: `/actions/decision` checks nothing of the run
  a decision names, and logs what it is sent. `DecisionsInformed` is a guarantee of the
  page, for every post of its own. That the buttons allow a second post while the
  first is under way is modelled and not called wrong.
- An explanation that has a lone surrogate, which passes the checks of
  `llm_client.py` and raises in the constructor of `DecisionCard`: the stream would
  then be cut before its last event, a place where `StreamOK` allows no cut.
- What a retried write with an idempotency key should do beyond what it does: the
  key is logged and compared with nothing, so a retry is a second write. The model
  keeps that (`DisputeStore`); no document promises otherwise.
- The six packages that hold a docstring each, and `agent-registry`'s future
  clients.

## Plan

Done: the registry and its timing, the tools and their data, the slice with
reloads, hang-ups and restarts, the contracts, and a proof of every safety
property of all four.

Left, in order of what it would add:

1. The agents that are empty packages today, as soon as they have code: an
   orchestrator that discovers agents through the registry composes
   `LeaseRegistry` (abstract) with `AgUiStream`, and `DeadAgentsGone` is then
   the bound on how stale its choice of agents is.
2. `write_audit` with a compared idempotency key, if the code comes to
   compare it: `DisputeStore` then promises at most one entry per key.
3. `InvestigationFailedEvent`, if the agent comes to send it: `Protocol` gets a
   second ending, and `EveryRequestEnds` can speak of the page.
