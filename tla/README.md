# Evidence Gate: specifications, checks and proofs

Evidence Gate (`src/src/evidence_gate/`) stands between an agent and the tools
it calls. The agent proposes an action together with the evidence for it; a
deterministic engine evaluates the action's policy on the evidence and answers
allow, restrict, review or block; the verdict is appended to a hash-chained
audit log before anyone acts on it; a review is parked for a human, whose
override is audited too. The gate runs in process or behind an HTTP service.

This directory holds TLA+ modules translated from that code, TLC
configurations that check them on small instances, and TLAPS proofs of what
matters most for every instance. `PROJECT.json` lists runs, mutations, proved
theorems, hazards, findings, and which definition stands for which lines.
Paths below are relative to `src/src/evidence_gate/`.

## 1. Inventory

| Component | State it keeps | Operations | Talks to | What is hard about it | What makes it correct |
|---|---|---|---|---|---|
| Gate core, `gate.py`, `errors.py` | none of its own; the locals of each call | `check`, `_emit`, `resolve_review`, the guard of `enforce` | engine, audit, queue, sink | handlers run in a thread pool and nothing takes a lock; any collaborator may raise between two steps; the process may die | nothing executes unrecorded; audit comes before routing; overrides are audited |
| Audit log, `audit.py` | `records` in memory, a JSONL file | `append`, `verify` | `signing.chain_hash` | read-modify-append without a lock; the file outlives the list | one record per check, an intact chain |
| Review queues, `review.py` | a dictionary and a counter, or a SQLite table | `enqueue`, `resolve`, `get`, `pending` | gate, service | two approvers at once; a second resolution; restart | a parked action has a ticket; a resolution is whole; queue and trail agree |
| Rule engine, `engine.py` | none | `evaluate` and its primitives | schemas, policies | staleness, provenance, conflicts, Python's equality and time zones, first failure decides | nothing is allowed unproved; evidence and time move the verdict only as documented |
| Schemas and policies, `schemas.py`, `policy.py` | the policies loaded | validators, `from_dir` | engine, compiler | files written while they are read, two files for one action | the directory is in force as a whole, or not at all |
| Manifest builder, `trace.py` | registered extractors | `register`, `build` | sessions, service | order of collection | the order does not matter to the verdict |
| Tokens, `signing.py` | keys | `issue`, `verify`, `require_clearance`, `chain_hash` | service, client, guarded functions | whole seconds, three clocks, reuse | a guard opens only in the window of a verdict for its action |
| Service, `service.py` | the gate it wraps | `check`, `resolve`, read-only endpoints | gate, signer | thread pool, failures after the audit | it answers with what it has recorded |
| Remote client, `client.py` | none | `check`, `enforce`, `auto_instrument` | service over httpx | lost, late and failed answers, time-outs, retries | fail closed; a caller acts on the verdict of its own call and no other, whatever ids calls share |
| Sessions and adapters, `integrations/` | `evidence`, LangChain's `_pending` | `enforce`, `record`, callbacks | gate or client | tools that run concurrently, call ids that repeat, denied runs that never end | a check sees what was recorded before it started, only what a permitted tool returned is evidence, and the gate's promise holds through the session |
| Policy authoring, `compiler.py`, `cli.py` | a draft, the policy directory | draft, lint, `approve`, `activate` | `from_dir` | killed between truncation and writing; two commands on one file; names that differ from actions | only shipped or approved policies come into force; a policy without warnings does not fail open |
| Trace adapters, `trace_adapters.py` | none | `normalize`, `simulate`, `coverage` | builder, engine | the order and the times of a log are not those of the session; one raising record takes the replay with it | a replay tells what the gate decided live; every tool is accounted for |
| Telemetry, `telemetry.py` | none | `emit` | a sink of the user's | the sink may raise | – |
| Command line, `cli.py` | none | `replay`, `audit verify`, `policy lint/compile` | all of the above | – | – |

Documents, examples, the site and its builder have no behaviour of the library.
`DESIGN.md` and `README.md` are quoted where a property comes from them.

## 2. Modules

    Effects <- Engine <- Evaluation <- MCEvaluation    EngineProofs <- EvaluationProofs
       ^          ^                                    EngineProofs <- SessionProofs
       |          +----- Session <- Replay <- MCSession              <- ReplayProofs
       |                    | implements
       +------ Enforcement (abstract)
       |                    | implements
       +------ Gate (with AuditLog) <- MCGate          GateProofs <- ChainProofs
       |
       +------ Remote <- MCRemote                      RemoteProofs (Remote
                                                         implements Enforcement)
               Authoring <- MCAuthoring                AuthoringProofs

Definitions called "Mutation of X" have the parameters of X and a plausible bug
in it. They are not part of the specification: put in the place of X, each one
breaks the property that `PROJECT.json` pairs with it, so no property holds by
the shape of the model alone.

**Effects.** The four effects, their severity, most-restrictive-wins.

**AuditLog.** What `audit.py` computes: a record's hash, the last hash,
`verify`. A digest stands for exactly the texts that went into it: `ChainHash`
is the sequence of bodies so far, so collisions do not exist in the model.

**Gate.** One process of the gate. Every element of `Check` is one call of
`Gate.check` made by the wrapper of `enforce`; every element of `Resolution` is
one call of `resolve_review`. `pc[c]` is where the call is, `job[c]` are its
local variables. One action is what a thread does between two points at which
another thread can be seen to come between: `AuditLog.append` is four
(`ReadPrev`, `BuildRecord`, `AppendRecord`, `WriteLine`), `resolve` of either
queue is two (`LoadTicket`, `UpdateTicket`). The failures of the engine, the
file, the database and the sink are actions of their own, and `Crash` kills
every running call, empties the list in memory and keeps file and database.
`AuditLog.__init__` never reads the file again, and neither does the model.
The engine is nondeterministic here: any effect, or an exception. The counter
of the in-memory queue is one step because CPython's interpreter lock makes it
so in practice; a free-threaded build would need a finer model.

**Enforcement.** What the gate promises, without threads, files or crashes: a
ledger of verdicts and overrides that only grows, and outcomes justified by it.
Gate implements it when the audit log has a file, and with its log in memory as
long as the process lives (`KeepsPromise`). The ledger is what the records of the
trail say, without order or hashes: the defects of the chain (section 5) do not
touch this promise. Session and Remote implement it too: a tool in a framework or
behind the wire runs on no less than one called through the gate itself.

**Engine, Evaluation.** `evaluate` and every primitive below it as operators
over a policy, a manifest and a time, and an agent that collects evidence while
time passes. Python's `==` on bools and numbers, timestamps without a zone,
`max` taking the first of equals, and the order of checks in `_evaluate_rule`
are kept; reasons and evidence references are not. The engine is asked in every
state, and the properties relate verdicts before and after a step. `Lint` is
the compiler's linter: `AllowIsProved` is what a policy promises when the
linter says nothing of failing open. It states what each of the six operators asks
of its two sides, a literal or the other key's foremost item, apart from how
the engine gets there (`Spoken`, `Satisfies`).

**Session.** One agent, its framework and the adapter between them. Runs are
numbered as they start; `stage` is where a run is, `seen` the evidence its check
was decided on, `beside` what was under way when it started. `GateSession` takes
no lock, so a check is three steps: `Start` reads the time, `AskGate` copies the
evidence and gets the verdict, `Act` raises or lets the tool run. `Finish` is the
tool's end with the stamp of `observed_at`, `Record` the append that makes it
evidence. The copy and the verdict are one step because the gate works on the
copy alone (LangChain, CrewAI and LlamaIndex differ in where the hook is and in
how a call gets its id, which is `adapter` and `CallId`). The engine is
Engine's, so what a tool returned decides the verdict of the next check.
`PortRaises` covers an unreachable service and a failing audit, before or after
the verdict is recorded. `ReportRefusal` is a framework's choice: nothing
obliges it to report the exception of `enforce` as an error of the tool.

**Replay.** `normalize`, `simulate` and `coverage` as operators over the runs of
Session, for four mappings of a log: observed at the start or at the end, with
and without results, with and without a time zone. They keep no state and are
asked in every state of a session, unfinished runs included. A log is the set of
the runs whose records are in it, and stands in the order of their numbers, so
that `Turn`, the list that `simulate` gathers for one sensitive call, is an
interval of it; `BuildOf` is the builder over such a list.
`ReplayAgreesPerTurn` names the conditions under which a replay agrees with the
live gate; section 5 says what happens without them.

**Remote.** `RemoteGate`, the service, and a function guarded by
`require_clearance`. Requests and answers in flight are `requests` and
`replies`; one that is never delivered is a lost one, and after `Timeout` the
service may still serve. `Gate.check` is one step, `Serve`. Time is in ticks,
`Second` of them to the second, because `Signer.issue` truncates `exp` to whole
seconds while `now` has fractions; service, client and guard have clocks of
their own. Calls may share a request id and are made at any time, after an answer
to another, after none, or beside it: nothing in client or service looks at the id,
and the fallback of `auto_instrument` (`<tool>-call`, `client.py:213`) gives one
to every call of a tool. `KeepsPromise` is what holds then: each call is decided
once and acts on its own verdict. That only one of them acts does not hold
(section 5).

**Authoring.** `policy compile` as a process that drafts, lints, approves and
then writes its file in two halves (truncation, text), against a gate that may
be started at any time and reads its directory file by file. A file may be left
empty (`Kill`), with the start of its text (`TearFile`), or, when two commands
write it at once, with the one's text and the end of the other's. The last two
are `Torn`, a text nobody drafted that may parse: for any action in the proofs,
for one in the run. Policies are texts here: what rules do is Engine's matter.

## 3. Runs

Each passing run takes less than two minutes on two cores.

| Run | Instance | What it shows |
|---|---|---|
| `gate_seq` | 2 checks, 2 resolutions, 1 thread, file and SQLite, all faults, 1 crash; 704k states | parked and overridden actions are in the trail; the chain in memory verifies; the file verifies between failures; queue and trail agree on the last override |
| `gate_threads` | the same calls, 2 threads, disk failures, 1 crash; 1.25M states | no record lost or doubled, the log is a tree, resolutions are whole, overrides follow reviews, and Enforcement is implemented |
| `gate_memory` | 2 checks, 1 resolution, 3 threads, in-memory log and queue, all faults, 1 crash; 103k states | every call ends |
| `evaluation` | manifests of up to 3 of 18 items, 11 policies, 3 instants; 204k states | allow is proved where the linter is silent; evidence, time, order and duplicates move the verdict only as documented |
| `remote` | two calls with one request id, one key, a client a tick ahead, half-second ticks, 1 s to live; 155k states | fail closed, Enforcement is implemented, guards in their window, tokens live their time, no caller waits for ever |
| `authoring` | 3 commands, 3 files, 6 kinds of draft; 54k states | what is in force was shipped or approved, shipped actions stay governed, no file is shadowed |
| `session` | 3 tool runs of 4 tools, 2 at a time, 2 turns, callbacks and wrappers; 440k states | checks see what came before them, evidence is earned, `_pending` keeps only refused runs, and Enforcement is implemented |
| `replay` | 3 tool runs one after another, 2 turns, 2 instants, 4 mappings; 158k states | a replay of a faithful log repeats the live verdicts; coverage accounts for every tool |
| `gate_race`, `gate_restart`, `engine_compare`, `authoring_load` | small | each reaches a state that a document or comment rules out (section 5) |

### Bounds, and why they are enough

- *Two checks and two resolutions.* The gate's steps touch the state of one
  call and the shared tail of the log; every race is between two calls. Two
  approvers of one ticket and a second check in front of it need no more.
- *`Threads`.* 1 to separate failures from races, 2 for races, 3 when even the
  approver competes. Chain and tree are proved for any number.
- *`MaxCrashes = 1`.* A restart changes memory once; what a second would do,
  the first has done. The proofs have no such bound.
- *`MaxItems = 3`, `MaxNow = 2`.* Rules look at one key or at two, and a
  masking, a conflict and a tie each need at most three items; `max_age` is 0
  or 1, so two ticks reach both sides of the limit and the limit itself.
- *`Second = 2`, `Ttl = 1`, `MaxNow = 5`, `MaxUses = 1`.* A token is issued on
  and off a whole second, and time runs past its end from either. Uses only
  accumulate: the property is about each one alone.
- *Three tool runs, two at a time, two turns (`session`).* Two look-ups that
  disagree and the send that needs them; a check beside a look-up and one after
  it; a turn before and a turn after. `MaxNow = 0`, because none of these
  properties speaks of time; both adapters, and a tool with two patterns.
- *One at a time (`replay`).* Agreement is claimed of sequential runs only; the
  replay looks at each log of three runs, with `max_age` 0 and a clock of two
  instants. One adapter, because a replay does not see which it was.
- *Three commands, three files.* Two commands collide on one file while a third
  works on another; one file is missing, one is named for its action, one is
  not, as in `policies/`.

### Fairness

- `gate_memory`: `WF_vars(Advance(c))` for every call. The operating system
  runs each thread of the pool, and there is no lock a thread could starve on.
  Nothing obliges a caller to call, a collaborator to fail, or the process to
  crash. `CallsEnd` follows because no step waits for another call.
- `remote`: `WF_vars(Timeout(c))`, because `httpx.Client` always has a time-out,
  five seconds by default. Nothing makes the service serve or the wire deliver.

Deadlock is checked for Gate and Authoring (`AllEnded` marks the legitimate end
of Gate). It is off where only the bounds stop the model: `evaluation`,
`engine_compare`, `remote`, `session` and `replay`.

## 4. Proofs

All are for any values of the constants that the modules' named assumptions
allow: any calls, threads, failures, crashes, keys, clocks, texts and files.

- **GateProofs.** `LocalsOK` ties each `pc` to what the locals hold there:
  without it a record could be built from a local that is still `None`, so
  types alone are not inductive. `Moves` and `OneMove` say once which steps
  take a call from where to where, and the rest argues from it.
  - `TrailInv` adds, for each point after the append that counts, that the call's
    record is in the trail, and for the queue, that a ticket's verdict is. The
    trail is the file, or the list in memory when there is none, which is the
    default of `Gate`; it is whole until a crash takes the list. From it:
    `ExecutedIsRecorded`, `TicketsAreRecorded`; `OverridesAreEarned` adds the
    order of the records.
  - `OnceInv` (`OneRecordEach`): a call before its append has no record, and any
    two records of one call are the same one; what a call appended is listed
    until a crash. That a list has at most one such place is all the argument
    needs of cardinalities.
  - `Parking` (`ParkedIsQueued`): a parked call, and one about to be, has its
    ticket, and no step takes a ticket out of the durable queue.
  - `Resolving` and `Approving` (`ResolutionsAreWhole`, `OverridesAreAudited`):
    what a resolution has loaded is its ticket, and an approver that a ticket
    names is past its update, with its own effect there, and with its line
    written once it is past that.
    Two hypotheses are needed, and both are properties of the code.
    `DurableQueue`, because the in-memory queue assigns approver and effect one
    after the other on a shared object (a listed hazard). `TrailOutlivesQueue`,
    that there is a file, or no durable queue, or no crash: beside an audit log
    in memory, which is the default of `Gate`, a durable queue keeps a resolution
    whose record a restart has lost.
  - `GateImplementsEnforcement`: if the trail lasts (`TrailLasts`: there is a
    file, or `MaxCrashes = 0`), each step of Gate is one of Enforcement or changes
    neither ledger nor outcomes. The delicate case is the append that reaches the
    trail: a check must not have a record yet, and a resolution's ticket must have
    its review record, both of which `TrailInv` says.
- **ChainProofs.** `Threads = 1` gives that a running call is alone, hence that
  the hash it read is still the last one, hence an intact chain. `Mirror` says
  that before the first failure the file is the list, or the list without the
  record whose line is about to be written; a chain without its last record
  verifies, so the file does (`FileBreaksByFailure`). `Story` ties the tickets
  to the trail: each ticket is of another check, the trail's last override of it
  is what the ticket says (`Told`), and while a resolution is between its
  update and its record the ticket is ahead of the trail by that one
  (`QueueFollowsTrail`). With any number of threads each record extends genesis
  or an earlier record: what a call has read stays in the list until a crash,
  which also loses the call.
- **EvaluationProofs.** Of every verdict: it is one of the rules' effects and no
  pack of fewer rules is stricter; if it is allow, each rule that does not fail
  open is met, by one item for each requirement and, whatever the operator and the
  right side, by the foremost items of its comparison's keys (`AllowsAreProved`). Of two verdicts: the clock only makes
  requirements stale, and fetching again what is stale cures it; conflicts
  stay; evidence never undoes a met requirement; an item that is inferred or no
  newer never sets a compared value. `OrderHardlyMatters` is proved of more
  than orders: two manifests that hold the same items, in any order and number
  (`SameEvidence`), decide a rule alike. A permutation is such a pair because an
  injection of a finite set into itself is onto.
- **EngineProofs.** Lemmas that more than one module needs: a least number, a
  foremost element of a finite set in any order, that `Newest` is the first of
  the newest and the only one, what a pool holds, the length of a sequence
  without repetitions, the strictest of some effects, and that the engine
  answers with an effect or raises.
- **SessionProofs.** `OneMove` says once what the actions on a run do, and the
  rest argues from it. `StageOK` ties a run's stage to its fields and to the
  trail: without it nothing says that a run whose result is recorded was
  permitted. `EvidenceOK` adds that evidence holds each recorded run of the
  turn once. `SightOK` says that what a check saw is how the evidence of its
  session begins; it needs `BesideOK`, that a run which was not under way when
  a later one started never moves again, so nothing it leaves can be missed.
  The refinement maps each run's stage to an outcome; `AskGate` is `Decide`
  because no verdict for a run that is asking is in the trail yet.
- **ReplayProofs.** A replay is a second walk over what the session has walked, so
  the proof has three parts.
  - `LogInv`: the verdict a run got live can be asked for again in every later
    state. It was decided on runs that were recorded, and a recorded run never
    changes; the policy is that of the tool; and the evidence of a session is in
    the order of starts (`InOrder`), except for runs that overlapped.
  - From the hypotheses of `ReplayAgreesPerTurn` (sequential runs, one sensitive
    run to a turn, a faithful log), the runs of `Turn` that yield an item are those
    the check saw, in the same order (`SeenIsSorted`, `TurnOfSession`).
  - Hence the manifests are the same sequence (`SameManifest`), which needs what
    `FlattenSeq` computes: the induction is written out over the least
    counterexample, because the library's induction theorems are out of the
    provers' reach. `FlatSkips` says that leaving out entries that yield nothing
    changes nothing, which is also why unclassified tools change no report
    (`CoverageHolds`).
- **RemoteProofs.** `Held`: every answer in flight, token held and outcome told
  goes back to a recorded verdict for that call. The two windows rest on
  `WholeSecondsFact`, which says that truncation takes less than a second away.
  `RemoteImplementsEnforcement` maps a call without an answer to act on to an
  open check, also after a time-out, because the service may still decide; the
  proof of `KeepsPromise` needs `ServedOnce`, that a request on the wire has no verdict yet.
- **AuthoringProofs.** `DirectoryOK` says what any file may hold and that a
  written text is named for its action; `GovernedOK` and `InForceOK` say what a
  load in progress has achieved, which is what the properties say once the
  listing is empty.

Every invariant and action property that a passing run checks is also proved.
What the proofs assume of the constants is in the named assumptions and stands in
the code: `PoliciesAssumption`, for one, says what the validators of `policy.py`
and `schemas.py` let through, and `SessionAssumption` that an extractor returns a
list.

Proved for more than the runs check: `gate_threads` checks the trail properties
and `KeepsPromise` with a file only, the theorems hold for a log in memory too.

Only model-checked: liveness (`CallsEnd`, `CallsReturn`), because fairness is
about ENABLED, which is out of the prover's reach here.

## 5. Where code and documents disagree

1. *Threads fork the chain* (`gate_race`, `audit.py:75`). Two interleaved
   checks read the same last hash; `verify()` then says that an untouched log
   was tampered with.
2. *A restart breaks the file* (`gate_restart`, `audit.py:59`). A new
   `AuditLog(path)` starts at genesis in the middle of its own file.
3. *A comparison uses evidence the requirements reject* (`engine_compare`,
   `engine.py:194`).
4. *An activated policy may keep the gate from starting* (`authoring_load`,
   `compiler.py:216`), as it does for the shipped refund pack.

Met while reading, and visible in one step or one call, so no run is spent on
them:

- A policy without rules allows its action (`engine.py:261`), where the linter
  (`compiler.py:130`) and the design say it denies.
- A request id is not idempotent: `gate.py:110` decides and audits again where
  `schemas.py:70` calls the id an idempotency key. Over the wire a second call
  with the id of a first, made after a lost answer or after a good one, is decided
  anew, and both callers may be cleared and run their tool: Remote reaches it in
  eight steps (`Send`, `Serve`, `Receive`, `RunTool` of either call).
  `auto_instrument` does so with calls that are not even repetitions, because all
  calls of a tool that bring no id share `<tool>-call` (`client.py:213`). Nor
  can the audit trail tell them apart, which names a check by its request id.
- A policy file cut off in the middle may be a policy with fewer rules, or with
  none, because `rules` has a default (`policy.py:128`) and the write is not
  atomic (`compiler.py:217`): a gate then starts with a pack nobody approved.
  `LiveWasSigned` has to except such texts.
- The LangChain handler records the output of any run that is still in `_pending`
  (`langchain.py:86`), and a run that `enforce` refused is: were an end reported
  for it, the output of a tool that was not cleared would become evidence.
- The linter does not look at `effect_on_stale: allow`: such a policy allows on
  stale evidence and gets no warning about failing open.
- `trace_adapters.py:15` calls the simulation exactly the flow of a live agent.
  A live `GateSession` keeps its evidence; `simulate` drops it at every sensitive call, and
  never counts a sensitive tool's own result as evidence. So with two sensitive
  calls to a turn a replay may block what was allowed, and, where the dropped
  item was the contradicting one, allow what was blocked. It is not the
  conservative estimate it looks like.
- One record without a time zone makes the whole replay raise, not one report.
- A gate with a SQLite queue and no path for its audit log, which `gate.py:76`
  makes the default, forgets overrides at a restart that the queue still shows:
  the ticket names its approver and no record does.
- A sink that raises takes `check` with it (`gate.py:133`, against
  `gate.py:119`).
- A stale first requirement decides a rule whose second one fails harder
  (`engine.py:88`, against `policy.py:108`).
- A command with `--approve` drafts afresh, so it may activate another text
  than the one an earlier run showed (`cli.py:258`).
- `auto_instrument` does not tell the tool of a restrict (`client.py:221`).

## 6. Not modelled, and why

- Telemetry's fields, formatting, YAML and JSON, the loaders and the printing
  of the command line: conversions without state. `Severity`, `PyEqual`,
  the truncation of `exp` and the choice of `observed_at` are the conversions
  that properties depend on, and they are modelled.
- Cryptography: a digest is its preimage, and a token verifies exactly with the
  key it was issued with.
- Aliasing of Python objects: records hold values. A tool that changes its
  payload after the check changes the record in memory (a listed hazard).
- Read-only operations (`get`, `pending`, the audit endpoints).
- The warnings of the linter other than those about failing open and stale
  routes, and the LLM drafter, which may answer with any of the drafts.
- How the adapters wrap a framework's tool objects, and a handler shared by
  requests that run at once: a session is meant for one run (`base.py:127`).
- The end of a tool that was refused: frameworks report the end of tools that ran,
  and so does the model (`Finish`). The handler would take one (section 5).
- The loop of the example agent (`llm_agent.py`), the documents, the site and
  its builder.

## 7. Plan

Built so far, in this order because the gate's own promise comes first: Effects,
AuditLog, Gate, Enforcement, Engine, Evaluation, Remote, Authoring, Session,
Replay, and the proof modules above.

Proved of them: every safety property and action property of section 3, and three
implementations of Enforcement (Gate, Session, Remote), which are also model-checked.

What is left is **Gate and Remote together**: `Serve` as the interleaved steps of
Gate. Both implement Enforcement by themselves, so what remains to be shown is that
the ledger of the one is the ledger of the other.
