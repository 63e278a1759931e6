# A TLA+ verification of crosscheck-agent

crosscheck-agent is an MCP server that lets one assistant ask several language
models. `src/servers/python/crosscheck_server.py` (below: *py*, with line
numbers) is the server and, in the repository's words, "canonical and the source
of truth"; `src/servers/typescript` is a port in its bootstrap phase. The modules
here are translated from *py*.

## 1. The system

One server process reads JSON-RPC requests from standard input and runs one
tool at a time. A tool asks providers over HTTPS, usually from a thread pool
that the main thread waits for. Several servers can run in one checkout, one per
client: they share `.crosscheck/`, which holds the response caches, the session
database and the transcripts.

| Component (py) | State | Operations | Correct when |
|---|---|---|---|
| orchestrate (6533-7308) | plan, node results, pool, time budget, answers | plan, validate, dispatch batches, harvest signals, recombine, commit | prompts show the results that are reported; the plan stays a DAG; `fail_fast` stops; nothing is left behind without a deadline; what answers show is committed; it ends |
| response caches (557-811) | files and their mtimes | lookup, atomic write, LRU eviction | no torn read; bounded; no litter |
| session row, usage log, breakers (1045-1168, 2259-2384) | a row of `sessions`, rows of `usage_log` | load, record, save, log, trip | no double counting; no spend lost that an answer shows; a tripped session spends nothing |
| provider calls (1789-1906, 2062-2207, 2607-2730) | token bucket, attempts, deadlines | ask, acquire, POST, back off, retry | rate limit; bounded attempts; nothing is begun after the deadline; every call ends |
| structured requests (9725-9970) | attempts, errors, tool hops | ask, validate, retry | what an attempt costs is lost only where its draft is replaced |
| worker tools (2763-3172) | hops, observed cost | dispatch fetch or verify, re-prompt | hop budget and cost cap hold; merged usage is complete; the turn ends |
| confer, debate (3547-4040) | rounds, agreement verdicts | ask, judge, stop early, synthesise | the judge cannot pass the cap; an early stop needs agreement; every answer is committed |
| coordinate (4263-4613) | roles, turns, ballots | propose, criticise, synthesise, vote | who runs is allowed; a round votes as a whole |
| claim graph (1193-1262) | `claims`, `claim_links` | add, find similar, link | links join claims of the session; persistence leaves a prefix |
| session memory (1270-1400) | `session_memory` | inject, add, mark stale, clear | what a failed audit's gate has closed on stays closed |
| ballots and weights (1410-1530, 4890-4960) | `provider_stats` | record, weigh | a ballot counts once and moves the weight its way |
| create pipelines (8174-8515) | phase results, retry | confer, orchestrate, review, audit, retry once, write | status fits the result; usage is complete |
| audit (7314-7995) | judges, rubric items | select, judge, coalesce | no unexcused self-grading; the verdict follows the votes |
| delegate (6182-6292) | rows of delegations | count, run, record | quotas |
| fetch (5529-5714) | evidence files, egress rows | allow, budget, download, record | egress budget; pages are recorded; evidence is whole |
| model choice (6395-6500) | the process environment | set, build, restore | a call gets the model it asked for |
| solve (5700-5990) | attempts, last verification | propose, verify, feed back | only what was verified is returned |
| pick (5230-5520) | score objects | two first, stop early, rank | who is spared was agreed; the leader is not dominated, but for rounding |
| router (5050-5225) | none: reads `usage_log` and events | estimate, order | better providers come first, but for rounding |
| config pin (89-213, 9392-9495), dispatcher (10035-10118) | pin file, hashes | scan, pin, accept, gate | lasting drift is seen, nothing else is |
| transcripts (2394-2475, 9496-9517) | files, index | write, index, find the latest | index and files agree; the latest is found |
| bench, triangulate, critique, verify, scoreboard, update check, recall, explain, redaction, pricing | none of their own | | |
| TypeScript port and bridge | pending requests | | parity with *py* |

Interactions: orchestrate, the panels and the pipelines call the provider layer
from pool threads; every provider call goes through the message cache; every
paid tool loads the session first (a tripped breaker answers at once) and
commits it last; the pipelines call other tools as functions.

What is hard to test here: the interleavings of pool threads with the main
thread that gathers their results; exceptions that unwind a pool; a plan that
its own workers extend; a time budget that runs out at any line; several servers
on one database and one cache directory with no lock between them; a kill
between two writes; retries, naps and timeouts against deadlines. PROJECT.json
lists these hazards line by line with the properties aimed at them.

## 2. Modules

| Module | Models | Checked in | Proved in |
|---|---|---|---|
| `DagRun` | what one orchestrate call promises about its nodes (abstract) | implemented by `Orchestrate` | `OrchestrateProofs` |
| `Orchestrate` | `tool_orchestrate` with its pool threads, planner, deadline and commit | `MCOrchestrate` | `OrchestrateProofs` |
| `DiskCache` | both caches, one step per file-system call | `MCFiles` | `FilesProofs` |
| `SessionLedger` | the session row, the usage log and the breaker, one step per statement | `MCSessionLedger`, `MCTables` | `TablesProofs` |
| `ProviderCall` | `_ask_one`, `send`, rate limiter and retries in discrete time | `MCProviderCall`, `MCAnswers` | `ProviderCallProofs` |
| `WorkerTools` | one worker turn: the tool-call loop, plain and structured, with its hop budget, cost cap and usage | `MCWork`, `MCAnswers` | `WorkProofs` |
| `Budget` | what a budget that is read before and charged after promises (abstract) | implemented by `Delegate` and `Egress`, twice each | `TablesProofs` |
| `Delegate` | `tool_delegate` of several servers, one step per statement | `MCTables` | `TablesProofs` |
| `Egress` | `tool_fetch`: the egress ledger and the evidence files, shared by threads | `MCTables` | `TablesProofs` |
| `Confer`, `Debate` | `tool_confer` with its pool; `tool_debate` turn by turn | `MCPanels`, `MCAnswers` | `PanelsProofs` |
| `Coordinate` | `tool_coordinate`: roles, pool of critics, ballots, commit | `MCPanels`, `MCAnswers` | `PanelsProofs` |
| `Claims`, `Memory`, `Ballots` | the tables that coordinate, debate, pick and bench write, shared by servers | `MCTables` | `TablesProofs` |
| `Pipeline` | `_run_create_pipeline` over whole calls of its sub-tools | `MCWork`, `MCAnswers` | `WorkProofs` |
| `Audit` | `tool_audit`: choice of judges, their pool, the rules of aggregation | `MCWork` | `AuditProofs`, `WorkProofs` |
| `Solve` | `tool_solve` attempt by attempt | `MCWork`, `MCAnswers` | `WorkProofs` |
| `Pick` | `tool_pick`: two phases, agreement, ranking | `MCPanels` | `PanelsProofs` |
| `Router` | the smart router and `recommend_panel` | `MCPanels` | `PanelsProofs` |
| `Rounding` | `round(x, 4)`, for the scores of `Pick` and `Router` | with them | `PanelsProofs` |
| `Retarget` | the model of a provider passed through the environment | `MCFiles` | `FilesProofs` |
| `ConfigPin` | the drift scan, `config_pin` and the gate of the dispatcher | `MCFiles` | `FilesProofs` |
| `Transcripts` | transcript files, their index and the search for the latest | `MCFiles` | `FilesProofs` |
| `Panels`, `Work` | one call of a tool of the panel kind, or of the kind that works and audits (composites) | `MCPanels`, `MCWork` | `PanelsProofs`, `WorkProofs` |
| `Tables`, `Files` | servers that share one table, or threads and servers that share files or the environment (composites) | `MCTables`, `MCFiles` | `TablesProofs`, `FilesProofs` |
| `SetProofs` | facts about finite sets, least and greatest numbers and sums | | itself |

`Panels`, `Work`, `Tables`, `Files` and `MCAnswers` put several components into
one specification. The first four have constants, so that theorems can be stated
about them, and `MCPanels`, `MCWork`, `MCTables` and `MCFiles` only give the constants
values; `MCAnswers` fixes them in the module. A server serves one call at a
time, and no statement reads the tables of two components, so the state is a
selector, chosen in `Init` (`tool`, `table` or `place`), and slots `v1`, `v2`, ...
that hold the variables of the component chosen, in the order in which its module
declares them. Each component is an INSTANCE of its module with its constants; an
action is the component's `Next` with the selector and the slots it does not use
unchanged; a property is the component's own under the name it has there. In `Tables`
and `Files` a component comes in several uses: a constant such as `LedgerOf` maps the
name of each use to a record of the component's parameters, the instance has the
use as its parameter (`Ledger(u)!Next`), and `Init` chooses one. So a run checks one
server with much to do and three with little, and a theorem is about all uses
there may be. A property of such a module
says of each component what it must keep of one duty; the conjuncts are properties
stated in the components' own modules:

| Property | Run | Joins |
|---|---|---|
| `AnswersCommitted` | panels | `AnswersCommitted` of `Confer`, `Debate`, `Coordinate`, `Pick` |
| `RoundsWhole` | panels | `PoolJoined` (`Confer`), `RoundsWhole` (`Debate`), `BallotsOfWholeRound`, `DefaultCriticsAreOthers` (`Coordinate`) |
| `EarlyStopIsAgreed` | panels | `WholePanelOrAgreement`, `JudgeWithinCap` (`Confer`), `ShortDebateIsAgreed` (`Debate`), `SkippedIsAgreed` (`Pick`) |
| `BetterComesFirst` | panels | `LeaderIsUndominated`, `LeaderIsScored` (`Pick`), `BetterComesFirst`, `RatesFollowFailures`, `RecommendsEnough` (`Router`) |
| `SpendAccounted` | work | `AnswersCommitted` (`Solve`, `Audit`), `SpendReported` (`WorkerTools`), `ReportCoversRun`, `OvershootIsOneCall` (`Pipeline`) |
| `OnlyVerifiedReturned` | work | `SolvedIsVerified`, `FeedbackIsLatest`, `EveryoneHadHisTurn` (`Solve`), `WrittenIsJudged`, `SuccessIsEarned`, `AuditorsIndependent` (`Pipeline`) |
| `TurnBounded` | work | `ToolsWithinBudget`, `AsksBounded`, `BlockedIsExplained`, `EnforcedCapHolds` (`WorkerTools`) |
| `VotesDecide` | work | `SelfGradingIsExcused`, `StrictIsUnanimous`, `PassIsVotedFor`, `BetterIsNoWorse`, `DisputeHasSpread` (`Audit`) |
| `LinksSound` | tables | `SimilarAreLinked`, `LinksWithinSession`, `LinksPointBack`, `OnlyLastUnlinked` (`Claims`) |
| `MemoryGate` | tables | `StaleStep`, `InjectStep`, `FreshIsUntainted` (`Memory`) |
| `BallotsCounted` | tables | `BallotsCounted`, `WeightsStep` (`Ballots`) |
| `LedgersAreTrue` | tables | `RowIsBacked`, `LogIsComplete`, with one server `RowIsCumulative`, `TrippedStep` (`SessionLedger`), `ChargedForWork` (`Delegate`), `LedgerIsBacked`, `OnlyWasteEscapes`, `EvidenceAtRest` (`Egress`) |
| `BudgetsHold` | tables | `Budget` implemented four times, `QuotaOvershoot` (`Delegate`), `BytesOvershoot`, `HostsOvershoot` (`Egress`) |
| `DriftIsSeen` | files | `SteadyDriftIsSeen`, `ReportIsJustified`, `RepinSettles` (`ConfigPin`) |
| `LatestIsAudited` | files | `LatestIsAudited`, `LoadFindsText`, `OnlyTwinsOverwrite` (`Transcripts`) |
| `Terminates` | answers | `Terminates` of each tool but orchestrate, `TurnEnds` (`WorkerTools`), `Answered` (`ProviderCall`) |

PROJECT.json lists a mutant of the code for each conjunct that could be broken
alone.

Modules compose by what they leave to one another. A worker turn is one answer in
`Confer`, `Coordinate` and `Orchestrate` (its inside is `WorkerTools`); one
provider call is one step of `WorkerTools` (its inside is `ProviderCall`); a
sub-tool is one step of `Pipeline`; what `Coordinate` persists after its commit is
in `Claims`, `Memory` and `Ballots`. Two abstract specifications are shown to be
implemented: `DagRun` by `Orchestrate`, and `Budget` by the session and requester
quotas of `Delegate` and by the byte and host caps of `Egress`.

### Orchestrate

The main thread is `pc`; a node's pool thread is `thread[n]`.

- *Entry and planning.* `Refuse`, `AcceptDag`, `AcceptGoal`; the moderator's
  draft and its one retry (`PlanDrafted`, `DraftUnusable`, `PlannerFails`);
  `RejectDag`, `TripDagBreaker` and `DryRun` are the early returns and `Prepare`
  builds `nodes_by_id` and the sorter. `Dags` holds well-formed and malformed
  plans, so `ValidDag` has something to reject. `DeeperThan` says the depth
  breaker without the memoised recursion of the code.
- *Walk.* `Dispatch` takes the ready nodes, skips those whose upstream failed
  under `fail_fast` and queues the rest; `SettleNode` is one turn of the loop
  over `ex.map`; `BatchEnds` is the `fail_fast` tail. `StartNode` and
  `ReturnNode` are `_run_node` on a pool thread, at most `PoolSize` at once.
- *Failure.* A node that raises makes `ex.map` raise; queued nodes are
  cancelled, and `Unwind` waits for those in flight, as leaving the `with` of
  the pool does.
- *Reactive phase.* `AcceptSignal` is an accepted entry of `_consume_signals`;
  rejected ones change nothing but a report. `SettleReactive` takes a whole
  batch, because the code consumes `list(ex.map(...))`.
- *End.* `Recombine`, `Synthesize`, `Commit`.

`paid` holds the provider calls that were charged for, whether or not the answer
is kept, and `lost` those of them whose usage no answer carries. There are two ways
to lose it below every tool. `_ask_one` stores a response in the cache inside its
`try` (2675); when that raises, the response becomes an error with an empty usage
(2713-2729), as a body that cannot be read to its end does. And
`_request_structured` keeps its last draft only (9771). So any error may have been
charged for: `ReturnNode`, `DraftUnusable`, `PlannerFails` and `Synthesize` use
`ChargeUnseen` for it. `SpendCommitted` says that what is not lost is committed, and
that whoever reads the answer can tell where something may be: a node reported
as failed, a plan drafted twice, the recombination.

A signal whose `add_nodes` (6731) or `depends_on` (7129) is, say, a number raises
out of the tool: `Fail` is enabled while signals are consumed.

`seen` is a history variable: what a node's prompt said of its upstream.
A batch of one node runs on the main thread in the code and on a pool of one in
the model, which has the same steps.

### DiskCache

A file is named by a key, or by the thread whose temporary file it is:
`rglob("*.json")` finds both, so an eviction can take another writer's temporary
file. `mtime` is the sequence of the files there are, oldest first, which is all
that LRU eviction looks at. The message cache is `MaxBytes = 0`. A crashed thread
stays dead and its temporary file stays.

Abstracted: every file has size 1; the stats of all listed files are one step; a
`stat` of a listed file that went raises there, as it does in the code.

### SessionLedger

A tool call is `Begin`, `Select` (with the breaker), `Insert` for a new session,
any number of `Answer`, then `Save` and `Log`. `Crash` may come between any two
statements; the server that is started again is the same process. `Abandon`
stands for the returns and exceptions that skip the commit. `tokens` stands for
tokens and cost, the totals that answers add to and breakers cap; `wall_ms`, to
which a call adds its own duration, is left out. Rows of `log_usage` are committed
one by one; what an interrupted insertion leaves is over-approximated by any
number of rows and tokens up to the call's. An answer's usage may show less than what
it was billed, for the two reasons above; `unseen` is the difference, and
`LogIsComplete` says that the log lacks nothing else.

### ProviderCall

Time goes in quarter seconds, the rate limiter's nap, and a tick needs every thread
to sleep, to wait for the network or to be done: computing takes no time. A length
that is not a multiple of a tick is rounded (the 0.05 s the rate limiter adds to a
wait is dropped). The bucket holds fractions of a
token (`Unit` to a token). `Acquire` is one turn of the loop under the bucket's
lock, `Post` the check before an attempt, `Retry` the backoff. `Resend` is the
`except TypeError` of `_ask_one`, which also catches a TypeError raised while a
response is unpacked.

The timeout of `urlopen` (1816) is one of each socket operation: connecting, the
handshake, every read. `exchange` counts the operations of a request and keeps their
timeout; `Receive` ends one and begins the next with the whole timeout, up to
`MaxOps` of them, which nothing in the code bounds. A call therefore has no
deadline that it meets by a constant. What holds, and `OverrunBounded` says it, is
that nothing is begun after the deadline of the `send`, and that the exchange in
flight runs on by half a second and a time limit for each operation after its first.

### WorkerTools

One turn, plain (`_ask_one_with_tools`) or structured
(`_request_structured_with_tools`). `phase` is the point of the loop; a step is an
answer or what the loop makes of it: a tool call, a broken tag, a refusal over
the cap or the hop budget, a validation retry. `observed` is the usage the cap
looks at, which the code merges in one place and drops in another. `billed` and
`lost` are history: what the turn was charged, and what of it `observed` misses, a
charged error (`_ask_one`) or a draft replaced where no tools are open (`Replaced`).

### Budget, Delegate, Egress

`Budget` has actors inside and an amount spent: nobody enters once the recorded
use has reached the cap, and those inside add at most `MaxUse` each. Its
`Overshoot` is what follows. `Delegate` maps a session's, or a requester's,
delegations to it with 1 per use; `Egress` maps bytes with `MaxBytes` per use and
hosts with 1. In both, the count and the record are different SQL statements with
the delegated call or the download between them.

A transfer may return no page: it grows past `max_bytes` (`Abort`), it is an error page,
whose body is read to its end without a cap (`HttpError`, 5689), or it breaks off
(`Break`, 5690-5694). The code records none of their bytes; `wasted` counts them,
and `OnlyWasteEscapes` says that the ledger lacks no others.

`Egress` also has the evidence files: `write_bytes` and `write_text` truncate and
then fill, body and meta file in turn, so that two threads and a kill can leave
any mixture; `EvidenceAtRest` says what is left when they are done.

### Confer and Debate

`Confer` has a thread for each panelist, as `_ask_many_parallel` does; `Gather`
leaves the pool when all have ended, and raises what the first one raised. The
judge is asked after two clean answers if there is time and the breaker would let
the session with these answers pass. `Debate` is one thread; `turns` holds each
round's, `Elapse` may come between any two calls. `paid`, `logged` and `lost`
compare what was charged with what the commit records. A turn, a verdict, a
synthesis or an extraction comes with what its answer reports and what it does not
(`Spend`): the charge of an error, or a draft that a structured retry replaces. The
panel's `AnswersCommitted` says that the commit has all that was reported, and that
nothing is lost without a failure or a structured request. The judge's and the
extractor's requests may raise (`Raise`): the cache lookup at 2632 is in no `try`.

### Coordinate, Claims, Memory, Ballots

`Coordinate` chooses roles as `tool_coordinate` does: by name or by default, the
proposer and the synthesiser among all registered providers, critics from the
panel. `Claims` takes each `_claim_add`, `_claim_dedupe` and `_claim_link` as
separate statements of servers that share the database; similarity is any
symmetric relation of texts. In `Memory` every row carries, as history, the rows
that the text it was made from may go back to, so that a fresh row made of a stale
one can be told. An audit that fails and the UPDATE that marks the rows stale are two
steps, `AuditFails` and `CloseGate`; the second may raise, which the code swallows
(7971), or its server dies (`GateFails`). `open` is history: the rows contradicted
that no gate has reached since. What `MemoryGate` promises holds for all others; a
gate that closes later, of any audit, reaches what an earlier one missed.
`Ballots` counts in two statements, as `_record_ballot` does, and
computes the three weights that the code computes from the counts.

### Pipeline

Each sub-tool is one step with its own breaker check and commit; its result is any
that it may return, or an exception. `WrittenIsJudged` and `SuccessIsEarned` relate
the status and the file to the attempt they are about; `ReportCoversRun` and
`OvershootIsOneCall` relate the usage block to what the sub-tools report; what these
lose is in their own modules. `Retries` has both conditions of the one retry, cheap
mode and `_no_retry` (8362).

### Audit

The control part is the choice of judges and the pool. The rules of
`_coalesce_audit_items` are operators on the judges' grades (scores in tenths;
a grade may lack an item, or its vote), and its properties are stated on the
votes: a failed majority never passes, strict mode is unanimity, raising a
score or a vote never makes a verdict worse. A judge may be asked twice (`Redraft`);
`AnswersCommitted` is about the last answer of each, all that the code holds.

### Solve, Pick, Router

`Solve` is one attempt after another with every answer of the verifier, among them
an exception. `Pick` has both phases of `tool_pick` and the ranking as an operator
on score objects that may be partial. The weighted score of an option is rounded
(5447) before the rows are sorted (5452): an option that is better by less than the
rounding shows may come second, by its name.
`Router` takes every history of a few calls and asks for the order of the
recommended providers; only what each call leaves in `usage_log` and in the
event log is state. Rates and scores are fractions, rounded where the code rounds
them: the error rate (5126) and the score (5146), before the sort. `Rounding` has
Python's rule, to the nearest and a half to the even, with the places as the constant
`Grain` (10000 in the code); the miss of a double is left out. The cold start counts
the calls of all providers with rows (5163), those out of the panel too.

### Retarget

Threads set a variable, build the provider, and restore the variable. History:
whether a call overlapped another's.

### ConfigPin

A scan reads the pin file, then asks for each file whether it exists, then hashes
each, then asks whether the pin file exists; an editor and another server may act
between any two. The gate scans once, its refusal again; `set` and `accept_drift`
scan, and hash once more for what they write. A pin file may be missing, not an
object, or an object with malformed pins; the last raises, in the gate outside
the `try` of `handle`, so that the server ends. `watch` is history: what had
drifted at every moment of a call, and at some moment.

### Transcripts

A transcript is named after the millisecond and the tool. Opening the file empties
it; the text and the index row come later. The reader lists the directory, probes
each file, chooses by modification time and reads the chosen file again. Parsing
and the `stat` that follows it are one step: nothing removes transcripts.

## 3. Runs

| Run | Instance | Shows |
|---|---|---|
| `orchestrate_safe` | 3 nodes, all plans over them, pool of 2, 1 reactive slot, breakers off | nine properties of a call, among them that it implements `DagRun` |
| `orchestrate_live` | 2 plan nodes and 1 other, 2 reactive slots, breakers at 2 nodes and depth 1 | every call ends; a plan that a breaker refuses is refused |
| `calls_safe` | 2 callers, limit 1 s, 2 attempts, 2 socket operations in an exchange | rate, attempts, what runs on after a deadline |
| `panels` | `Confer`: 3 providers, cap 2, costs to 2. `Debate`: panel of 3, 2 rounds, 1 token lost at most. `Coordinate`: 3 providers, every choice of roles. `Pick`: 3 providers, 2 options, 2 criteria. `Router`: 3 providers, 4 calls; rounding to tenths | what answers report is committed, and what is not was an error's or a replaced draft's; the pool is joined; rounds are whole; who stops early agreed; the judge is within the cap; critics and ballots; better options and providers come first |
| `work` | `Solve`: 3 providers, 4 attempts. `Pipeline`: 3 providers, cap 4, costs to 2. `WorkerTools`: 2 hops, 1 retry, cap 2, costs to 3, every cap mode. `Audit`: 4 providers, 3 judges, 1 item, 4 scores; and 2 judges, 2 items, 3 scores | only what was verified or judged is returned; feedback, turns, auditors and usage; hop budget, cap and the bound on asks; the rules of aggregation |
| `tables` | `Claims`: 2 servers, 1 text, 1 kind and 2 claims each; 1 server, 2 sessions, 2 texts; one synthesis of 3 claims. `Memory`: 2 servers, 3 rows of 1 kind; 1 server, 3 rows of 2 kinds; 2 rows in a prompt; gates that fail. `Ballots`: 2 providers, 2 servers, 2 calls. `SessionLedger`: 3 servers, 3 calls, 1 answer each, breaker at 2; 1 server, 3 calls, breaker at 3. `Delegate`: 2 servers, 2 per session, 1 per requester, 4 delegations. `Egress`: 2 threads, 2 hosts, 3 fetches, failing statements; 3 hosts and caps of 1 | similar claims are linked, links stay in a session and point back; stale rows stay stale, and what a gate has closed on is not injected; ballots count once; the session row is backed and the log lacks only what no answer shows; one server's row accumulates and its breaker holds; quotas and egress caps implement `Budget`; ledger and evidence of fetches |
| `files` | `Retarget`: 2 threads, 3 models, 2 calls each. `ConfigPin`: 1 server, 2 files, 3 contents, 2 changes, 2 calls; 2 servers that pin, 1 change. `Transcripts`: 2 servers, 2 sessions, 3 transcripts, 2 moments, 1 death. `DiskCache`: 3 threads, 2 keys, entry cap 1, 1 operation each; 2 threads, 3 keys, byte cap 2 below entry cap 3, 2 operations each | a call alone gets its model; lasting drift is seen and nothing else, and pinning settles it; index and files agree, the latest is found; lookups are whole, puts leave no litter and racing evictions keep both caps |
| `answers` | `ProviderCall`: 2 callers, limit 0.75 s, 2 attempts, 2 socket operations. `Confer`, `Coordinate`, `Solve`, `Pipeline`: 2 providers. `Debate`: panel of 2, 2 rounds. `WorkerTools`: 2 hops, 1 retry | every call ends, every request is answered |
| `drafts_unlogged` | 1 plan node and 1 other | *violated* (`EveryChargeLogged`): a draft that is asked for again is in no log |
| `ledger_lost` | 2 servers | *violated*: one server's save removes the other's |
| `retarget_model` | 2 threads, 3 models, 2 calls each | *violated*: a thread is given another's model |

Why the bounds are enough. Three nodes give chains, forks, joins and cycles, and
a node of any of the four results next to one running and one waiting; a pool of
two has a node in flight, one starting and one queued. Two reactive slots let a
reactive node ask for another. Two writers and an evictor, or two evictors and a
reader, are the cache's races. Three servers let a stale snapshot be overwritten
twice. Two attempts have a backoff between them, and a call that is sent again four;
a bucket of one and a quarter tokens that gains one a second makes two callers wait
for each other. Two socket operations have one that is begun after the deadline.
Rounding to tenths makes scores tie that are not equal, as four places do for
closer ones. A panel of three has the two that are asked first and one that may be
spared, or a proposer, a critic and a synthesiser who are different, and any two
who are one. Two rounds have one that ends the debate and one that is cut. Caps
are at what two answers can cost, so that they are reached by one answer, by two
and not at all. Two servers suffice where a race is between two statements; the
second session is there to be mixed up. Three judges have a majority, a tie when
one of them fails, and a dissenter; the scores lie on both sides of every
threshold of the rules. Four attempts bring the turn back to the first provider.
Four calls are past the cold start threshold for one provider and below it for
another. Two moments give transcripts of one name, and one that is later. Two files make a mixed snapshot; two changes alter one of them there
and back, or each once. The proofs remove the bounds for the safety
properties named in section 5.

The violated runs each check one promise of the README or a docstring that the code
does not keep, two of them because of a race; PROJECT.json quotes the
line and the code. Section 4 has the others. The models describe the code.

Deadlock is checked in every run. `Stopped` (or `AllDone`) is the explicit
stuttering of a call, or a set of callers, that is over. `MCPanels` has
`recommend_panel`, which may be asked after any history. In `Tables` and `Files`
`AtRest` is that of servers which are always ready for another call and stop only
because the number of calls, rows or transcripts is bounded: they must be idle (a
server that a malformed pin file ended is dead; an audit may wait for room for its
report).

### Fairness

`Orchestrate`: weak fairness of the main thread and of each pool thread. The main
thread waits for its pool only; a pool thread comes back because retries stop at a
deadline, which `ProviderCall` shows, every socket operation has a timeout, and an
exchange is assumed to take finitely many. The code does not guarantee the last: a
provider that keeps sending a byte before each read times out holds its thread.
The time budget (`Elapse`) is not fair: a call ends also if it never runs out.

`ProviderCall`: weak fairness of the clock and of each caller. A thread whose
sleep is over is scheduled; an operation in flight ends at its timeout at the
latest, and an exchange has `MaxOps` of them at most. Nothing is assumed about who gets a token: `acquire` gives up by itself.

`WorkerTools`, `Debate`, `Pipeline`, `Solve`: weak fairness of the one thread, each
of whose calls returns (`ProviderCall`, or the tool below) or raises. `Confer` and
`Coordinate`: weak fairness of the main thread, which waits for its pool only, and
of each pool thread. Time running out (`Elapse`) is nowhere fair. The verifier of
`Solve` is assumed to come back; where it may not is the hazard at 5769. No
fairness is assumed of servers that share a database or a directory: their
properties are safety properties.

## 4. Where documents and code differ

Each row is a property of the module named, stated there from the document and found
violated by TLC on a small instance like that of its runs in section 3; it is the
property of no run, so it is not listed in PROJECT.json. To see the trace, give TLC
the module with a cfg that has `SPECIFICATION Spec` and the property as INVARIANT.

| Property | The document | The code |
|---|---|---|
| `Orchestrate`: `GrownDagWithinBreakers` | `README.md:339` new nodes respect the depth and breadth breakers | `_check_dag_breakers` is called once, before the walk (6852); `_consume_signals` does not (7131-7150) |
| `ProviderCall`: `RunEndsByDeadline` | `README.md:498` `max_time_seconds` is enforced per run | each `send` has a deadline of its own (2077, 2127, 2179) |
| `Egress`: `EachFetchLedgered` | `README.md:346` each fetch ledgers its bytes | a response past `max_bytes` is dropped unrecorded (5681-5683); so is the body of an error page, read without a cap (5689), and a transfer that breaks off (5690-5694) |
| `Egress`: `SnapshotIsWhole` | `README.md:61` snapshots keyed by digest are served on repeat | `write_bytes` truncates a snapshot in place that a lookup may be serving (5699) |
| `WorkerTools`: `ExceededIsWarned` | py:3155 re-check so that warn mode emits when the re-prompt passes the cap | the re-check at 3157 comes before the re-prompt |
| `WorkerTools`: `OnlyListedRun` | `tools.schema.json:270` workers may request the listed tools | the dispatch knows the global allowlist only (2906) |
| `Confer`: `TrippedSkipsPhaseTwo` | py:3633 a breaker that would trip skips the judge and phase 2 | it skips the judge; the else branch asks phase 2 (3662) |
| `Debate`: `JudgeWithinCap` | `README.md:320` the check projects the cost in flight | only this round's answers are projected (3879-3888) |
| `Memory`: `AuditsClose` | py:1272 on a failed audit the server marks every entry of the session stale | the UPDATE is best-effort (7971): one that fails leaves them fresh |
| `Memory`: `FreshIsUntainted`, two servers | py:7955 a failed audit invalidates the session's memory | a call in flight adds rows made of stale ones afterwards (4504-4534) |
| `Pipeline`: `ReportMatchesSession` | py:8443 the usage block matches the session totals | the second audit replaces the first one's envelope (8388) |
| `Pipeline`: `SuccessIsWritten` | py:8418 success: write | a failed recombination has no error and no final: success, no file, no warning (8424) |
| `Retarget`: `EnvRestored` | py:6404 we don't mutate state | the second of two overlapping calls restores the first one's model (6460, 6468) |
| `Ballots`: `BoardIsTriangulate` | `tools.schema.json:1348` the win rate that triangulate uses | without a win or a loss 1.0 (4944) against 0.5 (1487) |
| `Audit`: `OnlyAllowedSelfAudits` | `README.md:464` no auditor is an error, self-audit never silent | an exhausted pool falls back to the panel (7454-7456, 7697-7699) |
| `Audit`: `CoalescedIsOutside` | py:7403 coalesced: all outside the producing panel | `allow_self_audit` empties the exclusions under that mode (7688) |
| `Solve`: `EveryCallLogged` | `README.md:113` one row per provider call | the temporary directory of a verification may raise out of the loop (5767) |
| `Coordinate`: `OnlyAllowedRun` | `README.md:503` the allowlist is the only set of providers that may run | roles are looked up in `ALL_PROVIDERS`, the synthesizer is by default the configured moderator (4287-4298) |
| `Pick`: `SkippedIffAgreed` | `tools.schema.json:653` skip the rest iff the two agree | a tripped breaker leaves `early_stopped` false and asks the rest (5380) |
| `Pick`: `AgreedRanksFirst` | `README.md:62` the two agree on the top option | the agreement is on overall scores, the ranking on weighted criteria (5338, 5452) |
| `Router`: `RateIsFailureShare` | `README.md:304` reliability is 1 - error rate | a failure counts as a row and as an error (5125) |
| `Router`: `TrustedFirst` | `README.md:309` the most trusted judges run first | a provider without rows has error rate 0 (1133, 5203) |
| `ConfigPin`: `AcceptNeedsDrift` | py:9399 accept_drift only succeeds when drift is present | the drift is read before the files are hashed again (9412, 9449) |
| `Transcripts`: `AuditsAnOutput` | py:7661 audit the session's latest output | the latest transcript may be an audit's report (7664, 7883) |

Others are stated as no property, because a look at both lines settles them:

- `schema/tools.schema.json:954` lists no `audit_inconclusive` among the statuses
  of create; 571 calls solve's `patch` present only when solved, the key is there
  with null; 1223 lets confer write session memory, which it only reads.
- `README.md:322-324` calls the breakers `session_breakers`, the code
  `circuit_breakers`; 346 calls the byte cap `fetch.max_session_bytes`, the code
  `max_bytes_per_session`; 306 names `prefer_provider` and `avoid_provider`, which
  recommend_panel does not take; 367 says extracted claims are stored, they are not;
  500 lists timeouts among what is retried, one that is raised while a body is read
  is not.
- A paid draft is in no log either when the call ends before its commit: the returns at
  6830, 6849, 6866 and 6891 of orchestrate.
- `plan_only` says "no LLM calls were made" also after a goal was planned (6704).
- `create_cheap` with `cheap_mode: false` retries like create. A pipeline's success
  looks at the audit's score and not at `passed`.
- The rules of an audit ask for "a majority" (7501) and accept half. An audit that
  is not strict can pass with `audit_process_failure`. `auditor` is ignored when
  judges are coalesced.
- A failed call lowers a provider's average cost in the router, and may so raise its
  score; the order of two providers can depend on a third that is excluded.
- pick writes a consensus claim also when no provider scored. A pinned file that was
  deleted loses its pin when another file's drift is accepted (9449).

## 5. Proofs

The proofs hold for all constants that satisfy the ASSUME of the module. There
are no assumptions on the sizes of the sets of nodes, threads, keys, servers,
callers or providers, but that those over which something is summed or counted are
finite, that there is a provider to vote on and a server that delegates, and that a
debate has two providers at least, as the code asks.

- `OrchestrateProofs`. `Invariance` proves an inductive invariant that adds to the
  checked properties what they need: which threads can be busy in which phase of
  the main thread, that unvalidated plans never reach the walk, that the
  dependencies of a node that was started have ended, that a reactive node is
  fresh until its batch settles, and where each paid call that is not lost has its
  answer on the way to the ledger. `PlanStaysDag` follows because nothing in the plan depends
  on a new node: a set of nodes that contains others beside it has the first of
  those others, and the set of the new node alone has it, for its dependencies
  were in the plan before. From the invariant come
  `TypeCorrect`, `PromptsAreFaithful`, `FailFastIsStrict`, `PlanRemainsDag`,
  `NoNodeLeftBehind`, `CompletedCallsCommitSpend`, `PoolIsDrained`, the action
  properties `ResultsAreFinal` and `FailFastStops`, and `Implements`: initial
  states map to initial states of `DagRun`, and every action to one of its steps
  or a stutter.
- `ProviderCallProofs`. `TypeCorrect` and three bounds. `RateIsLimited` strengthens
  the rate limit with the tokens still in the bucket: for every past admission, what
  was admitted since, plus what is left, is within the capacity and the refill since.
  `AttemptsAreBounded` ties `posts` to `attempt`; `OverrunIsBounded` bounds `until`
  in flight by the deadline of the `send` and the operations so far, each of which adds
  the timeout that the POST was given.
- `WorkProofs` proves the four invariants of `Work`, and the action property in
  `TurnBounded`, from an inductive invariant for each tool, stated in its module:
  `AttemptsInv` of `Solve` (attempt by attempt, who proposed and what he was told),
  `PipelineInv` of `Pipeline` (what each envelope of the current stage cost, and for
  which attempt it is), `TurnInv` of `WorkerTools` (each answer but the first and
  the one after a refusal was paid for with a hop or a retry), `AuditInv` of `Audit`.
- `AuditProofs` has the rules of `_coalesce_audit_items`. That a better grade never
  hurts (`BetterHelps`) rests on the order statistics: the k-th smallest of a
  family of numbers rises when the numbers do, so medians do, and so does the
  overall score. That a dispute has a spread rests on the chord of the square
  function: scores that are close to one another have a small deviation.
- `PanelsProofs` proves all properties of the run `panels`. `ConferInv`, `DebateInv`,
  `CoordinateInv` and `PickInv` say, for each place in the code, who has been asked,
  where what was reported has its record, and from where what is lost may come. `BetterComesFirst` is about arithmetic and
  orders, not about steps: rounding is monotone (`Nearest` takes no two numbers past
  one another), and the weighted mean of a sum rises with its parts (`Pick`);
  in `Router` a recursive gcd is defined for all numbers and divides both, a
  fraction in lowest terms is the fraction it came from, sums and differences of
  fractions follow their parts, so that what dominates scores no lower, rounded or not;
  and the first
  n of a linear order on a finite set are n (`RecommendsEnough`).
- `FilesProofs` proves all properties of the run `files`, for any threads, servers and
  files and any number of uses.
  `Retarget`: while no two calls have overlapped one thread at most is at work, and
  the variable is what that thread's place in the code says it is.
  `ConfigPin`: an invariant for each server's scan. As long as nobody has written the
  pin file, a file that has drifted all through the call is still to be listed or
  hashed, or already among the drift found (`SteadyDriftIsSeen`); what is among the
  drift has drifted at some moment of the call (`ReportIsJustified`); and what a server
  hashes to pin again is what the file is, or the file was touched since
  (`RepinSettles`).
  `Transcripts`: as long as no other transcript has taken its name, a transcript that
  was complete when a scan began is complete and unmodified still, and the scan has
  found it or will come to it. A server that dies leaves a file without a whole
  text, which no scan takes.
  `DiskCache`: a key's file always holds a complete text of that key, and a
  temporary file exists only while its thread is between `mkstemp` and `replace`
  or dead (`ReadsAreWhole`, `NothingLeftBehind`). `BoundedAtRest` itself is not
  inductive: while puts are under way the directory may be over its caps. What is:
  unless something went wrong, the directory is within its caps, or
  some thread has its listing still to come, or is evicting by a listing that has
  every file there is and counts no fewer (`Attended`). A thread that writes is of
  the second kind, so each file that comes is answered for (`BoundsHold`).
- `TablesProofs` proves all properties of the run `tables`, for any servers, sessions,
  caps and quotas.
  `Claims` (`GraphsAreSound`): of two similar claims in one session the later one is
  linked to the earlier, is in `missed`, or is the one its server is at and the earlier
  one is not yet lost (`Covered`); a claim without its link is the last of its call
  (`Dangling`). With one server the claim a server is at is the last there is, so
  links point back.
  `Memory` (`MemoryIsGated`): a prompt is read and its answer stored in two
  statements, so with several servers a fresh row may come from one that was contradicted
  in between. A fresh row that was contradicted is in `open`, because each gate that
  closes turns every fresh row and empties it. With one server what a call was given is as good as what is fresh
  (`Untainted`), because only that server could have marked it.
  `Ballots` (`BallotsAreCounted`): for each provider and vote, what is counted, what was
  lost and what all servers have still to record make up what was cast; the sum over
  the servers moves with one of them. That weights follow votes is monotony of
  fractions.
  `SessionLedger` (`LedgersTrue`): the row, and each snapshot plus what its call has
  spent, stay within what was paid (`Backed`). As long as nothing goes wrong, what was
  paid is what is logged, what no answer showed (`unseen`) and the sum of what the
  calls that are under way owe (`Balanced`). With one server the snapshot is the row until it saves (`Unshared`).
  `Delegate` (`LedgersTrue`, `BudgetsAreKept`): the rows of a session and the calls that
  have returned without a row are the calls that ran. A server at work on a call, or on
  its row, has counted less than the quota, so it is among those inside, and the row it
  adds is the use with which it leaves: every step of a server is a step, or a stutter,
  of `Budget` for each session and each requester.
  `Egress` (`LedgersTrue`, `BudgetsAreKept`): bytes in the ledger, wasted, and in the
  hands of the threads make up the bytes received (`Accounted`), where the ledger is a
  sum over a growing set of hosts and the hands a sum over threads; a body is there
  before the meta file that names it (`BodiesFirst`).
  `BudgetsAreKept` is the refinement: each of the four budgets starts as `Budget` does,
  every step of `Tables` maps to a step or a stutter of it, and `Overshoot` is kept
  because a set of actors inside that loses one loses what that one may add.
- `SetProofs` has what these need beyond the library: a nonempty set of numbers has
  a least one; a budget's overshoot survives its steps (`OvershootKept`); the sum of a
  function over a finite set exists, and changes by what one value changes. The library's induction theorems cannot be used (they take an
  operator as a parameter), so an induction here is a least counterexample: the
  smallest finite set, or number, for which the claim fails, and one element less.

Operators of the community modules that come in through an INSTANCE are different
symbols to the provers from those that are extended. Lemmas like `ConferOperators`
say that they are equal, by their definitions. Every one of the inductive
invariants named here was first an invariant of a TLC run on the instance of
section 3. `TypeOK` of `Orchestrate` and of `ProviderCall` is in no run: it is proved.

Only model-checked: liveness under fairness (`Terminates` of both runs), which is out
of the prover's reach. Every other property of a passing run is stated by a
theorem. The three violated properties are false, so nothing is proved of them beyond
what holds in their place: `RowIsCumulative` with one server, the model that was asked
for without an overlap, and `SpendCommitted` for what is not lost.

## 6. Not modelled

- Prompts, prices, redaction, canaries and formats are data that no property
  distinguishes. `recall` and `explain` read; the update check changes nothing
  that other tools read. Document ingestion builds prompt text.
- `bench`, `triangulate`, `review`, `plan`, `critique` and `verify` call a panel or
  a structured request once and return; their ballots and weights are in `Ballots`.
- The TypeScript port follows *py* by parity fixtures. Its bridge is three awaits on
  a package's MCP client, which keeps the request ids and the timeouts and is not
  in the repository.
- The operating system's part of a verification: limits and process groups. A
  timeout kills the verifier's own process; one it started keeps the pipe open.
- An `unlink` that fails, of a temporary file after a failed write or of an entry that
  is evicted: `NoLitter` and `BoundedAtRest` are about directories in which a file can
  be removed.
- The miss of floating point: sums of scores are exact before they are rounded.
- Scripts and tests were read as documentation of the server.

## 7. Plan

*Done*: the modules of section 2, the runs of section 3, and a proof of every safety
property and every refinement they check. What could come next, should the code
grow there:

1. The TypeScript port, once it has state of its own beyond its bridge.
2. A scenario across components: one `coordinate` call with its claims, memory rows
   and ballots in one state space, for what a kill between them leaves. Today each
   is checked against any other server's writes, but not against each other, which no
   statement of *py* relates.
