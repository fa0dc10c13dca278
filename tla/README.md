# TLA+ models of the vLLM source gateway

The gateway is a thin asyncio/FastAPI proxy in front of several vLLM servers. It
attributes a request to a department, admits or refuses it, picks an upstream,
relays the answer (also as a stream), and accounts for tokens. This directory
holds TLA+ models of that behaviour, the TLC runs that check them on small
instances, and TLAPS proofs of almost all their safety properties for all instances.

Paths below are relative to `src/src/vllm_source_gateway/` unless they start
with `src/`.

## 1. The system

### Components, their state and their operations

| component | state | operations |
|---|---|---|
| Admission controller, `services/admission_control.py` | active requests per model and per (department, model), in-flight gauge, token events and running total per key, retry events and cooldown per key | `check_request_shape`, `acquire`, `release`, `record_tokens`, `record_retry_event` |
| Routing registry, `routing.py` | verdict and probe stamps per upstream, round-robin position per model | `select_upstream`, `set_upstream_health`, `list_models`, `health_snapshots` |
| Upstream health monitor, `services/upstream_health.py` | its task, the probes under way | `start`, `refresh_all`, `_run`, `_probe_upstream`, `stop` |
| Proxy path, `services/proxy.py` | per request: lease, upstreams attempted, usage seen, parser state, how the stream ended | `proxy_json_endpoint`, `_proxy_streaming_response`, `_stream_bytes` |
| Stream usage parser, `_consume_sse_events` in `services/proxy.py` | decode buffer, latest usage | one call per chunk and one at the end |
| Endpoint routers, `routers/{chat_completions,responses,messages}.py` | none | one route each; they differ in path and usage extraction |
| Source resolution, `dependencies.py` | none | API key to department |
| Request metrics middleware, `main.py`, `request_metrics.py` | per request: start time, context, overrides, recorded flag | initialise, setters, finalise once |
| Metrics registry, `metrics.py` | Prometheus counters, gauges, histograms | record methods |
| Configuration, `config.py` | validated settings | `load_config` |
| Application, `main.py` | everything above, in `app.state` | lifespan: start the monitor, serve, stop |
| Discovery and readiness, `routers/{models,catalog,health}.py`, `rendering/catalog.py` | none | reads of the registry |
| Logging, `logging_utils.py`; operations tools, `src/tools/` | none | output |

### How they interact

One process, one event loop (`src/README.md:1515` ff.: single worker). A request
is a coroutine that yields only at an `await`; between two awaits it makes plain
calls on the admission controller and the routing registry, each of which holds
a lock and contains no `await`. The health monitor is one more task of the same
loop, which writes the registry after each round of probes. So the unit of
interleaving is the code between two awaits, and that is what an action of the
models is.

```
client -> middleware -> proxy_json_endpoint -- await body --> shape check, acquire, select_upstream
                              |                                     |
                              |   await post()/send(), failover: select_upstream again
                              v                                     v
              answer: record_retry_event (5xx), usage,     StreamingResponse: chunks, disconnects,
              record_tokens, release                        aclose, release, usage, record_tokens
UpstreamHealthMonitor -- await probes --> set_upstream_health for every upstream
```

### What is hard here

* **Every way out must release.** A lease is taken in one function and given
  back in four places, one of them the `finally` block of an async generator
  that may be closed, cancelled, or never started.
* **Check now, charge later.** Token budgets are checked at admission and
  charged at completion, by several requests in flight.
* **Windows at their edges.** Two sliding windows and a cooldown use strict and
  non-strict comparisons that have to agree; a running total shadows a deque.
* **Failover against moving health.** The set of attempted upstreams, the
  round-robin position and the verdicts change at different times.
* **Ends of streams.** Completion, disconnect, upstream failure, generator close
  and parser failure are told apart by flags.
* **Probe rounds.** Concurrent probes, applied together, cancelled by `stop()`.
* **Two coroutines per request.** The handler and the middleware around it share a
  few fields of `request.state`; who runs first decides what the request counts as.
* **Names that tie things together.** Limits, departments, keys and models are
  matched by name, after a normalisation that each section does for itself.

`PROJECT.json` lists the hazards at their lines, with the properties that catch
them.

## 2. Modules

| module | models | notes |
|---|---|---|
| `Config` | `load_config()` and the settings it puts in force | used by `Intake` |
| `Intake`, `MCIntake` | source resolution and request shape, under a loaded configuration | |
| `IntakeProofs` | theorems about `Config` and `Intake` | `IntakeInv` |
| `Admission` | admission controller | one action per use of the controller by the handlers |
| `Quota` | what the admission controller promises | abstract: no queues, totals, time stamps |
| `AdmissionQuota` | refinement mapping from `Admission` to `Quota` | |
| `MCAdmission` | instances of `AdmissionQuota` | |
| `AdmissionProofs` | theorems about `Admission`: slots, limits, overrun, windows, and the refinement of `Quota` | inductive invariants `Inv`, `WindowInv`, `QuotaInv` |
| `Routing` | routing registry | used by `RoundRobin`, `Discovery`, `UpstreamHealth`, `Gateway` |
| `RoundRobin` | `Routing` with a history variable | fairness of the selection |
| `Discovery` | readiness, model list and catalog, as functions of `Routing` | no state of its own |
| `MCRouting` | instances of `RoundRobin` and `Discovery` | |
| `RegistryProofs` | theorems about `Routing` | instantiated by `GatewayProofs` |
| `RoutingProofs` | theorems about `RoundRobin` and `Discovery` | `RRInv` |
| `SseParser`, `MCSseParser` | stream usage parser | one stream, cut into chunks |
| `SseParserProofs` | theorems about `SseParser` | `SseInv`, `LongInv` |
| `UpstreamHealth`, `MCUpstreamHealth` | health monitor and lifespan, over `Routing` | liveness |
| `UpstreamHealthProofs` | theorems about `UpstreamHealth` | `HealthInv` |
| `Gateway`, `MCGateway` | the request path, over `Admission` and `Routing` | composes all shared state |
| `GatewayProofs` | theorems about `Gateway` | instantiates `AdmissionProofs` and `RegistryProofs`; `GatewayInv` |
| `RequestMetrics`, `MCRequestMetrics` | the middleware around the request path | extends `Gateway`; liveness |
| `RequestMetricsProofs` | theorems about `RequestMetrics` | extends `GatewayProofs`; `MetricsInv` |

Operators before a definition whose comment starts with "Mutant of" are altered
versions of it. They are used by no specification: substituting one for its
original makes the property named in `PROJECT.json` fail, which shows that the
property depends on that code.

### Admission

`lease` maps a caller to what `acquire()` returned; the other variables are the
attributes of `AdmissionController` and the gauge cells of
`gateway_inflight_requests`. Absent dictionary entries are the default values
(`0`, empty queue); 0 is safe for an absent cooldown because the clock never goes
below it. `AcquireAdmitted`, `AcquireRejected`, `Release`, `RecordTokens` and
`RecordRetryEvent` are the methods; they change disjoint groups of variables, so
a handler that makes several calls between two awaits conjoins them. `Admit`,
`Reject`, `AdmitAndGiveBack`, `Finish` and `FailedHeader` are the combinations
the handlers use. That the handlers use no other is checked, not assumed:
`Gateway` implements `Admission!Spec` (run `gateway_budget`).

A window drops entries only from the left and only while they are strictly older
than the window; `ExpiredCount` says how many. Tokens are added up by counting a
set with one element per token (`TokensAt` for given places of a queue,
`TokensOfFirst` for a prefix; in `Quota`, `Total`), which needs no recursion and so
can be used in proofs.

### Quota

`Quota` says what a caller of the controller may rely on, in terms of ages: the
tokens charged and the failures counted 0, 1, 2, ... seconds ago, and the seconds a
key stays shut. A second that passes shifts the ages; nothing is trimmed because
nothing older than the window has an entry. `AdmissionQuota` computes the ages from
the deques and the clock of `Admission`. The property `ImplementsQuota` therefore says
that trimming from the left when someone happens to look, the running total, and
the strict and non-strict comparisons of `acquire()`, `record_tokens()` and
`_record_retry_event_locked()` come to the same as windows that are always exact. A
refusal is a stuttering step of `Quota`: it promises whom the controller does not
admit, while `IdleKeyAdmits` and `BudgetDecisionExact` say whom it does.

### Config and Intake

A configuration file is a record of its sections, a string in it a record of
what `strip()` leaves and whether there was more. A list comprehension with a
condition keeps its elements at their places in the list of the file (`Stripped`),
because nothing but their presence, order and number matters. `Load` is `load_config()`: the file
is refused if any validator raises, else `Settings` are in force: the pools, the map
from keys to departments, and the limits as `AdmissionController` looks them up (by
dictionary for models, by first match for pairs). The names in `admission_control`
are compared with the declared ones only if it is enabled, and so is what
`LimitsInForce` says of them. That property also is the bridge to the other modules: it
establishes for loaded files that the keys of limits and budgets are keys and that
pools are not empty, as the assumptions of `Admission` and `Routing` say.

A header is a string of the same kind: blanks alone are a key that is there and leads
nowhere (`dependencies.py:74`), the empty string is none. The server strips spaces and
tabs from headers, but not every blank that `strip()` knows.

`Arrive` is the resolution of the headers, `CheckShape` the lookup of the model
and `check_request_shape()`. Both are pure, so one request at a time is enough.
An output cap of 0 stands for every value that is not a positive integer.

### RequestMetrics

The module extends `Gateway` by a second coroutine per request. `HandlerStep` is a step
of `Gateway` with what it leaves in `request.state` (`override`, `origin`);
`MiddlewareStep` and `WrapperClosed` are the middleware, which finalizes once and
then is `over`: `_REQUEST_RECORDED` needs no variable of its own. `wraps` is whether
`call_next` returns a `StreamingResponse`, which depends on the Starlette version and
is fixed at the start; with newer ones it does not, the middleware finalizes at
the status line, and statuses 499 and 502 of streams are never counted. What
`OutcomeRecorded` says is therefore about requests finalized after their handler
was over; the property is about every such request, whatever the version. Besides, no
count is ever replaced. `CountFits` lists, ending by ending, what a request may be counted
as: an answer and a complete stream by their status, a refusal or a failed exchange as
the gateway's failure, a stream that was disconnected or failed as 499 or 502. It also
lists what the code does not tell apart. A stream the client left at a chunk counts by its
status line, and so may one that an exception broke: if parsing had been given up, the
`return` at `proxy.py:650` swallows the exception (`BodyRaises`); and the server may close the
wrapper before it sees one. `SuccessMeansCompleted`, what the repository's README says of
incomplete requests, has no such exception and is violated (findings 2 and 4).
`recorded` holds the labels of the request counter and of the failure counter; the
per-model counter gets the same status in the same call.

### Routing, RoundRobin, Discovery

`Pool` is `_model_to_upstreams`; a model that an upstream lists twice gives it two
places (`config.py:231` does not remove duplicates). `SelectUpstream` takes the
first eligible place at or after the position. `RoundRobin` adds, per place, the
number of selections in a row that passed it over although it was eligible.
`Discovery` has the three ways in which the code counts upstreams for operators
(`_build_model_index` and `list_models`, the catalog, `/health/ready`);
`DiscoveryMatchesRouting` compares them with what a selection would do now.

### UpstreamHealth

`result` holds the probes of the current round; `round` stands for the time they
carry. `Start` suspends the lifespan until the first `ApplyResults`, which sets
`serving`. `Stop` may come while a round is under way. `up` is the environment:
what a probe sent now would find. Nothing says that a probe is ever answered: its timeout
limits each connect and read, so that one that trickles (`Hangs`) keeps `gather()` waiting.
Rounds only go up, while the code's stamps are wall-clock times: a clock that is set
back is outside the model. The `except` of `_run` for an unexpected error
of `refresh_all` has no counterpart, because nothing `refresh_all` calls can raise
once the configuration is loaded.

### SseParser

A text is a sequence of the pieces the parser tells apart, each one byte long.
The answer is fixed at the start (`stream`); `ChunkArrives(n)` decodes and
searches the next `n` pieces, so that the cuts are the only choice the model
makes. `Drained` is the loop over the events of the buffer, one `Turn` each; it is
given as many turns as the buffer has pieces, and those after the last event change
nothing. The reference, `Read`, is written differently on purpose: a reader that
goes through the same text piece by piece, in one go, without a buffer. Texts with CR CR LF are excepted from the comparison: whether the LF
pairs with the first CR, too, depends on the cut. When an event raises, the
usage of earlier events of the same chunk is not kept, which does depend on the cut;
`UsageIndependentOfChunks` says nothing of such a stream.

### Gateway

`phase[r]` names the await at which request `r` is suspended (the header of the
module lists them). An action is the code from one await to the next, with every
call it makes: for example `Dispatch` is the shape check passing, `acquire()`, the
first `select_upstream()`, and, without an upstream, the release on the way out.
Three endings keep a lease in the code and so in the model: cancellation of a
streaming request before its response exists (`HandlerCancelled`), a response
whose body is never iterated (`BodyNeverStarts`), and an `aclose()` that raises
or is cancelled (`CloseFails`). `Leaked` names them; every slot property states
the exception, and `SlotFreedAtEnd`, without it, is violated (finding below).

Payloads are abstracted to what the code tells apart: a status, a usage (prompt
and generated tokens added) or none, a chunk that parses or spoils the parser.
`StreamBreaks` is an exception in mid-stream that the code does not look for: mostly the
usage extractor raises, but any exception other than an httpx error or a cancellation
takes the same way, whether the stream is still parsed or not.

## 3. Runs

| run | shows | bounds |
|---|---|---|
| `intake` | limits are in force as declared, keys lead to owners, unknown callers have no department's limits, the output cap holds | 252 files (3 lists of upstreams, 6 of departments, 7 of limits, on and off) and none, 12 environments, 24 pairs of headers (blank and empty keys among them), 192 payloads |
| `admission` | counters = leases, limits hold, overrun bounded, total exact; implements `Quota` | 3 callers, 2 departments, 2 models, 2 endpoints, limits 1 and 2 of both kinds: callers outnumber every limit; budget 3 with a cap of 2, usage 0..3, window 1, clock to 3: the window is passed more than once and the budget overrun by two requests |
| `admission_guard` | guard opens on a burst only; an idle key is admitted, whatever slots, tokens and failures it left behind; implements `Quota` | 2 callers, 2 keys, 3 events in 2 ticks, cooldown 2, clock to 6: two cooldowns in a row fit; limit 2 of the model, limit 1 and a budget of 1 token in a window of 1 for one key, none for the other: a key is idle after slots, tokens and cooldowns of its own or the other's |
| `routing` | no pool member starves; readiness, model list and catalog agree with the selection | pools of 4 (one upstream twice) and 2, all exclusions, all verdicts; the history stays below the pool size, so the state space is finite without a bound |
| `upstream_health` | whole rounds only, probed before serving, verdicts follow upstreams unless a probe never ends | 2 upstreams, endless rounds of which 3 have a time of their own: enough for lost, regained and lost verdicts |
| `sse_parser` | usage depends on the text, not on the cuts; bounded buffer; gives up for long events only | texts of up to 4 lines of 11 kinds (up to 16 pieces), chunks of 1 and 2, buffer of 8: two short events together are longer than the buffer, one with an unfinished line is too |
| `gateway_slots` | slots, accounting, failover, retry events | 2 requests, limit 1, 2 upstreams in a pool, statuses 200, 404, 503, guard of 2 events |
| `gateway_budget` | charging, use of the controller | 2 requests, limit 2, budget 1, usage 0..1, guard on, clock to 1, 1 upstream |
| `request_metrics` | what a request is counted as; requests end, are counted, and give back their slots | 1 request, 2 upstreams in a pool, statuses 200, 302, 404, 503, guard of 2 events, with and without wrapped streams |
| `admission_doc_bound` | violated: finding 1 | 1 key, 3 callers, cap 2, budget 3, prompt up to 1, output up to 2 |
| `gateway_leak` | violated: finding 3 | 1 request |
| `request_metrics_doc` | violated: findings 2 and 4, one trace | 1 request, status 200 |

One request is enough for `request_metrics`: no field of `request.state` is shared
between requests, and no request waits for another (a full limit is a 429, not a
queue), so that neither what it is counted as nor its progress depends on others.
`intake` sets `CHECK_DEADLOCK FALSE` because a gateway whose configuration is refused
does stop; `sse_parser` because a stream ends.

`Requests` are identities, each used for one request: two or three of them give
every overlap of two or three requests. Symmetry is declared on `Requests` in runs
without liveness properties only. Every unbounded quantity has a named bound:
`MaxTime` (clock), `MaxPrompt` and `MaxOutput` (usage of one response),
`MaxRounds` (probe rounds), `MaxLines` (lines of a streamed answer).

`admission_control.enabled` is `TRUE` in every configuration. The models have both
branches, and the theorems cover both.

Properties worth reading first: `SlotsFollowRequests`, `SlotsMatchLeases`, `OversubscriptionBounded`,
`BudgetDecisionExact`, `GuardOpensOnBurst`, `NoStarvation`, `FailoverSound`,
`ChargedOnceFrom2xx`, `OutcomeRecorded`, `LimitsInForce`, and the refinements
`AdmissionSpec` and `ImplementsQuota`, which together say that the gateway as a whole
keeps the promises of `Quota`.

### Fairness

* `UpstreamHealth`: weak fairness of the steps of the monitor itself, whose loop in
  `_run()` is ended by nothing but `stop()`. The answers of probes get none:
  `httpx.Timeout(health.request_timeout_seconds)` (`upstream_health.py:43,66`) limits each
  connect, write and read, so that an upstream that trickles its answer keeps its probe
  going. One such probe, of any upstream, holds `gather()` (line 73) and with it every
  verdict, or the start of the gateway. All three liveness properties name that
  exception, `SomeProbeHangs`. Upstreams may flap for ever.
* `Gateway`: weak fairness of the steps of a request after its body was read
  (`AfterRead`). The await of the client's body (`proxy.py:235`) has no timeout, so a
  request may stay in `reading` for ever; it holds no slot there
  (`SlotsFollowRequests`). After that, progress rests on three assumptions. An upstream's
  answer is finite, streamed or not: the timeouts (`main.py:47`, `_request_timeout`)
  limit each connect, write and read, so silence ends an exchange and trickling does
  not. The client takes a chunk or is reported gone: the server does
  one or the other unless the client keeps its connection open and does not read.
  Closing the upstream's response comes to an end. Strong fairness of
  `StreamEnds \/ StreamFails` is the first of them for streams, since there a step
  of the request happens at every chunk. Cancellation, arrival, the clock and health
  changes get no fairness.
* `RequestMetrics`: as `Gateway`, and weak fairness of `MiddlewareStep`: it waits for the
  response or the end of the body, both of which the handler reaches once the request
  was read; `EveryRequestRecorded` starts there, or at the refusal before the read. That the
  server closes the wrapper (`WrapperClosed`) gets no fairness.

## 4. Proofs

Every state and action property of the passing runs is a theorem: they hold for any
finite set of requests, any configuration, payloads, statuses, pools, streamed answers, and any interleaving. The theorems use what the code's validators
establish, as named assumptions that TLC evaluates in every run:
`SizeAssumption`, `LimitAssumption`, `BudgetAssumption`, `GuardAssumption` (limits,
caps and windows are positive, requests finite), `PoolAssumption` (pools are not
empty and list known upstreams), `ServingAssumption` (upstreams are finitely many, each
serves a model), `ConfigurationAssumption` (the gateway is configured as both
of its parts require), `FileAssumption`, `KeyAssumption` (sections are lists, a key
is a string, `os.environ` can be asked for any variable a file names),
`PayloadAssumption` (an absent cap is not a number), and `ParserAssumption` (answers are
texts, the bounds of chunk and buffer positive).

| theorem | property | module |
|---|---|---|
| `TypeCorrect`, `SlotAccounting`, `LimitsRespected`, `BudgetOverrunBounded` | `TypeOK`, `SlotsMatchLeases`, `WithinLimits`, `OversubscriptionBounded` | `AdmissionProofs` |
| `BudgetDecidedExactly`, `RetryQueueShort`, `CooldownNeedsBurst`, `IdleKeysAdmit` | `BudgetDecisionExact`, `RetryQueueBelowThreshold`, `GuardOpensOnBurst`, `IdleKeyAdmits` | `AdmissionProofs` |
| `ControllerImplementsQuota` | `ImplementsQuota` | `AdmissionProofs` |
| `RoutingTypeCorrect` | `TypeOK` | `RegistryProofs` |
| `RoundRobinIsFair`, `DiscoveryIsTruthful` | `NoStarvation`, `DiscoveryMatchesRouting` | `RoutingProofs` |
| `VerdictsMatchStamps`, `RoundsAppliedWhole`, `ServesOnlyProbed` | `VerdictMatchesStamps`, `RoundsAreAtomic`, `ServesProbed` | `UpstreamHealthProofs` |
| `MonitorUsesRegistry` | that the monitor implements `Registry!Spec` (`Routing`) | `UpstreamHealthProofs` |
| `GatewayTypeCorrect`, `SlotsFollowExchanges`, `UpstreamLoadBounded`, `AccountingComplete` | `TypeOK`, `SlotsFollowRequests`, `UpstreamLoadWithinLimits`, `EveryExchangeAccounted` | `GatewayProofs` |
| `FailoverIsSound`, `OneRetryEvent`, `ChargedOnce` | `FailoverSound`, `OneRetryEventPerFailure`, `ChargedOnceFrom2xx` | `GatewayProofs` |
| `HandlersUseController`, `GatewayImplementsQuota` | `AdmissionSpec`, and `ImplementsQuota` of the gateway | `GatewayProofs` |
| `HandlersUseRegistry` | that the gateway implements `Routing!Spec` | `GatewayProofs` |
| `MiddlewareObserves`, `TokensComeWithSuccess`, `OriginIsRight`, `OutcomesRecorded` | that `MetricsSpec` implies `Spec`, `TokensImplySuccess`, `OriginFollowsExchange`, `OutcomeRecorded` | `RequestMetricsProofs` |
| `LimitsComeIntoForce`, `KeysLeadToOwners`, `UnknownIsUnlimited`, `OutputCapsHold` | `LimitsInForce`, `KeyLeadsToOwner`, `UnknownHasNoDepartmentLimit`, `OutputCapHolds` | `IntakeProofs` |
| `BufferStaysBounded`, `ChunksDoNotMatter`, `ShortEventsNeverGivenUp` | `BufferBounded`, `UsageIndependentOfChunks`, `GivesUpOnLongEventsOnly` | `SseParserProofs` |
| `EndCannotOverflow` | that the search at the end of a stream never overflows (`proxy.py:600`) | `SseParserProofs` |
| `ParserServesGateway` | that `Gateway`'s `Parse` and `StreamBreaks` cover what the parser does | `SseParserProofs` |

The arguments, component by component:

**Slots, limits, overrun.** `Inv == TypeOK /\ SlotsMatchLeases /\ WithinLimits /\
BudgetReserve`. `TypeOK` alone is not inductive: that a decrement stays in `Nat` needs
`SlotsMatchLeases` (a caller with a lease is counted, so the counter is
positive), which is why no `max(0, ...)` of `release()` is ever needed.
`OversubscriptionBounded` is not inductive either: `BudgetReserve`
strengthens it by the most that the requests in flight may still charge. An
admission adds `MaxUsage` to that reserve but requires the total to be below the
budget and the key's active requests below the cap; a completion moves at most
`MaxUsage` from the reserve to the total; trimming only lowers the total. Lemmas
about cardinalities of the sets of lease holders carry the arithmetic.

**Windows.** `WindowInv == Inv /\ WindowsOK /\ GuardInv` says that a queue is in the
order of time, that the running total is the sum over its queue, and that a
retry queue is below its threshold, and empty after it opened the guard. The order
of time is what makes "drop from the left while older than the window" the same as
"drop all that is older" (`PrefixOfPositions`); with the sum, the decision of
`acquire()`, which trims first, is exact.

**Refinement of Quota.** `QuotaInv` adds that a disabled controller hands out no
lease. Initially all ages are empty. A tick shifts every age by one second: the
lemmas show that `TokensOfAge` and `FailuresOfAge` at the new clock are those of one
second less before. Trimming, and so a refusal, a call that only trims, and the
give-back of a slot, leaves the ages up to the window unchanged: a stutter. An
admission maps to one of `Quota`, because the guards agree; a charge adds to age 0;
a failure adds to age 0 or, at the threshold, shuts the key and empties its
ages. Since ages are counted and not queued, equal time stamps need no order.

**Routing.** The position stays in its pool because it is computed modulo its size.
For `NoStarvation` the types are enough as a strengthening: a member that may be
chosen and was passed over `n` times is that many places nearer, so that its
distance bounds the times that are left.
`DiscoveryMatchesRouting` needs the types alone: all three counts and the selection
read the same tables.

**Health monitor.** `HealthInv` adds `RoundIsNew`: while a round is under way no
stamp in the registry is of its time. Without it a success left over from an earlier
round of the same time could pass for its result.
`MonitorUsesRegistry` needs no invariant: only the end of a round writes to the
registry, and it is a `set_upstream_health` of `Routing`.

**Gateway.** `GatewayInv` is `TypeOK`, the invariants of the two parts and
`RequestOK(r)` for every request: what its phase says of its ending, its lease and its
accounting. The steps of the handlers are looked at once: each implies
`StepSummary(r)`, which says which calls of the controller and the registry the step
makes, for which key, and that no other request is touched. Everything else, the
action properties and the step simulation included, follows from the summary.
`HandlersUseController` is the refinement: the summary's calls are those of
an action of `Admission`, or none. With `ControllerImplementsQuota` it gives
`GatewayImplementsQuota`: as a whole, with failovers, disconnects and cancellations,
the gateway promises of budgets and of the retry guard what `Quota` does.
`HandlersUseRegistry` is the same for `Routing`, whose theorems are about any
selections with any exclusions: the turns that `RoundRobinIsFair` promises are kept in
the gateway too, where each failover is one more selection.

**Middleware.** `MetricsInv` adds what `override`, `origin` and `recorded` say of a
request in each phase: the override of a stream that is over is exactly that of its ending,
and a request whose middleware is not over has not been counted. The first makes a count
fit the ending (`CountedOutcome`), the second is why no count is replaced. `MiddlewareObserves` carries all theorems of the gateway over.

**Configuration and intake.** `IntakeInv` says that what is in force is `Settings` of a
file that is `Loadable`, and that `source` and `sent` were computed from the
headers and payload at hand. The properties then are lemmas about the validators:
one department per key (`OneOwner`), the last entry of a model (`LastEntryCounts`), the
only entry of a pair (`OnlyEntryCounts`), pools that are filled (`PoolsAreFilled`).

**Stream parser.** `SseInv` says what the buffer means (`SaysTheSame`): a reader who begins
afresh with the latest usage and reads the buffer knows what a reader of all the text
so far knows. `UsageIndependentOfChunks` follows, because in a buffer without a complete
event there is no blank line that could dispatch anything (`EventReads`). That
a fragment keeps `SaysTheSame` takes three steps. Reading goes on where it stopped
(`ReadConcat`), so the reader of buffer and fragment is where the reader of the text is.
Normalizing the line ends changes nothing for it (`NormalizedReads`). Taking off an
event changes nothing for it either: what `EventPayload` cuts out by line is what the
reader collects piece by piece (`EventRead`, `DrainedIs`). In between, the buffer must stay free of CR LF,
and the cut must not turn a regular text into an irregular buffer
(`FragmentRegular`); that is why the invariant also says that the buffer ends in no more
CR than the text. `BufferBounded` needs less: every turn shortens the rest or is
the last (`TurnSearches`).

That only long events make the parser give up takes another invariant, `LongInv`. Of an
irregular text (CR CR LF) the buffer is not a stretch, because joining chunks may
normalize a line end twice. It is what *remains* of the text (`Remains`): an increasing map gives the
place in the text of each piece of the buffer, leaves out no LF after its first place,
and never takes the CR of a CR LF in the middle. Joining a chunk, normalizing and taking off
events keep that (`FragmentRemains`, `RestRemains`). At an overflow, the
buffer and the chunk are too long together; there was no blank line in the buffer, so what
remained of the text, but for its last piece, lies within one event of
`Normalized(Arrived)` (`RemainsIsLong`): that event, with one more chunk, is too long.

`ParserServesGateway` is the contract between the two models of the parser. `Gateway` does
not look into chunks: `Parse` consumes events or gives up, `StreamBreaks`
raises. Every step of `SseParser` is one of these. So is the search at the
end of a stream, which can find usage that no chunk completed: after CR CR LF the buffer
is normalized once more. `StreamEnds` therefore parses as `ChunkArrives` does. That it cannot
overflow is `EndCannotOverflow`; that it can still fail to decode is the other way to give up.

Where a definition is recursive (`FlattenSeq` in `PoolOf`, the functions of `SseParser`) or a
set must have a least element, the proofs take a minimal counterexample (`WFMin`, the one
theorem of the library that serves for induction without an operator as a parameter).
In `SseParserProofs` that happens in `UpTo`, which the other lemmas cite with a set of
places in the role of the induction hypothesis; `StepwiseExists` shows that the recursive
functions exist.

Only model-checked: the liveness properties (`EventuallyServes`, `RecoversOnceUp`,
`AvoidedOnceDown`, `EveryRequestRecorded`, `EveryRequestEnds`, `EverySlotReturned`),
which rest on fairness and `ENABLED`, out of the prover's reach, and the violated
properties of section 5.

## 5. Findings

1. `config.example.yaml` bounds the overrun of a token budget by concurrency times
   the *output* cap; the code charges prompt tokens too (`proxy.py:664`).
2. Usage of a stream that the client abandoned at a `yield`, or that a later event
   broke, is recorded and charged (`proxy.py:652`), against `src/README.md:270,283`.
3. A streaming request can end without giving its slot back (`proxy.py:764`,
   `609`, `667`). How easily depends on the server: Starlette cancels the body of a
   response on disconnect, and again an `await` in its `finally` block; a handler
   itself is cancelled mainly at shutdown; whether a body can stay unstarted depends on
   the Starlette version.
4. A stream that the client left at a `yield` is counted as a success, although the
   middleware waited for its end: neither flag of the `finally` block is set
   (`proxy.py:612`). `src/README.md:279-281` wants error metrics recorded for failed or
   incomplete requests. Other streams that did not reach their end can be counted the same
   way: those broken after parsing was given up (`proxy.py:650`), and those that broke, or
   whose close failed, when the server closes the wrapper first. `OutcomeRecorded` has
   these exceptions.

Seen on the way, and stated in the comments of properties rather than by a run:

* An upstream's 4xx or 5xx answer whose body makes the usage extractor raise is
  counted with `failure_origin="upstream"`, though the client gets the gateway's own
  500 (`proxy.py:834`); `src/README.md:1336` says "passed through". `OriginFollowsExchange`
  has the exception.
* A department may be called `unknown`. Then callers without a key are charged to it and
  its limits apply to them, while `src/README.md:1527` says that limits cannot target
  `unknown`. `UnknownHasNoDepartmentLimit` excepts such files.
* A payload that sets only the output cap of the other endpoint is forwarded
  without a cap in the field its upstream reads (`admission_control.py:93`).
  `OutputCapHolds` has the exception.
* `src/README.md:204` wants requests finalized "only when the stream completes or fails
  clearly"; that holds with a Starlette whose `call_next` returns a `StreamingResponse`.
* A handler that is cancelled is neither counted nor logged (`main.py:116`).
* Nothing bounds the upload of a request, and a probe whose answer trickles stops the
  whole health monitor (section 3, fairness).

## 6. Not modelled, and the plan

Left out for good:

* HTML rendering, the liveness payload, logging, latency histograms, header filtering:
  output without an effect on anything modelled.
* `src/tools/`: scripts run by operators next to the gateway.
* Ranges of single configuration fields and the sections without a say in what
  is modelled (server, timeouts, catalog): checked field by field by the library.
* The advertised `Retry-After`: in whole seconds, the models' unit, it is exact.
* The connection pool of the HTTP client: a timeout is an outcome of any exchange,
  whatever its cause.

Nothing of the plan is left: what the runs check of states and steps is proved, and
what is not proved is named at the end of section 4. Two hazards have no property,
the rounding of `Retry-After` and the shared connection pool, for the reasons above.
