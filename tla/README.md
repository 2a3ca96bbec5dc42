# floodgate in TLA+

Specifications, model-checking runs and machine-checked proofs for floodgate, the
EMQX ExHook service that zero-hops or drops Meshtastic packets before the broker
delivers them. Source paths are relative to the repository; `zerohop.py` stands for
`src/floodgate/zerohop.py`, and so on.

## Inventory

| Part | State it keeps | Operations | Talks to |
|---|---|---|---|
| Packet statistics, `AntifloodStats` (zerohop.py) | six rolling counters, their lifetime dict, a lock | `inc`, `reset`, `snapshot` | called by every gRPC worker, by the stats reporter and by the health server |
| Packet policy (zerohop.py, portnum.py, `should_*` of config.py) | none | `process_message` and what it calls | reads the configuration, calls `stats.inc` |
| Publish path (exhook_server.py) | gRPC executor queue and threads | `OnMessagePublish` | EMQX, which holds the publish back until the call returns or fails |
| Hook lifecycle (exhook_server.py) | none here; EMQX remembers the topic filter | `OnProviderLoaded`, `OnProviderUnloaded`, no-op hooks | EMQX |
| Server lifecycle (exhook_server.py) | gRPC server, health server, reporter thread, stop event | `start`, `stop`, `serve`, `_stats_reporter` | all of the above |
| Configuration (config.py, \_\_main\_\_.py) | the validated dict, fixed for the life of the process | `load_config`, exit status 2 | operator's YAML file, two environment variables |
| Health endpoint (health.py) | one single-threaded HTTP server and its backlog | `GET /health` | `stats.snapshot`, probes |
| Logging (log_setup.py) | root handler | formatting, escaping | every thread; log collectors |
| Decryption (decrypt.py) | none | AES-128-CTR with the default key | portnum.py |
| Deployment (charts/, scripts/check\_chart.py) | pods, ConfigMap, pod template | gate, upgrade, rollback, rolling replacement | Kubernetes, EMQX |
| Images, Compose, k8s/, other scripts | — | — | not program logic |

### What is hard about it

* **Concurrency.** Up to `grpc_max_workers` threads run `OnMessagePublish` and share
  the counters with the reporter and the health server; answers must not be mixed up,
  and increments must not be lost to a window that is being cut.
* **Failure is open.** EMQX delivers the original whenever the call fails: refused,
  reset, or slower than `request_timeout`. The handler of a timed-out call runs on,
  counts its outcome and answers a publish that is already settled.
* **Partial failure.** `process_message` counts the outcome *before* it makes the log
  line. If making the line raises, the exception handler counts again and passes the
  original through. `start()` serves gRPC before it binds the health port. A rollout to
  a configuration that floodgate refuses stops half-way.
* **Repetition.** Bridged brokers and re-uplinking gateways show floodgate its own
  output; the rewrite must be recognised and nothing but `hop_limit` may ever change.
* **Stale state.** The file is looked for, then opened; EMQX asks for the topic filter
  once; a pod's template and the ConfigMap it reads are of different ages.
* **Order.** `stop()` sets the reporter's flag while windows are being cut, and waits
  for the health loop, which waits for a client.
* **Numbers and text.** JSON spells the remaining hops in two ways, one of them a
  difference; publishers choose topics that end up inside log lines.

### What makes each part correct

* Statistics: every outcome is in exactly one window, `/health` adds up, is a state of
  one instant and never goes back.
* Policy: no readable live packet gets past a zero-hop channel, only `hop_limit`
  changes, the rewrite is idempotent and never adds hops.
* Publish path: each publish is settled once, by the policy for its own message, or
  visibly failed open; nothing waits for ever; queueing happens only as documented.
* Configuration: a process filters as its file says or does not run; a refusal names
  real problems, and repairing them leads to a running floodgate in a few starts.
* Lifecycle: readiness implies serving, a window that was cut reaches its line, `stop()`
  leaves nothing open, a failed start ends the process, and nothing but a client that
  never speaks can keep `stop()` or a probe waiting.
* Rollout: bad configurations leave the old pods serving, a finished rollout runs what
  was rolled out, a hook loaded after it filters by its topic filter.
* Logging: one record is one line and can be read back.

## Modules

| Module | Role |
|---|---|
| `PacketCounters` | abstract: atomic counters, disjoint windows, consistent `/health` |
| `AntifloodStats`, `AntifloodStatsProofs` | the class, split wherever another thread could run without the lock; refines `PacketCounters` |
| `PacketPolicy`, `PacketPolicyProofs` | the decision about one publish as operators with the source's names |
| `Packets` | what topics and payloads there are, and how a receiver reads their hops: the vocabulary of the promises |
| `PacketJourney`, `MCPacketJourney`, `PacketJourneyProofs` | one packet, many trips, changing configurations |
| `FilterContract` | abstract: EMQX with floodgate as seen by publishers and subscribers |
| `ExHook`, `MCExHook` | the publish path: EMQX, gRPC queue, workers, crash; refines `FilterContract` |
| `ExHookProofs` | its inductive invariants and theorems: the answers, the counting and the queue |
| `ConfigLoad`, `MCConfigLoad`, `ConfigLoadProofs` | `main` and `load_config` over a file that changes, and an operator who repairs it |
| `ServerLifecycle`, `ServerLifecycleProofs` | the process's threads from `start()` to their end, with the health server and its clients |
| `Rollout`, `MCRollout`, `RolloutProofs` | the Helm release, its gate, the Deployment's pods and the hook EMQX keeps |
| `LogStream`, `MCLogStream`, `LogStreamProofs` | the text log, written and read back |

How they fit together: `AntifloodStats` justifies that `ExHook` and `ServerLifecycle`
count, and cut a window, in one atomic step, since the refinement says the locked object
*is* the atomic one. `PacketPolicy` is used unchanged by `PacketJourney`,
`FilterContract`, `ExHook` and `ConfigLoad` (whose result it must be able to decide by).
`Rollout` reduces a configuration to whether `load_config` accepts it, which is what
`ConfigLoad` says, and takes a ready pod to answer gRPC, which `ServerLifecycle` shows.

### AntifloodStats

`rolling` is the six integer attributes, `lifetime` the dict, `holder` the thread
inside `with self._lock`. `inc` is four steps (enter, read the attribute, write it,
update the dict and leave), `reset` three (enter, copy, zero and leave), `snapshot`
three (enter, copy the dict, sum **the dict** and leave). `taken` and `shown` are
history: the sum of all windows returned, and the last answer of `/health`.

### PacketPolicy

A topic is the sequence of its levels. A payload is a record of the fields that the
code reads; whether the bytes parse, what they decrypt to and whether an id can be
formatted are fields of it. Every early return of `_process_message_inner` is a branch
of `decide`; `formatting_raises` is the one way a later exception arises and
`process_message` its handler. Left out: log text, `relay_node`, `via_mqtt`, the case
folding of JSON `type` (the model's types are lower case), the bytes.

The promises do not use the code's own reading of a topic. `Packets.HasFormat` reads
`msh/{...prefix...}/{version}/{encoding}/{channel}/{nodeId}` from the left, under a prefix
of any depth, where `parse_meshtastic_topic` counts from the right; lemma
`ParsedAsWritten` (`PacketPolicyProofs`) shows that the two agree on every topic.

A packet with a custom key yields whatever portnum the garbage parses to, or
`None`: `decrypts_to` ranges over both.

### ExHook

EMQX (external): `message`, `fate`, `delivered`, `failed` (what `metrics.failed`
counts). At most `PoolSize` calls are in progress; a call to a floodgate that is down,
or whose process dies, is lost and fails open; any call may time out. floodgate: the
executor's `queue`, and per worker its `call`, `step` and `result`. A worker takes a
call (or skips one that was cancelled), decides and counts (`Decide`), possibly raises
while logging (`LogRaises`), and answers (`Respond`). `Crash` loses queue, workers,
answers and counters; `Restart` brings an empty process back. Only topics that the
registered filter matches are published.

### ConfigLoad

`file` is what the path leads to: nothing, something that cannot be looked at, opened,
decoded or parsed, or a mapping of keys to typed YAML values. `pc` is where `main()` is:
`Start` takes the path from the command line or the environment, `Locate` is
`path.is_file()` (outside the `try`), `Read` is `open`, `yaml.safe_load`, the key checks
and the merge over the defaults, `Validate` is `_validate_values` in the code's order and
`try` blocks with what `load_config` makes of the values, and main's `-v`. A `ConfigError`
is `refused`, any other exception `failed`. `Edit` replaces or removes the file between
any two of these steps. `Repair` is the operator, who removes the lines (or unsets the
variable) that the refusal named. `held`, `rounds` and `edits` are history.

A case folding is a function on the few strings that can match; a list is the set of its
entries, which is how the code uses it.

### ServerLifecycle

`main` is the main thread, in `start()`, `serve()` or `stop()`; `grpc`, `reporter` and
`health` are what it starts. Binding a port may fail (`StartGrpc`, `StartHealth`), and
`Interrupt` may come at any moment. A process that ends by an exception joins the threads
of the gRPC pool (`ClosePool`, `Exit`) and takes the daemon threads with it. The
reporter's wait, `reset()` and its line are three steps. The health server is a loop that
takes the oldest connection and reads it to its end; a client connects, asks, or hangs
up, and leaves a dead connection behind, or does nothing for ever. `shutdown()` and
`server_close()` are steps of their own. `stats_log` is chosen at the start.

`window` (counted, not yet cut), `snap` (cut, not yet logged) and `logged` say where
outcomes went, `late_lines` is history. Not every outcome gets into a `[STATS]` line, and
the model does not say so: there is no final report, so `stop()` leaves what was counted
after the last cut unreported, and the end of the process takes `window` and `snap` with
it (`Exit` empties both). `CutIsLogged` is what remains true: while the process lives,
nothing that was cut is dropped, and a reporter that has ended has nothing in hand.
`OutcomesReported` adds that a reporter nobody stops gets every outcome into a line.

### Rollout

`chart` is the release in force: a configuration (what is wrong with it, and its topic
filter), `extraEnv`'s log format, whether the checksum annotation is there, and
`maxUnavailable`. `check_chart` is the gate's verdict; it is history (`problems`) and not
a guard, because nothing makes an operator run it, and the properties say what it is good
for. `Upgrade` is `helm upgrade` or `helm rollback`: the ConfigMap changes in place.
`CreatePod` and `DeletePod` are the Deployment controller (external, by its documented
bounds), `PodStart` is a container that starts on what the ConfigMap holds *by then*.
`LoadHook` is `OnProviderLoaded` answered by any ready pod, `UnloadHook` its end. `fresh`,
`applied` and `returned` are history.

### LogStream

A text is a sequence of tokens: a word, or one of the characters that rendering tells
apart. `escape` is `_escape`, `format_message` and `format_stats` are the two events of
`StructuredTextFormatter`. `Repr` says which characters are not printable, and what
`repr()` writes for each after its backslash. `Read` is a reader of the whole stream,
character by character (`ReadChar`), written independently of the writer: it belongs to
the property, with `Meaning`, what a record says. The prefix of a line (time, level,
logger) is left out: it is the same for every record and publishers have no part in it.

## Runs

| Run | Bounds | What it shows |
|---|---|---|
| `antiflood_stats` | three threads, two counters, two outcomes each | types, `Conservation`, `HealthAddsUp`, `HealthNeverDecreases`, and that the locked object implements `PacketCounters` |
| `packet_journey` | 11 topics (prefixes of none, one and two levels), every combination of {-1, 0, 3, missing, not an integer} for the three hop fields, every payload shape, 8 configurations | `NoLiveEscape`, `OnlyHopLimitChanges`, `RewrittenOnce`, `HopsNeverGrow` |
| `exhook` | three publishes, two connections, two workers, one crash, three messages | `Protection`, `AnswersCounted`, `QueuedBehindTimeoutsOnly`, the refinement of `FilterContract`, and `EverySettles` |
| `exhook_one_outcome` | two publishes | violation: one message, two outcomes (below) |
| `exhook_dropped_truth` | two publishes | violation: counted as dropped, delivered (below) |
| `config_load` | 49 files of every kind, 8 ways to name them, one edit at any moment | `FiltersAsWritten`, `RefusalExplained`, `FewRounds`, `RepairEnds` |
| `config_traceback` | text files, one of them undecodable | violation: an error that is no `ConfigError` (below) |
| `server_lifecycle` | two calls, two health clients that owe nothing | `HealthAfterGrpc`, `CutIsLogged`, `OneLateLine`, `StopReleases`, `OutcomesReported`, `StopHeldBySilenceOnly`, `ProbeHeldBySilenceOnly`, `FailedStartExits`, `ReporterEnds` |
| `server_silent_client` | no calls, one health client | violation: `stop()` never returns (below) |
| `rollout` | two replicas, one to surge, two releases out of nine, one failing pod | `ServedThroughout`, `GateHolds`, `ConfigRolledForward`, `FilterInForce`, `ProtectionReturns` |
| `rollout_back` | one replica, two releases, one failing pod | violation: a rollback that does not reach a pod (below) |
| `log_stream` | two records; every topic of two tokens, and whole forgeries | `OneLineEach`, `ReadsBack` |

**Why the bounds are enough.**

* `antiflood_stats`: two threads suffice for any lost update; the third lets `reset` and
  `snapshot` both overlap an `inc`. Two outcomes per counter let a window be cut between
  them.
* `packet_journey`: one packet at a time suffices for the policy, which keeps no state.
  The rewrites are not bounded: `RewrittenOnce` keeps the state space finite.
* `exhook`: the third publish is the one that must wait for a connection that a timeout
  frees while a worker is still busy; one crash separates a life before and a life after,
  and nothing of the first survives. The three messages end in the three ways that matter
  to EMQX (rewritten, denied, raised while logging); what else the policy may say is the
  subject of `packet_journey`.
* `config_load`: the filter keys are combined in pairs of channel lists, the other keys
  are wrong one at a time and all at once, and there are files with many faults. One edit
  may fall between any two steps of a load and then lead to any file; a second one only
  starts the operator over.
* `server_lifecycle`: one client that waits behind another, which may be silent, hang up, or
  come and ask for ever; and one call that counts while another is still in its handler
  when the flag is set.
* `rollout`: two replicas and one to surge let old, new and restarted pods exist at once;
  two releases overlap, or take each other back. The charts break each of the gate's
  conditions alone, and mend or spoil the log format by the environment.
* `log_stream`: what a value leaves open, the next field or the next record would close;
  two tokens are a character and what follows it.

**Deadlock** is checked in `antiflood_stats` and `rollout`. Elsewhere the system really
stops: a denied packet's journey ends; all publishes may be settled with no crash left; a
refused start that nothing can repair stays refused; the process ends, or `stop()` has
returned; the log reaches its bound on records.

**Symmetry** is used nowhere: most runs check liveness, for which it would be unsound.

**Fairness.**

* `ExHook.FairSpec`: weak fairness of each worker, of the arrival of each answer and of
  the loss of each lost call. The handler has no blocking operation but the statistics
  lock, which `AntifloodStats` shows is always released; the operating system runs
  runnable threads; TCP delivers or reports the loss. None is assumed of timeouts,
  restarts or publishes, so `EverySettles` does not rest on `request_timeout`: it says
  floodgate itself never leaves a call unanswered.
* `ConfigLoad.Spec`: a started process goes on; a process that is not running is started
  again, which is the restart policy of the images and charts; an operator who keeps
  finding a refusal repairs it (strong fairness, because restarts come in between).
* `ServerLifecycle.Spec`: threads that can run do, and handlers return (nothing in them
  waits). Nothing is assumed of health clients, since the server has no timeout to hold
  them to anything. That is why `stop()` need not return (`server_silent_client`), and why
  `StopHeldBySilenceOnly` and `ProbeHeldBySilenceOnly` name what can hold it up, or a probe:
  one client that is being served, for ever, and never says a word (`Hogs`). Any other
  conduct of clients, calls and reporter is shown not to.
* `Rollout.Spec`: controllers reconcile for ever, containers are restarted, EMQX
  reconnects (`auto_reconnect`). None is assumed of releases, failures or unloading.

## Findings

* **One message, two outcomes.** zerohop.py:410 (and the other branches) count before
  the log line is made, and `_fmt_node` (zerohop.py:131) raises on a JSON `from` or `to`
  that is a float, a list or an object. The message is counted under its outcome and
  under `errors` and delivered unchanged: a packet counted as `dropped` is delivered,
  one counted as `zerohop` keeps its hops. README.md:55 says "Each message produces one
  outcome", README.md:59 that EMQX never delivers a `dropped` message, and
  `TestStatsAttribution` (tests/test_zerohop.py:1050) "Each outcome increments exactly
  its own counter". Run `exhook_one_outcome`. The fallback itself is fail-open as
  documented; this is why `Protection` and `NoLiveEscape` carry the premise `Loggable`.
* **`dropped` is not what was denied.** README.md:232 calls the counter the source of
  truth. It counts decisions: a call that EMQX gave up on is still counted although the
  message was delivered. Run `exhook_dropped_truth`, on messages that can all be logged.
* **A configuration error with a traceback.** A file that is not UTF-8 raises
  `UnicodeDecodeError`, which neither config.py:93 nor `main` catches, nor the
  `PermissionError` of `is_file()` (config.py:86). README.md:190 promises status 2 and one
  line. Run `config_traceback`.
* **A silent client stops `stop()`.** The health server has no timeout: one client that
  connects to the port and says nothing keeps `shutdown()`, and so `stop()`, waiting, and
  every probe behind it. health.py:38 says to call `shutdown()` to stop it. Run
  `server_silent_client`, under the same fairness as `server_lifecycle`, which shows that
  nothing else does.
* **A rollback that a pod does not notice.** The checksum annotation says what the
  ConfigMap held when the template was made, not what the pod has read. A pod that
  restarts by itself during a release reads that release's file; `helm rollback` takes
  back the pod's own template, and the controller leaves it alone. README.md:139 says
  ConfigMap changes trigger rolling restarts. Run `rollout_back`; this is why
  `ConfigRolledForward` and `FilterInForce` exclude templates that come back.

Without a run of their own, and modelled as the code has them: a bad `zerohop_channels`
hides a bad `drop_channels` (config.py:164), although README.md says that all problems are
reported together, and bad keys hide bad values; `FewRounds` does not rule that out, it
bounds what it costs (four refusals per version of the file, the hidden one included). A
faulty `log_format` in the file goes unreported while `$FLOODGATE_LOG_FORMAT` is set, and
`RepairEnds` is content with that: floodgate runs. `FilterInForce` is about hooks loaded
after a rollout; that a filter changed by a rollout is not in force before the hook is
registered again is documented (README.md:335) and excluded by its premise `fresh`.

## Proofs

All theorems hold for every value of the constants, from the named assumptions only:
`StatsAssumption`, `PolicyAssumption` (`None`, `Absent` and `NotInt` are no integers,
`None` is no string), `JourneyAssumption`, `ExHookAssumption` (messages are such as
their topic, a sequence of strings, can carry), `ConfigAssumption` (files and settings have their
fields, values the content their type says),
`ServerAssumption`, `RolloutAssumption` (finitely many pods, `None` is no
configuration, filter or format) and `LogAssumption` (texts are sequences of strings,
numbers need no quotes, `repr()` is one-to-one and printable, a line break is not).

* **Statistics** (`AntifloodStatsProofs`). `Conservation` is not inductive: it needs to
  know that only the lock's holder is busy (`LockHeld`), that what a thread copied is
  still current when it is used (`LocalsFresh`), and for the refinement that the bound
  found by `inc` still leaves room (`RoomToCount`). From that invariant: `TypeCorrect`,
  `CountsConserved`, `HealthConsistent`, `HealthMonotone`, and `StatsAreAtomic`, where
  `inc` maps to the update of the dict, `reset` to the zeroing and `snapshot` to the sum.
* **Policy** (`PacketPolicyProofs`). `ParsedAsWritten` (the parser finds encoding and
  channel of every packet topic, whatever its prefix, and no other topic), `ModifyZeroes` (a rewrite is of a readable packet
  with hops, and zeroes them), `LiveIsStopped` (what passes a zero-hop channel had none)
  and `NoHopsLeft`, for all integers.
* **Journey** (`PacketJourneyProofs`). Invariant: the packet is untouched, or was
  rewritten exactly once and has no hops left. Theorems `JourneyTypeCorrect`,
  `NothingLiveEscapes`, `HopLimitOnly`, `OneRewrite`, `NoHopsGained`.
* **Publish path** (`ExHookProofs`). The invariant follows an answer through the system:
  a worker holds the decision about its own call's message (`WorkRight`), an answer on
  its way is the policy's answer for its call (`RepliesRight`), what was settled without
  failure was settled by the policy (`SettledRight`); it needs that a call inside
  floodgate belongs to a publish whose message is fixed (`CallsMade`). Theorems
  `PublishPathTypeCorrect`, `PublishPathProtects`, `PublishPathKeepsContract`.
* **Publish path, counting** (also `ExHookProofs`). `ActedUponIsCounted`: neither the
  denials nor the counter say anything about decisions still under way, so `DropsCounted`
  and `RewritesCounted` bound the *union* of what EMQX has applied and what is on its way
  to it; only `Decide` adds to that union, one publish together with one count.
  `QueueingExplained`: a call is in the queue, with one worker, or answered, never in two
  of these (`OnePlace`), and unanswered calls are settled only by giving up
  (`Unanswered`); then busy workers without a failed call, and one waiting call more,
  would inject into fewer connections (`PoolBound`).
* **Configuration** (`ConfigLoadProofs`). What reaches the validation is a merge over the
  defaults of a file that the path led to during this start (`Merged`), whatever edits
  fall in between; lemma `LoadedAsWritten` shows that `should_zerohop` and `should_drop`
  on the result of `load_config` agree with what is written in such a file. For
  `FewRounds` a file is ranked by the refusals it can still cause, one per stage: keys
  that are no strings, bad keys, values that hide `drop_channels` or sit in the
  environment, other values (`Rank`). A repair of what was found lowers the rank; but a
  report can be of a version that an edit has replaced since, and repairing *that* need
  not help, so `RoundsLeft` reserves the refusal under way beside the rank of what its
  repair will leave (`Ahead`), and every edit pays for four more. Theorems
  `ConfigTypeCorrect`, `RunsAsWritten`, `RefusalsAreReal`, `RepairsAreFew`.
* **Lifecycle** (`ServerLifecycleProofs`). `Stages` ties the servers to the place of the
  main thread. `Windows` accounts for every handled call (a set of calls and three
  numbers): it is in the window, in the reporter's hand, or in a line, and the hand is empty
  except while the reporter logs. `LateLine` says that a late line is the reporter's last.
  Theorems `LifecycleTypeCorrect`, `ReadyAfterGrpc`, `CutWindowsAreLogged`,
  `LateLinesBounded`, `StopIsClean`.
* **Rollout** (`RolloutProofs`). What the gate has not objected to holds of the release in
  force (`GatePassed`); a template applied for the first time is borne by no pod
  (`TemplatesApplied`), so a ready pod that bears the current one has read the ConfigMap
  since (`UpdatedRunsConfigMap`). Theorems `RolloutTypeCorrect`, `RolloutKeepsServing`,
  `GateKeepsPodsStarting`, `RolloutReachesPods`, `LoadedFilterInForce`.
* **Text log** (`LogStreamProofs`). `Reads(r, t, q)`: the text t takes the reader from r
  to q. Readings that meet join (`ReadsJoin`), so the proof follows the rendering:
  an escaped character between quotes (`ReadEscaped`), what `_escape` makes of any text
  (`EscapeRenders`), a field (`ReadField`), all fields (`ReadFields`), the line
  (`FormatIsRead`). The stream alone does not say that the next line will be read as one:
  the invariant `LogInv` adds that the reader is at the start of a line, with nothing of
  an earlier record in hand. Loops over characters and fields are inductions on the
  naturals in first-order form: a set with zero and every successor has them all, by the
  least-number property of `NatLessThanWellFounded`; the recursive functions of
  `FlattenSeq` and `Read` are first shown to have their partial results (`FlattenSteps`,
  `ReadIs`). Theorems `StreamIsRead`, `OneLineHolds`, `ReadsBackHolds`: for texts of any
  length and any number of records.

**Only model-checked.** The liveness properties (`EverySettles`, `RepairEnds`,
`OutcomesReported`, `StopHeldBySilenceOnly`, `ProbeHeldBySilenceOnly`, `FailedStartExits`,
`ReporterEnds`, `ProtectionReturns`): fairness is outside the proof system. Every other property of a passing run is a theorem.

## Not modelled

* Decryption: arithmetic on bytes; its result is an input of the policy.
* Generated stubs and lazy imports. The globals of portnum.py are stored one after the
  other without a switch point of the interpreter in between, and are there before the
  first call in every configuration; the model takes them as loaded. The branch of the
  configuration that skips the name check without protobufs is left out with them.
* The "Unhandled exception" record (zerohop.py:379-385): its traceback makes it several
  lines of the log, so `OneLineEach` is about message and stats records only.
* The JSON log formatter (a library's `dumps`), levels, time stamps, the bootstrap format,
  the wording of lines and of the startup summary.
* The HTTP protocol of the health endpoint beyond who is served when.
* The no-op hooks: EMQX is told of `message.publish` only and calls none of them.
* Images, Compose, the static manifests, the disruption budget, the download and
  generation scripts. A second floodgate behind the same EMQX hook has no shared state
  with the first: `Rollout` shows when both run, `ExHook` models one.
* `AntifloodStats.total`, which has no caller.

## What is left

The parts that carry the program's logic are modelled. Worth adding: `ExHook` with two
pods behind one Service, to bound what a scrape of one pod's counters says about the
whole.
