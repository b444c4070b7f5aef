# Doggy DNS: a TLA+ model, checked and in large part proved

Doggy DNS answers DNS from a Nacos service registry, from the system resolver and
from upstream resolvers, through a chain of authorities wrapped in middleware. On
Linux an XDP program answers repeated questions in the kernel from a map that
userspace fills. This directory models the parts of it whose correctness depends on
order, time, failure or boundaries.

## The system

| Part | State | Operations | Talks to |
|---|---|---|---|
| Nacos failure backoff (`watcher.rs`) | three relaxed atomics | `record_failure`, `record_success`, `is_open` | every query task |
| Nacos service watcher (`watcher.rs`) | ledger of subscribed names, SDK cache, registry, link | `instances` with its entries ServerFirst, CacheFirst, CacheOnly, ClientCache; `subscribe_name` | backoff, Nacos SDK |
| DNS handler (`handler.rs`) with the authority chain and authorities | apex SOA cell per chain entry, rotation cursor, in-flight gauge | `handle_request`, hooks, `resolve`, sends | watcher, XDP cache |
| XDP cache (`middleware/xdp_cache.rs`, eBPF `main.rs`) | pinned LRU map, mutex, expiry times | `after_request`, insert, the kernel's lookup, check and copy | handler, kernel |
| XDP program (`cache.rs`, eBPF `main.rs`, `protocol.rs`) | the frame, a pointer into the map, the hash so far | parse, look up, resize, rewrite, checksum | XDP cache |
| XDP statistics (`stats.rs`, `stats/reader.rs`) | per-CPU slots, baseline, counters | poll, delta, final read | telemetry |
| Process life (`main.rs`, `program.rs`) | sockets, XDP link, pinned map, control port, tasks | start, drain, stop, exit | other processes on the node |
| Telemetry and profiles (`lib.rs`, `endpoint.rs`, `auth.rs`, `profiles/`) | providers, profile stopper, dictionary tables | resolve, build, collect, convert, export, flush | process life |
| Control plane | listener, attach flag | `start_retrying`, `serve`, `readyz` | process life |
| Configuration (`env.rs`, `load.rs`, `validate.rs`) | the loaded file | expand, validate | telemetry |
| Redaction, sampler, log bridge | output only | conversion | |

What makes it hard: queries share atomics and a ledger across awaits; the SDK turns a
failed fetch into an empty list; timeouts race late replies; responses, outcomes and
cache bytes are produced at different steps; writers wait for a mutex with entries
computed earlier; the map outlives the process, and recycles an element while the
program reads it; two parsers must agree on every byte; restarts overlap; two stages
check the same configuration by different rules; and a shutdown has to flush counters
while tasks may not end.

`PROJECT.json` lists each component with its status, each hazard with its line, and
for each definition the source lines it stands for.

## Modules

| Module | Models | Grain of one action |
|---|---|---|
| `FailureBackoff` | the backoff's atomics | one atomic access; accesses Relaxed leaves unordered happen in any order |
| `NacosWatcher` | `instances()`, subscription, SDK cache, registry, link | from one await to the next; the backoff is one step, and so are the reads of window and ledger that choose an entry |
| `DnsHandler` | a request from the hooks to its last send, over a chain | from one await to the next |
| `XdpCache` | admission, lifetime, locked insert, LRU, kernel reply, restart | resolve, read clock and insert are separate, as are the kernel's lookup, expiry check and reply, between which the map may reuse the element |
| `AnswerLease` | what the fast path promises: an answer repeated to its question, by runs that begin within its lifetime | grant, begin, serve, tear, time, forget; `XdpCache` implements it |
| `XdpQuestion`, `XdpSwar` | the kernel's walk over a name against `make_cache_key`, with its word-at-a-time arithmetic | one word or tail byte; pure operators |
| `XdpProgram`, `XdpChecksum` | a packet through `try_dns_xdp`: header checks, the parser above, lookup, resize, both reply writers, headers and checksum | one read of the map element, one chunk |
| `Shutdown` | how one process ends, with poller, exporter, profiler, control task | one slot read, one await of `async_main` |
| `Restart` | several processes on a node claiming link, pinned map, DNS port, control port | one claim or release; reading the pin and loading are two steps |
| `ProfileDictionary` | `build_export_request` and `DictionaryBuilder` | one call of the builder |
| `Telemetry` | expansion and validation of the configuration, `Observability::init`, the profiler's windows; extends `ProfileDictionary` | one stage of start-up, one exporter, one builder call |

`MC*` configurations, with an `MC*` module where a constant needs a definition, give
finite instances; `*_proofs` modules hold the theorems, three of them about two components
each: `Recovery_proofs` (`NacosWatcher`, `Restart`), `SharedState_proofs` (`XdpCache`,
`Shutdown`) and `Remote_proofs` (`Telemetry`, `FailureBackoff`). Operators whose comment starts with "Mutation" are faulty variants of the definition after them;
no specification uses them. Each is substituted for that definition to confirm that a
named property notices it (`mutants` in `PROJECT.json`).

The data is abstract: an instance, a name or a key is a model value, a record list is
its length and its leading record, a response is what its consumers read off it.
`FailureBackoff`, `DnsHandler`, `XdpCache`, `XdpSwar` and `XdpChecksum` keep integer widths
as moduli, `ProfileDictionary` keeps the limit its product saturates at. What is
not under `src/` (registry, SDK cache, kernel map, tokio, hickory's server, signals) is
modelled from how the code uses it and marked external.

Variables called history in the modules are read by no guard; they let a property
refer to the past.

Choices of the models that a reader of the code should know:

- `NacosWatcher.Ask` reads the ledger and the backoff in one step; no await lies between the
  loads. On several threads another task may insert or record between them, so that an
  older ledger meets a newer window: that mixture is not modelled (the backoff's own races
  are, in `FailureBackoff`). `subscribe_name` is three steps: the `contains` check
  (`SubscribeName`), the call (`IssueSubscribe`) and the insert after its await
  (`SubscribeReturns`). `FetchFails` and `SubscribeFails` are the arms for errors that the
  SDK of today does not return; `SdkMayFail` switches them on.
- In `XdpCache` a run of the program looks up its element, checks `expires_at` and replies in
  separate steps. While it holds the pointer, an insert may unlink the element and the next
  one take it (`Frees`, `Overwritten`); from then on what is read may be of either entry
  (`Mixed`), chunk by chunk (`Positive`). Which writer the mutex admits next is left open.
  `write_nxdomain` copies nothing from the entry: the reply is the query's question and the
  code, without the SOA and the AA flag that userspace sends (`Negative`). A
  `negative_ttl` is cut to `u32` where the code cuts it; one so large that
  `ttl * 1_000_000_000` overflows `u64` (over 580 years) is left out.
- In `XdpProgram` the total length of the IPv4 header is read on its own and need not agree
  with the UDP length or the frame. The error returns of `write_nxdomain`, `write_positive` and
  `finalize_headers` have no action: they repeat, for the verifier, bounds that the check
  behind the resize (eBPF `main.rs:244`) has established, and cannot be taken.
- `Telemetry.BuildExporter` stands for the four builders alike; `map` names the logger's, and
  `metrics.rs:98-117`, `traces.rs:11-25` and the profiler's exporter resolve their endpoint and
  headers by the same calls.

## What TLC checks

Passing runs, each exhaustive on its instance:

| Run | Distinct states | Shows |
|---|---|---|
| `backoff` | 596,112 | an open window is earned within the call (`OpenIsEarned`) and covers a failure (`OpenCoversAFailure`) |
| `watcher` | 1,742,040 | a name not yet subscribed is NXDOMAIN only on the server's word (`UnconfirmedIsNeverUnknown`); an open window spares the server (`WindowSparesTheServer`); ledgered names are tracked (`LedgerIsTracked`), and however cold queries race, a task that has subscribed a name does not come to subscribe it again (`OneSubscribePerTask`) |
| `watcher_live` | 69,795 | bounded waits end (`BoundedWaitsEnd`), answered names converge to the registry (`AnsweredNamesConverge`), answers recover after an outage (`RecoveryServesRegistry`) |
| `handler` | 2,808,644 | the outcome is what was sent, cached bytes are the response, failures are not admitted, zone names do not leak upstream, negatives carry the SOA, the gauge counts requests |
| `xdp_cache` | 672,728 | the kernel goes on to answer only within the lifetime of the answer it checked (`ServedWithinLifetime`) and with its code (`ServedCodeIsTheAnswers`), forgets a replaced answer (`KernelForgetsOldAnswers`), and writers, map, kernel and restarts together implement `AnswerLease` (`ImplementsLease`): a reply repeats the answer leased for its own question, unless the map reused the element under the run |
| `xdp_program` | 785,160 | the kernel's key, lowercased and cut word by word, is the key userspace builds byte by byte (`KernelKeyIsUserspaceKey`); a passed frame is the query as it arrived (`PassedIsTheQuery`); a reply is well framed even if its map element is recycled meanwhile (`ReplyIsFramed`), and is exactly the entry if not (`ReplyIsTheEntry`); only a truncated query is dropped (`DropOnlyTruncated`) |
| `shutdown` | 84,546 | no count is invented, after a clean stop the last window is exported, and a process that began to stop exits |
| `restart` | 80,737 | claims are held, fast paths share the pinned map and a read pin is honoured at the load (`PinIsShared`), the node stops answering only with its last serving process, and the last process gets the control port |
| `telemetry` | 274,177 | no exporter posts to a doubled path (`PathsAreNotDoubled`), headers follow their precedence in every spelling (`HeadersFollowPrecedence`), and a receiver reads the collected profile back from closed and shared tables (`RoundTrip`, `DictionaryIsClosed`, `RowsAreShared`) |

### Where code and text disagree

Each of these runs states one sentence of a doc and TLC refutes it. The sentence, its
place and the mechanism are in `findings` of `PROJECT.json`.

| Run | In short |
|---|---|
| `watcher_absence` | `docs/architecture.md:70-71` says no query is served from absence; a ledgered name whose cache entry is empty, or whose fetch the SDK swallowed, is answered NXDOMAIN |
| `watcher_unbounded` | `docs/configuration.md:235-236` says a query waits 3.05 seconds at most; the await of `subscribe` between a query and its answer has no timeout |
| `restart_fast_path` | `docs/deployment.md:267-268` says a new pod keeps serving from the pinned map; one that overlaps its predecessor is refused the attach and never retries. A rollout that stops the old pod first, as a DaemonSet does by default, does not meet this |

Smaller ones, seen in the code and without a run of their own: racing first queries each
subscribe a name (`watcher.rs:342-344` against `:616`, conceded at `:608-609`); failures
that land between two stores of `record_success` leave a full streak without its window
until the next failure (`watcher.rs:63-64` against `:119`); the handler sends REFUSED
after a short circuit (`plugin.rs:9-10` against `handler.rs:135`), which no middleware
outside the tests does; the kernel's NXDOMAIN has neither AA nor SOA
(`docs/architecture.md:24-27` against the eBPF `main.rs:443-451`; `XdpCache.ReplyTo` states what
is repeated); `readyz` reports a manual
attach mode as attached (`docs/configuration.md:310-312` against `main.rs:152`); the
kernel's scan ends at a zero byte inside a label (`cache.rs:43-44` against the eBPF
`main.rs:345`); a truncated query that hits the cache is dropped, and `docs/xdp.md:145-147`
lists it among the passes; a base URL ending in `/v1/traces/`, or with a user's name in it,
and a custom backend without endpoint pass `validate_observability` and stop the process
later, in `Observability::init` (`validate.rs:392` against `endpoint.rs:106`); header and
`basic_auth` values are expanded again for each exporter (`auth.rs:54`), while
`docs/configuration.md:277-278` says references are resolved when the file is loaded.

## Bounds and why they are enough

- **backoff**: 2 tasks, threshold 2, window 1 s, counter modulo 4, clock 0..2. Two tasks
  give every pair of racing calls; the counter wraps past the threshold; the clock can
  pass the window's end and step back on both sides of the stamp.
- **watcher**: 2 queries, a selected and an unselected name, three instances (usable,
  left on disk, unusable), threshold 2, window 1, one registry change. Two queries race
  on one name; a streak, its window and its end all occur. `watcher_live` keeps one name
  and no registry change, because liveness needs the whole behaviour graph, and an SDK that
  returns no errors of its own, since one that always did would never recover.
- **handler**: 2 requests, up to 2 records, cursor modulo 2; metrics with a hook that may
  short-circuit behind it. The chain is chosen at the start: nacos, native, forward, where
  forward always answers, or nacos, native, where every entry may skip.
- **xdp_cache**: 2 writers, 2 keys, room for 1 entry, record TTLs 0 and 1, negative TTL 3,
  `u32` as modulo 2, so that NODATA gets a shorter lifetime than NXDOMAIN; one change of the
  answers, from an answer with records to any kind (`FirstKinds`), and up to 2 entries read
  through one pointer (`MaxMixed`). One kernel run at a time is enough, since runs only read.
  Eviction, expiry at the boundary, a late writer, a reused element at each step of a run and
  a restart onto the pinned map occur; safety, liveness and the refinement are checked on
  the same graph.
- **shutdown**: 2 CPUs with 2 packets each, so a read can be torn between slots.
- **restart**: 3 processes, one of them in manual attach mode, and 2 capacities, one of
  which may be pinned from before: a successor can lose a port, or the pin, to a third.
  2 processes of one capacity for `restart_fast_path`, so that only the attach can fail.
- **xdp_program**: words of 3 bytes in place of 8, names of up to 8 bytes in place of 255, one
  byte of type and class in place of 4, so that a whole question can end less than a word
  after its root label and the tail path succeeds. Labels are made of the bytes on both
  sides of `A` and of `Z`, and a letter with bit 7 set, so that borrows run through words.
  The root label falls on each position of a word, in the tail and past the longest name.
  Labels with a zero byte, at which the kernel's scan stops, are left out. Responses of up to
  11 bytes are copied in chunks of 4, so that every lead occurs, after any number of chunks;
  entries one byte below and above the legal lengths, claims longer and shorter than the
  frame, and 4 bytes of tailroom bring every refusal. Checksums are 5 bits wide, with every
  valid checksum over two sums of the words that do not change, every old total length and
  a fragment word with the don't-fragment bit and one without; the theorems cover the real widths.
- **telemetry**: URLs with each flaw and with every ending the two checks treat differently,
  from every source; header names in two spellings; variables that are unset, empty, plain,
  unsendable or refer to themselves. Endpoints vary with one set of headers and headers with
  one endpoint, since `BuildExporter` computes them separately. Profiles of up to 3 of 7
  samples that share some rows and not others, a nameless symbol, an unresolved frame, a
  count of 0 and one that saturates, in 2 windows; the second shows that nothing is left over.

Symmetry is used on queries, callers and requests, only in runs without liveness. Deadlock
is not checked in the runs of `Shutdown`, `Restart`, `XdpProgram` and `Telemetry`: a
process exits, a packet is dealt with, and a failed start is over.

## Fairness

- `NacosWatcher`: an awake task runs and a bounded call ends in its reply or its timeout
  (weak fairness of `QueryStep`, from tokio's scheduler and timers); time passes (`Tick`).
  The SDK's refresh of tracked names is strongly fair, because a link that flaps keeps
  disabling a poll that the SDK keeps retrying. `FairSpec` adds that `subscribe`
  returns while the registry is reachable, which the SDK promises and the code does not bound:
  `watcher_unbounded` is checked without it.
- `XdpCache`: time passes and a writer that can run does.
- `Shutdown`: after `running`, `main` moves on, since each await has a timeout; a started poll
  finishes; a profile window ends. Nothing is assumed of the control task.
- `Restart`: the control task and a stopping process keep running. Starting and being
  signalled are never assumed.

## What is proved

`tlapm` checks these for every value of the constants that the named `ASSUME` of each
module allows (thresholds and windows positive, the counter larger than the threshold,
TTLs below the `u32` modulus, `NoProcess` no process, trimmed strings strings, a packet's
lengths within a 16-bit word, a chunk no longer than the shortest answer, inputs that are
configurations and environments at all). Two deserve a word. `MetricsAssumption`: the chain has `metrics` at most once and no hook that may
short-circuit before it, as `main.rs:101-107` builds it. `QuestionAssumption`: labels hold no
zero byte, at which the kernel's scan stops.

- **`XdpQuestion_proofs`**: `KernelKeyIsUserspaceKey`, for words of any length, any name
  limit, any labels and any frame. First, what the word arithmetic computes byte by byte:
  `lower_word` lowercases each byte although it subtracts from the word as a whole
  (`LowerWordBytes`: with the high bits set no byte borrows); the zero test may mark bytes
  after a zero byte, but is zero only if no byte is (`ZeroTest`), and the mask made from its
  lowest bit keeps the bytes before the first zero (`LastWordBytes`). Then userspace's key,
  as the words of the lowercased wire form (`WireBytes`, `KeyWords`). `ParserInv` joins the
  two: the words folded so far are the first words of userspace's key, the bytes consumed
  hold no root label, and the tail's partial word is the start of the next.
- **`XdpProgram_proofs`**: `PassedIsTheQuery`, `ReplyIsFramed`, `ReplyIsTheEntry`,
  `DropOnlyTruncated`, and `KernelKeyIsUserspaceKey` of the composed program, for any frame,
  lengths, chunk size and moment of recycling. `ProgramInv` says, stage by stage, that
  nothing is written before the resize (`Untouched`), that the question fits the frame (`Asked`),
  that what was read of the element is the found one's while the element is still that one
  (`Read`), and which bytes have been written and that the rest is a multiple of the chunk
  (`Written`). `ChecksumStaysValid`, which `ReplyIsFramed` rests on, holds for words of any
  modulus of at least 8, 2^16 included: two folds suffice for five addends, and the updated
  checksum is congruent to the recomputed one.
- **`SharedState_proofs`**, `XdpCache`: `TypeOK`, `ServedWithinLifetime`, `ServedCodeIsTheAnswers`, and the
  refinement `ImplementsLease`, for any number of entries mixed in an element. `CacheInv` says
  that every entry, in the map, in the hands of a writer waiting for the mutex or under the
  kernel's pointer, was admitted, stands under its own key, and has no more time left than its
  answer's lifetime less its age, while it has any (`Sound`); and that a run whose element is
  not reused reads one entry, of the question it looked up (`RunOK`). Time, eviction, reuse
  and restart keep that. Under it `after_request` maps to a grant, or to forgetting if the
  lifetime is 0 or the outcome is dropped; an insert, an eviction, a stop and a start to
  forgetting, since the lease was granted when the clock was read, or to tearing the run
  whose element is taken; the expiry check to beginning a repetition, while the lease lasts; the reply
  to serving it; a tick to time passing.
- **`DnsHandlerInv_proofs`, `DnsHandler_proofs`** (the invariant with the steps up to the
  response, then the other steps and the theorems): `TypeOK`, `OutcomeIsWhatWasSent`, `BytesAreTheResponse`,
  `FailureIsNeverAdmitted`, `ZoneNeverLeaks`, `NegativesCarrySoa`, `InFlightCountsRequests`, for
  any chain, hooks and requests. `HandlerInv` is local to a request but for the types:
  `Answering` says, stage by stage, what has been sent and what the outcome holds, and
  `Looking` which entries the lookup has met and which of them failed. A step of one request
  leaves the others' untouched, and the shared cursor and SOA cells enter only through their
  types; that is why races for them cannot break a reply. For the gauge, `GaugeInv` says that
  it is the number of requests that have passed the metrics' before hook and not yet its after
  hook, and each step moves at most its own request in or out.
- **`Recovery_proofs`**, `NacosWatcher`: `TypeOK`, `UnconfirmedIsNeverUnknown`, `WindowSparesTheServer`,
  `LedgerIsTracked`, `OneSubscribePerTask`. `SafeInv` adds to the ledger's invariant what
  each task remembers across its awaits (`TaskInv`): which entry it is in at each await, that a
  name being subscribed is already tracked, and that what it holds came from the server or
  has usable instances. It is needed because an answer is decided before the await of
  `subscribe` and given after it. `BystanderKeeps` disposes of all other tasks at once.
  For `OneSubscribePerTask`, `StandInv` says that a subscribe that succeeded is still awaited by
  its task or has put its name in the ledger, where the next `contains` of that task meets it.
- **`Recovery_proofs`**, `Restart`: `ClaimsAreHeld` (with the types and the fact that a process
  that has yet to bind has no control task); `PinIsShared` (with the facts that a process about
  to load declares a capacity and has no fast path yet); and `NodeKeepsAnswering` from
  `ServesBound`: a process that serves has its DNS sockets.
- **`Remote_proofs`**, `FailureBackoff`: `BackoffTypeOK`, `OpenIsEarned`,
  `OpenCoversAFailure`. The first is inductive. An open verdict is earned because of two facts
  that hold at each access: the counter never runs ahead of the streak unless the streak is
  full, and a load of a full counter happened while `earned` was set (`EarnedInv`). Without the
  second a pending verdict could outlive its streak. `StampsAccounted` says that `opened_at`,
  each pending stamp and each loaded stamp is the clock reading of a failure that completed a
  streak, which bounds the verdict in time.
- **`SharedState_proofs`**, `Shutdown`, for any number of CPUs: `CountsAreNeverInvented` and
  `LastWindowIsReported`. A snapshot is torn: packets arrive on slots already read and on
  slots yet to be read. `SnapshotInv` bounds it from both sides. It is no more than the slots
  it has read hold now, and with what the unread slots hold no less than the baseline, so
  that it cannot pass for a counter reset; `FinalInv` says the same of the final read and the
  count at the stop. `OneMorePacket` is what one packet does to every partial sum.
  `ShutdownComesCloser` is the part of `ShutdownEnds` that needs no fairness: main has a
  bounded number of steps left (`MainLeft`), each of its steps takes one away and no step of
  anyone puts one back; and in the drop of the runtime, where main can only wait, the steps
  of the poller and of the profiler's thread it waits for (`TasksLeft`) never grow. What it
  leaves to TLC is that a step which can be taken is.
- **`ProfileDictionary_proofs`**: `DictionaryIsClosed`, `RowsAreShared` and `RoundTrip` for any
  profile. `DictionaryInv` says that each lookup map is the inverse of its table behind the
  zero row (`Tables`), and that the lines and locations collected so far point to rows
  (`Cursor`). `RoundTrip` speaks of samples that are complete; `Mirrored` adds that the lines of
  the frame and the locations of the stack under construction already decode to the symbols and
  frames they were made from. A table only grows (`Grown`), so what was decoded stays
  (`DecodingStays`).
- **`Remote_proofs`**, `Telemetry`: `PathsAreNotDoubled` and `HeadersFollowPrecedence` for any
  configuration and environment, with paths, header lists and texts of any length; and
  `DictionaryIsClosed`, `RowsAreShared` and `RoundTrip` over any number of profiling windows,
  since a window begins with new tables (`ProfileWindow`). `TelemetryInv` says that every
  exporter has the URL and the headers that the configuration and the environment resolve to
  now, and that a loaded configuration has no reference left unless a variable's content
  brought one in (`PlainConfig`). The latter is needed because values are expanded a second
  time for each exporter: on text without references expansion does nothing
  (`PlainExpandsToItself`). The rest is about the operators. What `resolve_signal_endpoint`
  yields is a URL given for the signal, or lies under a path that does not end in a signal's
  (`ResolvedIsLocated`); repeated insertion keeps one header for each name however it is
  written (`InsertSettles`), and its value is that of the last entry by that name
  (`ListedIsSourced`), which is a configured one if there is any (`LastWins`).

The word arithmetic, the wire form, the sums over the CPUs, the frames of a profile and the
insertion of headers are recursive functions. The library's induction theorems take an operator as a parameter, which
the installed provers cannot instantiate; `SetInduction` derives induction over a set from
the least-element theorem of well-founded relations instead, which takes sets, and
`Recursion` the existence of the function that a recursive definition chooses.

Only model-checked is the liveness, because the prover has no fairness or `ENABLED`
reasoning: `BoundedWaitsEnd`, `AnsweredNamesConverge`, `RecoveryServesRegistry`,
`KernelForgetsOldAnswers`, `ShutdownEnds` and `ControlComesBack`. Every safety property of the
passing runs is proved.

## Not modelled

- Validation of the sections of the configuration other than observability: independent
  tests of single values, made once before anything runs. Resource attributes, node
  exposure and percent decoding of header values.
- JSON-RPC tools and redaction of the control plane: formatting over a snapshot.
- The trace sampler and the error-event layer: a choice per span that nothing depends on.
- How evenly the rotation spreads records: the cursor is in `DnsHandler`, its statistics not.
- Choosing an interface, CPU affinity, the building of plugins and TLS listeners: they
  succeed or end the start, which `Restart` has as `StartFails` and a failed `InitXdp`.
- The kernel log bridge and log lines; the Nacos config watcher, which nothing constructs.
- An operator who removes the pin file while processes run (`XdpCache` has the cold map
  that follows, `Restart` does not), and an upgrade that changes the layout version in its
  path, which is a cold map too.
- What a reply holds when the kernel recycles its element in the middle of the copy:
  `ReplyIsFramed` says that it is well formed, `ServedCodeIsTheAnswers` that its code is no
  failure's, and `AnswerLease` calls it torn and promises nothing else of it.

Three hazards are modelled or seen and covered by no property, because the code does what
they describe: the failure counter that wraps after 2^32 failures (`watcher.rs:109`) lifts the
window early; a failure of the native resolver becomes a skip (`native.rs:80`), so that a
plain NXDOMAIN can be sent and cached behind it, which `FailureIsNeverAdmitted` exempts; and
variables whose content looks like a reference are expanded twice (`auth.rs:54`), which
`HeadersFollowPrecedence` excludes.
