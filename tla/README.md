# TLA+ models of the SkyWalking Rust agent

This directory models the tracing agent in `core/`: what happens to a span
between the call that creates it and the moment its segment is acknowledged by
the collector, given up, or lost with the process. TLC checks the models on
small instances; TLAPS proves every invariant and every refinement for all
values of the constants.

## 1. Inventory

### 1.1 Components

| component | source (`core/src/skywalking/`) | state | operations |
|---|---|---|---|
| context manager | `agent/context_manager.rs` | task-local `CTX`: an `Option` of a `WorkingContext` with its `span_stack` | `async_enter`, `tracing_entry`, `tracing_exit`, `tracing_local`, `finish_span`, `change_trace_id`, `context_exists` |
| tracing context | `core/context.rs` | `next_seq`, `primary_trace_id`, `segment_id`, `finished_spans` | `create_entry_span`, `create_exit_span`, `create_local_span`, `finish_span`, `change_trace_id` |
| span | `core/span.rs` | ids, kind, start and end time, tags, logs, peer, error flag | `start`, `end` (with and without timestamp), `tag`, `log`, `error_occurred`, `set_component_id`, `set_peer`, `merge_span`, clone |
| reporter | `agent/reporter.rs` | bounded mpsc channel; the background task's `vec`, client, timers | `report_trace`, the task's loop, `retry_send_skw`, `send_to_grpc_trace_service`, `loop_retrive_client` |
| segment transformation | `agent/reporter.rs` | none | `gen_segment`, `transform_segments` |
| sw8 header | `core/segment_ref.rs`, `../remote.rs` | none | `for_across_process`, `serialize`, `SegmentReference::from_text` |
| IDs | `core/id.rs` | none | `new_id`, `from`, `to_string` |
| process | `agent/context_manager.rs` 30-32, `agent/reporter.rs` 41-49 | the static `SKYWALKING_REPORTER` and `GLOBAL_RT` | started by the first `async_enter`, ends with `main` |
| configuration, address choice | `agent/config.rs`, `agent/util.rs` | environment, random numbers | `Config::new`, `get_addr_client`, `get_inst_default_ip` |
| collector, gRPC | `../remote.rs` (generated) and tonic, external | what has been read | `collect` |

The rest are plain records (`core/tag.rs`, `core/log.rs`) and traits
(`core/context_listener.rs`, `core/context_carrier.rs`).

### 1.2 How they interact

A request is run inside `ContextManager::async_enter(future)`, which sets `CTX`
for that future to a new tracing context. Code inside it creates spans through
`ContextManager` and owns them as boxed handles; `CTX` keeps only their ids, on
`span_stack`, to know the parent of the next span. `finish_span` consumes a
handle, archives the span in the context of the scope where the call runs, and
pops the stack. Finishing a span with id 0 takes the context out of `CTX` and
moves it into the reporter's channel (`report_trace`), whose answer is ignored.
A background task, spawned with the reporter, moves contexts from the channel
to `vec`, turns a full or old enough `vec` into a streaming gRPC call, and
repeats a failed call. An exit span may hand a `sw8` header to an injector; the
service that receives it is expected to attach it to a span as a tag
`sw8-parent`, from which `gen_segment` builds a reference.

### 1.3 What is hard

`PROJECT.json` lists the hazards at their lines. In short:

- branches of one scope (`join!`, `select!`) interleave on one `span_stack`,
  and `finish_span` pops the top whatever it finishes;
- handles are `Send` and `Clone`: they may be finished twice, in a foreign
  scope, after the context has gone, or never;
- a scope may be cancelled, or unwind from a panic in the middle of creating a
  span;
- the channel may be full while the only task is blocked in a call, a sleep or
  a reconnect;
- a failed call is ambiguous: the collector may have read any prefix, and the
  rest may arrive after the retry;
- dropping the reporter turns `recv` into a source of endless `None`s;
- nothing has a deadline, so progress depends on the collector;
- the clock may be set back, or show a time before the epoch, between any two
  calls; spans are cloned and merged after some of their tags have been set;
- a header comes from any agent, any number of times, damaged or not, and with
  a trace id that is not of this agent's form;
- the process may end at any time, and nothing flushes the static reporter.

### 1.4 What makes each component correct

- *Context manager*: a context is reported at most once, by the first span 0;
  parents are older spans of the same context; if code keeps to the rules, the
  segment is complete, headers resolve, and sequential code gets the tree of
  its calls.
- *Reporter*: each accepted segment is settled exactly once, oldest first,
  never before it was read by the collector if acknowledged; copies are
  bounded; first reads keep the order of the calls; accepted segments are
  settled in the end if the collector answers.
- *sw8 header, segment transformation, configuration*: what one service writes,
  the other reads; a reference names a segment, a span and an instance that
  exist; a trace has one root.
- *Span*: what is sent has the tags and the error recorded on the span or handed
  to it by cloning and merging, in order; an end that was given is kept (it is
  not, see section 5), and a duration is not negative.
- *Process*: the spans of a scope are traced, refused, delivered, logged or lost
  together; a scope that waits is settled in the end if the process goes on and
  the collector answers.
- *Address choice*: every other address is preferred to one of 172.16/12, and
  both to loopback, in whatever order the interfaces come. Whether an address
  is private is not asked otherwise.

## 2. Modules

| module | models | lines of code it stands for |
|---|---|---|
| `ContextManager` | context manager, tracing context, spans | `context_manager.rs` 26-282, `context.rs` 58-227, `span.rs` 84-282 |
| `ContextManagerProps` | its properties | |
| `CallTree` | abstract: what sequential code may rely on | |
| `Reporter` | channel, background task, retry loop, the collector as seen from them | `reporter.rs` 51-89, 153-277 |
| `ReporterProps` | its properties | |
| `SegmentDelivery` | abstract: what an application may rely on | |
| `Propagation` | sw8 header, references, segment transformation, instance names, IDs, over `ContextManager` | `segment_ref.rs` 168-194, `id.rs` 41-89, `remote.rs` 50-103, `reporter.rs` 93-151 and 279-292, `config.rs` 31-88 |
| `SpanData` | what is recorded on a span, and the span object sent of it | `span.rs` 84-328, `context.rs` 222-227, `reporter.rs` 93-140, `tag.rs` |
| `Agent` | `ContextManager` over `Reporter`, until the process ends | `context_manager.rs` 30-32, 264-273, `reporter.rs` 41-49 and what the two model |
| `TraceFate` | abstract: what becomes of a traced scope, end to end | |
| `InstanceIp` | choice of the address | `util.rs` 8-44 |
| `MCContextManager`, `MCReporter`, `MCPropagation`, `MCInstanceIp`, `MCSpanData`, `MCAgent` | instances for TLC | |
| `ContextManagerProofs`, `StructuredProofs`, `SequentialProofs`, `ReporterProofs`, `AgentProofs`, `PropagationProofs`, `SpanDataProofs`, `InstanceIpProofs` | theorems | |

### 2.1 ContextManager

*State.* `phase[c]` is the life of a scope `c`: not entered, `working` (`CTX` is
`Some`), `taken` (`CTX` is `None` after the report), `exited`. `nextSeq`,
`traceId`, `spanStack` and `finishedSpans` are the fields of the context with
these names. `held[f]` is the set of handles a future owns: a future is a piece
of code polled on its own, and `Home[f]` is the scope whose `CTX` it sees. Two
futures with one home are branches of a scope. `injected` and `reported` record
headers sent and segments passed to `report_trace`.

*Atomicity.* No operation contains an `.await`, and `CTX` belongs to one task,
so an operation is one step; futures interleave between operations.

*Names.* A span record carries its creator's scope and a copy number, which the
code does not keep; they let properties say which handle is meant. A context
draws two ids, one for the trace and one for the segment: `NewTraceId(c)` is the
first, and the name of the context stands for the second.

*Actions.* `AsyncEnter`, `TracingEntry`, `TracingExit`, `TracingLocal`,
`ChangeTraceId`, `FinishSpan` are the operations. `CreateSpanPanics` is a
creation that panics after it took an id: `tracing_entry` with an extractor is a
`todo!()`, and an injector that calls the context manager finds the `RefCell`
borrowed. `EndSpan`, `CloneSpan`, `SendSpan`, `DropSpan` are what an owner may
do with a handle on its own, and `LeaveScope` is the end of the scope's future
by return, cancellation or panic. An operation called without a context returns
`None` or does nothing; only `finish_span` still consumes its handle.

*Three specifications* differ in the code they allow:

- `Spec`: any code;
- `StructuredSpec`: each span is finished once, in the scope that created it,
  the first span last, and the trace id is not replaced after a header has been
  sent; branches still interleave in any order;
- `SequentialSpec`: moreover, the innermost open span is finished first.

### 2.2 Reporter

*State.* `queue` is the channel; `batch` and `nones` are `vec`, split into its
`Some` entries and the number of `None`s, which only come after them; `attempt`
is `i` of the retry loop; `pc` is the `.await` at which the task is suspended.
`loop_retrive_client` is awaited at three places (start, top of the loop, after
an unknown error), which are three values of `pc`. Segments are numbered in the
order of the calls of `report_trace`. `streamed`, `late` and `received` belong
to the collector and the network.

*Atomicity.* A step of the task runs from one `.await` to the next, or to a
point at which another thread can tell the difference.

*The collector* (external) reads the stream of the current call in order and
answers `Ok` only when it has read all of it. A call may fail at any time, with
a code that is retried at once or with one that makes the task retrieve a new
client. Up to any number of the segments written so far may then still arrive,
later, in any order that respects the batches; HTTP/2 usually discards
them, so this allows more than happens.

*Time* is abstracted: a timer that may have expired is a choice. A receive that
times out has waited `REPORT_BUCKET` since the last flush, so a non-empty `vec`
is flushed then; in all other cases both outcomes are possible.

*Left out.* `TrySendError::Closed` cannot happen, as the task that owns the
receiver never returns. The content of segments is not looked at here.

### 2.3 Propagation

*Composition.* `Propagation` extends `ContextManager`: its steps are those of
`StructuredNext` that leave the trace id alone, and `TakeUp`. Each scope belongs
to a service (`ServiceOf[c]`), that is to a process with one `Reporter`; its
branches may interleave.

*State.* `parentTags[c]` holds the `sw8-parent` tags on the spans of a context;
`injected` of `ContextManager` is the set of headers that were sent.

*External: the receiving code.* Nothing under `core/` sets the tag or calls
`change_trace_id`; `gen_segment` only looks for the tag. `TakeUp` is code that
uses the agent as intended: before its scope calls another service it tags an
open span with a text it received, and continues the trace of the first text
that can be read. The network delivers a header to any scope, any number of
times; texts of the older nine-part format, damaged ones and those of another
agent come in too. A damaged text is one that cannot be decoded: there is no
checksum, and `from_text` takes a text whose damaged parts still decode, so that
nothing could be said of it.

*IDs.* `new_id` draws 64 random bits, so that all ids drawn differ: those of
contexts, and the trace id from the segment id of a context. Their names stand
for their `NumID` and for that ID's text. A `StrID` holds any text.
`change_trace_id` takes an `ID`, and code can make one of the text in a header
with `ID::new_by_string`, or with `ID::from` if it has three parts that are
integers, as only the texts of `NumID`s have: `IdsFor` has both. The two are
different ids with the same text, and the text is all that is sent (`TextOf`).
Another agent's ids are texts `"trace"` and `"segment"`.

*Texts.* A text is the sequence of the parts between dashes, each marked with
its encoding; base64 has no dash and a span id that is sent is not negative, so
joining and splitting are inverse. `Readable` is the condition under which
`from_text` returns `Some`, `ReferenceIn` what it returns.

*Segments as sent.* `TransformSegments` is a function of `reported` and
`parentTags`: what the tasks of all services may send. What becomes of it on
the way is the subject of `Reporter`, and the properties hold for every part of
it that arrives.

### 2.4 SpanData

*State.* `data` has the fields of each `TracingSpan`; `place` is who owns it:
code, `finished_spans`, or nobody any more after `merge_span`. `clock` is what
`SystemTime::now` showed last, it may show anything next. Values are told apart
by the number of the call that set them, which is all the properties need; the
remaining variables are the history the properties speak of.

*Actions.* One for each method with an effect. A `Box` has one owner, so calls
do not overlap. `FinishSpan` is `ContextManager::finish_span` with
`TracingContext::finish_span`: it reads the clock once, and a second time if
the first reading left the end time at 0, which `is_ended` takes for not ended.
A `duration_since` that fails leaves the start time, or ends the span at it.
`SpanObject` is `gen_segment` for one span: no logs and a constant component id.

### 2.5 Agent

*Composition.* The step of `ContextManager` that reports a segment is the step
of `Reporter` that is `report_trace`; all other steps of code, task, collector
and network interleave. The n-th call of `report_trace` is segment n of
`Reporter`, so that `reported[n]` is its content. Code is structured, so that
the whole span tree of a scope is in its segment. The reporter is a `static`: it
is created by the first `async_enter`, which the task waits for, and never
dropped. The reporter's bound `MaxSegments` is the number of contexts, which
excludes nothing, as a context is reported at most once.

*The end of the process.* `ProcessEnds` may happen between any two steps;
afterwards only the collector and the network move. `running` is the process;
nothing is persistent, so there is no restart to model: a process started
again is the initial state, with new ids.

*Refinement.* `Fate(c)` says what has become of scope `c`; `line` is the scopes
in `batch` and `queue`; `known` is the spans the collector has read of it. Under
this mapping `Agent` implements `TraceFate`, in which a scope is all or nothing.

### 2.6 InstanceIp

One step reads one interface; the filter and the insertion happen in the same
step, since the code filters lazily and sorts what was collected. The sort of
std is external, it is stable and asks the comparator only for `Less`.

## 3. Runs

| run | instance | question |
|---|---|---|
| `reporter` | channel 2, batches of at most 2, 2 attempts, 4 segments | is no segment lost, settled twice, read too often or out of order, is `SegmentDelivery` implemented, and is every accepted segment settled if the collector answers? |
| `context_any` | 2 scopes of a future each, 2 and 1 spans, a clone of any span | does anything break when handles cross scopes, are cloned, dropped or finished twice? |
| `context_structured` | 1 scope, 2 branches, 4 spans | is the segment of well-behaved concurrent code one complete tree? |
| `context_sequential` | 2 scopes, 3 and 2 spans | does sequential code get its call tree? |
| `propagation` | 3 scopes of 3 services with 1, 2 and 1 spans and 0, 1 and 2 tags | do references name what exists, and has a trace one root? |
| `span_data` | 3 spans, clock -1..2, 2 recording calls | is what is sent what was recorded? |
| `agent` | 2 scopes with 3 and 1 spans, one with 2 branches; channel 1, batches of at most 2, 2 attempts | is a scope traced, refused, delivered, logged or lost as a whole, and not waiting for ever? |
| `instance_ip` | 4 interfaces, 10 addresses of all kinds | is the first address of the best kind chosen? |
| `sealed_end`, `stack_top`, `foreign_span`, `two_configs` | smallest instance that shows it | disagreements, section 5 |

*Bounds.* `MaxSegments`, `MaxSpans`, `MaxCopies`, `MaxTags` and `MaxCalls` bound
histories, they are guards of `ReportTrace`, of creation, of `CloneSpan`, of
`TakeUp` and of `Record`. In `reporter` four segments fill the channel while a
batch of two is in a call, so that a segment is refused, and the two attempts
distinguish the first, the last and a failed one; a third attempt adds nothing
but one more repetition of `Backoff`. In `context_structured` four spans allow
two branches to hold two spans each, the smallest case in which both may finish
in the order of creation and in the opposite one. In `context_any` a first span
and a later one may be finished in the wrong scope, before or after that scope's
own first span. `Times` has one value, as only "ended or not" matters there;
`span_data` is about times, and has one before the epoch, the epoch, and two
after. In `propagation` the middle service has two spans, so that it can take up
a header on one and call on with another, and a third scope gets a header whose
trace id was drawn by another context than its segment id; it may also take up a
second one, of another trace, of another agent or unreadable. One future holds
all spans of a scope there: it may finish them in any order that several could,
and no property depends on which future it was. With two spans, the first
finished last, there is only one such order; more are covered by
`context_structured` and by the theorems, which hold for any number of spans and
branches. In `agent` a channel of one is full while the other scope waits, so
that a scope can be refused. The theorems of section 4 show that bounds do not
matter for the properties they cover.

*Constraints* keep instances small where a choice makes no difference. In
`context_any` code creates exit spans (`OnlyExit`): they do all that the other
kinds do, and may inject. The trace id of a scope, which nothing but headers
and segments read, is changed there only while the other scope has no span
(`ChangedAlone`). In `propagation` it creates no local spans
(`NoLocalSpans`), which differ from entry spans in their type only, and in
`agent` only those (`OnlyLocalSpans`), as kinds and headers do not concern the
reporter. In `context_any` and `propagation` a span that code has ended itself is
followed no further (`EndedByFinish`): finishing it does the same as finishing
one that is open, and no id, tag or header depends on times;
`context_structured` follows such spans. In `span_data` times vary while nothing
is recorded, with one span of any kind or two local ones, and when something is,
the clock stands still (`RecordOrWait`): no method that records looks at the
times, and no other looks at tags. The spans there are
symmetric. The theorems need none of these constraints.

*Deadlock.* The reporter never stops, and its runs check deadlock. The other
systems stop when all scopes have been left, all spans finished, all interfaces
read, or the process has ended, so their runs do not.

*Fairness.* `reporter` assumes weak fairness of `TaskStep`, the steps of the
task that need no answer, and `agent` of `Task`, the same steps in a process
that runs: tokio polls a task that is ready, and timers fire. Nothing is
assumed of the application or of the collector; `EventuallySettled` instead has
the premise that the collector is reachable from some point on and that calls
are answered again and again (`collect` has no deadline, so a call that is
never answered does block the task for ever), and in `agent` that the process
goes on.

*Mutants.* Definitions whose comment starts with "Mutant" are plausible bugs of
the definition that follows them: no behaviour uses them. They show that each
property depends on the code: with the mutant in place of the original, the run
named in `PROJECT.json` finds the property violated.

## 4. Proofs

All theorems are about the specifications of the modules (`Spec`,
`StructuredSpec`, `SequentialSpec`, `PSpec`, `ASpec`), with no bound on the
constants but their types; further assumptions are named below. Every invariant
of a passing run has its theorem, and so has every refinement
(`ImplementsDelivery`, `ImplementsCallTree`, `ImplementsTraceFate`).

- `ReporterProofs`: `TypeCorrect`, `ReporterImplementsDelivery`,
  `SegmentsInOnePlace`, `AckedSegmentsWereReceived`, `CopiesAreBounded`,
  `FirstReadsAreInOrder`. `RTypeOK` is inductive but for a few relations between
  `pc`, `batch`, `nones` and `streamed`, added in `TypeInv`. With it each step
  of the reporter is shown to be a step of `SegmentDelivery` or a stutter:
  taking a segment from the channel moves the border inside
  `batch \o queue`, and the end of a call or the last attempt settles the
  oldest ones. `EachSegmentInOnePlace` is then an invariant of the abstract
  specification, and is proved there. For the last three the inductive
  invariant `CollectorInv` counts copies: a segment of the batch has at most one
  copy per attempt begun, and a copy in this attempt only if it is among the
  first `streamed`; a segment in the channel has none.
- `ContextManagerProofs`: `TypeCorrect`, `ContextReportedOnce`,
  `SegmentEndsAtSpanZero`, `ParentLinksAreAcyclic`. The first three are
  inductive given the types. For the last, a scope that has not been entered
  has given out no id (`FreshScopes`), so ids only grow and an old span stays
  older; each span after a step is new, or has the identity of a span before it
  (`HeldStep`, `ArchivedStep`); and the stack stays ascending because pushes
  are fresh ids and pops keep a prefix.
- `StructuredProofs`: `SpansAreOpenOrArchived`, `SegmentsAreComplete`,
  `HeadersAlwaysResolve`, under `StructuredSpec`. `OpenOrArchived` alone is not
  inductive, as it says nothing of how many spans there are. The invariant
  `Sound` relates the open spans, the archive, the stack and the counter of a
  scope: the ids open or archived are all that were given out, there are as
  many spans as ids (so that none occurs twice), the stack is as high as there
  are open spans, and its bottom is the first span. The stack's other entries
  may be wrong when branches overlap, and the proof does not need them. Only
  four things can happen to a scope (`ScopeStep`): a span is opened, replaced by
  itself with an end time, archived, or all is given up; each preserves `Sound`.
  `SegmentsAreComplete` assumes `0 \notin Times`, a clock after the epoch:
  otherwise a span can be archived that does not count as ended. That a segment
  is one tree follows from `ParentsAreOlder`: a parent is an older id, and the
  segment has all ids up to its last (`NoDanglingParent`).
  `HeadersAlwaysResolve` follows a header's span from the open spans to the
  archive to the segment.
- `SequentialProofs`: `SequentialStackTopIsOpen`, `ScopesImplementCallTree`,
  under `SequentialSpec`. A sequential step is a structured one, so `Structured`
  holds; added to it is `Nested`: the ids on the stack of a scope are those of
  its open spans. It is inductive because the stack ascends
  (`ParentsAreOlder`), so that its top, which `FinishSpan` pops, is the greatest
  id, and sequential code finishes the span with the greatest id. So the claim
  of `context_manager.rs:253` that `stack_top` refutes for branches does hold
  for sequential code. For the refinement, opening a span adds a greatest
  number to the open ids and a next node to the tree (`AscendingAppend`,
  `TreeGrows`), ending or archiving it changes neither (`SameTree`), and the
  segment of the first span is the tree (`TreePublished`); no second one
  follows because of `ReportedOnce`. `TreeStep` writes the steps of `CallTree`
  in terms of a scope.
- `PropagationProofs`: `NoReferenceIsMadeUp`, `ConfiguredInstancesAgree`,
  `TagsAndSegmentsTyped`, `ReferencesAlwaysResolve`, `TracesHaveOneRoot`. Every
  step of `Propagation` is a structured step of `ContextManager` or leaves it
  alone, so that the theorems of `StructuredProofs` hold, branches included. A
  tag is always a text that came in (`TagsCameIn`), and reading such a text
  gives back the header it was written from or nothing (`ReadIncoming`). For the
  last theorem, `Rooted`: a scope has the trace id of its own and no reference
  that can be read, or that of one of its references; and the scope that drew a
  trace id found in a header or in another scope has no reference: it has sent
  that header, and a scope takes up nothing once it has called. As ids are
  contained once in a segment (`OneSpanForAnId`, by the pigeonhole principle),
  the tags of a span are all sent with it. Assumed of ids: those that contexts
  draw differ, no text of a `StrID` here is one of them itself, and another
  agent's ids are not contexts'. `ConfiguredInstancesAgree` assumes `Configured
  = Services`; `two_configs` shows that the assumption is needed.
- `AgentProofs`: `AgentImplementsTraceFate`, `DeliveredScopesAreWhole`,
  `EveryFateIsFinal`, under `ASpec`. A step of the agent is
  a structured step of the scopes or leaves them alone, and a step of the
  reporter, with as many segments as there are contexts, or leaves that alone
  (`StepsOfBoth`), so that the theorems of both hold (`AgentIsBoth`).
  `AgentInv` joins their invariants by `Numbered`: segment n of the reporter is
  `reported[n]`, and its scope has a span. `View` replaces the `CHOOSE` in
  `Fate` and `Known` by the fate of a segment (`Outcome`, `Arrived`) or of a
  scope without one (`Before`), using that a scope is reported once. A step
  that reports is `Complete`, refused only if the channel is full, when at
  least as many scopes are in line (`ReportSteps`). For the other steps of the
  task the proof goes through the refinement that is already there: each is a
  step of `SegmentDelivery` (`DeliveryStep`), and when that settles the oldest
  k segments, the scopes they came from are the first k in line
  (`SettleSteps`), which have arrived whole if the call was acknowledged. What
  `TraceFate` means for one scope follows from the refinement:
  `DeliveredIsWhole`, a scope counts as delivered only when the collector has
  every span of it, and `FatesAreFinal`, neither a retry, nor a late copy, nor
  the end of the process changes a fate that is final.
- `SpanDataProofs`: `TypeCorrect`, `SentAlwaysTellsAll`, `TagsAreInOrder`,
  `DurationsAreNotNegative`. `Tells` relates the tags
  and the error of a span, wherever it is, to the calls that reached it;
  `TagsOrdered` says of any tag anywhere that a span which holds a later tag
  of the same owner holds the earlier one too, and before it;
  `TimesAgree` its times to the clock: an open span whose start was not given
  by code starts at or before the present reading, unless the clock has been
  set back since.
- `InstanceIpProofs`: `LessIsStrictWeakOrder`, `TypeCorrect` (only addresses
  that were read are collected), `AddressesAreSorted`, `FirstOfBestIsChosen`.
  The last needs one fact more than sorting, that insertion is stable: equals
  among loopback or 172.16/12 addresses stay in the order of the interfaces.

Only model-checked: liveness, that is `EventuallySettled` in `reporter` and in
`agent`. Both rest on weak fairness, whose definition contains `ENABLED`, for
which tlapm has no rules.

## 5. Disagreements between code and comments

- `sealed_end`: `span.rs:48` to `:51` say that `end` and `end_with_timestamp`
  seal the end time and that `finish_span` is needed to archive the span;
  `finish_span` calls `end` once more (`context_manager.rs:65`) and overwrites
  it. The guard of `context.rs:223` comes after that.
- `stack_top`: `context_manager.rs:253` says the stack follows the creation of
  spans; when branches of a scope finish in creation order, a finished span
  stays on top and becomes the parent of the next span.
- `foreign_span`: `context.rs:53` says a span of another context is refused;
  it is archived.
- `two_configs`: `config.rs:24` says the service instance changes when the
  machine restarts; `Reporter::new` makes up two within one process
  (`reporter.rs:158` and `:196`), one for segments and one for headers.

Evident from the lines, so without a run: `reporter.rs:248` says three retries
and `RETRY_NUM` makes five attempts; `reporter.rs:63` and `:72` speak of retries
and of logging to disk when the channel is full, but every call passes
`try_times = 0` and ignores the result, so neither happens; `span.rs:74` says
that `merge_span` takes over tags and peer info, and it takes over tags and the
error; `reporter.rs:133` and `:136` send a constant component id and no logs,
whatever was recorded; `id.rs:59` says that `ID::from` returns `None` for a text
that is no id, it returns an error; `segment_ref.rs:176` says that the header
ends with the address of the target service and `serialize` writes that of the
collector; `from_text` gives a reference type 1, `CrossThread`; `util.rs:7` says
that the address is that of the local network, and `get_inst_default_ip` takes
8.8.8.8 before 192.168.0.1, and any public or IPv6 link-local address before one
of 172.16/12.

## 6. Not modelled

- Operation names and layers: fixed when a span is created, read by nothing but
  the last conversion. The references a span keeps itself: `_add_ref` has no
  caller.
- The branch of `report_trace` for `try_times > 3`, which no call reaches.
- Overflow of `next_seq` after 2^31 spans of one context.
- A context whose id 0 was burnt by a panic, or whose first span was dropped or
  moved away, is never reported; the models allow these behaviours, and no
  property forbids them, since the code does not.
- A child span finished after the first span of its scope is discarded, and a
  trace id changed after a header has been sent splits the trace: `Spec` allows
  both, `StructuredSpec` neither, and no property forbids them.
- The three integers of a `NumID` and the parsing of their text, the random
  numbers behind them, and the text of names, tags and log events.
- The fields of `SegmentRef` that `serialize` does not write, and the parser of
  the older header in the tests of `context.rs`.
- The generated client and server in `remote.rs`, and transport reconnects
  inside tonic.
- `context_listener.rs` and `context_carrier.rs` only declare traits.

## 7. Plan

1. Done: context manager and reporter, their abstract specifications, their
   theorems.
2. Done: `Agent`, the two composed, over `TraceFate`; `SpanData`.
3. Done: `Propagation`, over `ContextManager`, and `InstanceIp`.
4. Done: proofs under `StructuredSpec`, of all invariants of `Propagation`, and
   of `ImplementsCallTree`.
5. Done: branches in `Propagation`, a segment as one tree, the proof of
   `ImplementsTraceFate` and what follows from it for a scope.
6. Left: an end-to-end statement over `Propagation` and `Agent` together, that
   is, references between segments that were delivered by different processes,
   each with a channel of its own.
