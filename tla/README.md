# A TLA+ development of ccbunshin

ccbunshin is one Go program with two faces. As a **command** it keeps named
profiles of settings for Claude Code, launches `claude` with one of them, and
manages a daemon; as a **daemon** (`--proxy-server`) it is a local HTTP proxy
that picks a provider for each request by its model id and either passes the
request through or translates between the Anthropic Messages API and the OpenAI
chat-completions API. All code is in `src/cmd/ccbunshin`; line numbers below are
those of `main.go` unless another file is named.

## 1. Inventory

| component | state it keeps | operations | talks to |
|---|---|---|---|
| Stream translation (`stream.go`) | open and next block index, block state, tool-call accumulators, stop reason, usage | `run`, `dispatch`, `handleChunk`, `append*`, `start`, `finish`, `emitError` | upstream body, client (each event is flushed) |
| Request handling (391-855) | per request: context, status, bytes; none shared | `ServeHTTP`, `passThrough`, `serveOpenAIChat`, `serveTranslated*`, `serveCountTokens`, `logRequest` | client, upstream, routing, translation |
| Shutdown (1004-1024) | the listener | `runServer` | SIGTERM, requests in flight |
| Routing and configuration (140-336, `dialect.go`) | the loaded configuration, immutable afterwards | `loadConfig`, `planFor`, `resolve` | the configuration file |
| Credentials (356-390, 900-1002) | none; reads the environment per request | `authorized`, `applyProviderAuth`, header copies | request headers |
| Request and response translation (`translate.go`) | none | `translateAnthropicRequest`, `translateOpenAIResponse`, `estimateRequestTokens` | request handling |
| Proxy lifecycle (1260-1273, 1790-1958) | two pid files, the process table | `start`, `stop`, `restart`, `status` | the daemon, other commands, only through files and signals |
| Launch of claude (1679-1788, 2590-2604) | `launchCleanups`, a temporary settings file | `buildClaudeCommand`, `runExec`, the signal goroutine | claude, the terminal |
| Profile store (1026-1245, 1333-1495, 1553-1672) | profile files, global and local markers | `create`, `model`, `delete`, `global`, `local`, resolution | the file system, other commands |
| Environment expansion (`profileenv.go`) | none | `expandProfileData` | launch |
| Shell hooks (1497-1613) | rc files | `init`, `uninstall` | the file system |
| Self-update (1960-2235) | the binary | `update`, `version` | GitHub, the file system |
| Logging (`log.go`) | the threshold | `logf` | all of the above |

What is hard about each, and what makes it correct:

* **Stream translation.** The upstream interleaves reasoning, text, tool-call
  fragments, finish reason and usage as it likes and may break off anywhere;
  Anthropic's grammar wants blocks one at a time, indexed, thinking signed, and a
  single end. Correct: no event out of place, no fragment lost or in another's
  block, an honest closing report, and an end.
* **Request handling.** The status is committed before the body is known; client,
  upstream, timer and SIGTERM act in any order. Correct: a failure never looks like
  a success, the right party is blamed in the log, and every request ends.
* **Proxy lifecycle.** Commands share only files and signals; daemons crash,
  machines reboot, process ids are reused, commands are killed half way. Correct: what
  runs is recorded, unless its start ended before the record was written; of what is
  recorded, stop means stopped and start means one daemon.
* **Launch.** Two goroutines share a slice without a lock, and a file of expanded
  secrets must outlive claude's start but not the launch.
* **Routing.** Five layers (route, override, provider, default, caller's id) decide
  a target and a dialect, each of which needs the other. Correct: first match wins,
  no caller's id reaches an upstream that has a replacement, and an id that an
  upstream refuses gets there by the paths alone that loading does not check.
* **Credentials.** A gate takes the caller's credential away, pass-through rules move
  one header into another, and the provider's own are put in; any variable may be
  empty. Correct: a shut gate stays shut, a provider gets what its entry names and
  nothing of the caller's in its place, and a caller's own credential arrives where
  nobody else has one.
* **Translation of bodies.** Merging and reordering of messages must lose no content.
* **Environment expansion.** `$$`, braces, digits and values with dollars of their own
  next to each other; one value of a block may fail after another was expanded.
* **Profile store, hooks, update.** Files rewritten by commands that may overlap, fail
  half way or be killed; searches, look-ups and edits that other commands overtake.
  Correct: what is replaced by a rename is always whole, what is rewritten in place is
  whole when nobody was interrupted, an edit or an answer belongs to some moment of
  the command's own time, and what init adds uninstall takes away, and no more.

`PROJECT.json` lists the hazards at the line where each bites, with the properties
that watch it, or why none does yet.

## 2. Modules

| module | models | notes |
|---|---|---|
| `AnthropicClient` | the caller of a translated stream, outside the repository | one operator per event; an event out of place makes the message `malformed` for good |
| `StreamTranslator` | `stream.go` and `serveTranslatedStream` | composes with the client: every `emit` is applied to `wire.client` |
| `AnthropicMessage` | the abstract promise: blocks grow in order, one open at a time, one end | implemented by `StreamTranslator` |
| `StreamProperties` | the properties, the inductive invariant, the refinement mapping | |
| `StreamTranslatorProofs` | the proofs | of the order of events, and of what they hold |
| `RequestHandling` | `ServeHTTP` to `logRequest`, and `runServer` | requests, upstream, client, timer, SIGTERM |
| `RequestProofs` | the proofs | |
| `ProxyLifecycle` | the four proxy commands, the pid files, the process table | every system call is a step |
| `ProxyLifecycleProofs` | the proofs | |
| `ClaudeLaunch` | one launch and the signal goroutine | the data race on `launchCleanups` is modelled |
| `RoutePlan` | `planFor`, the validation of routes, what is sent | operators, and the two actions that load and route |
| `Credentials` | `authorized`, the header rules of both dialects, `applyProviderAuth` | operators on headers |
| `Gateway` | what the daemon does with a request before it is sent | composes the two above; configurations, environments and callers are initial states |
| `GatewayProofs` | the proofs | |
| `Conversation` | `translateAnthropicMessages`, `mergeSameRole`, `translateOpenAIResponse` | in a loop: answers join the transcript of the next request |
| `ConversationProofs` | the proofs | of both directions, by induction over the transcript |
| `EnvExpand` | `expandProfileEnv`, `expandEnvString`, `envNameAt` | the scan, one iteration a step, against the meaning of a text place by place |
| `LaunchProfile` | `buildClaudeCommand` | composes `EnvExpand` and `ClaudeLaunch`: no settings file before the block is expanded |
| `LaunchProofs` | the proofs | of both |
| `ProfileStore` | `create`, `model`, `delete`, `local`, `global`, `launch`, `run` | every system call is a step |
| `ShellHooks` | `init`, `uninstall` and the user's own edits | every system call is a step |
| `SelfUpdate` | `update`, `compareVersions` | with a release page that changes |
| `CommandLine` | the three above, side by side | they share no file; see below |
| `ShellHooksProofs`, `CommandLineProofs` | the proofs | of the rc files, and of all three |
| `MC*` | instances for TLC | |

`StreamTranslator` and `RequestHandling` meet at `serveTranslatedStream`: the
first models what the stream says, the second when it is cut and what is logged;
`RequestHandling.StreamFails` is the step in which `StreamTranslator` goes from
`failed` to `returned`. `RequestHandling` and `ProxyLifecycle` meet at SIGTERM: the
first models what the daemon does with it, the second only that it ends some
time after (`Ends`). `RequestHandling.Call` is where `Gateway.Forward` has decided
what goes upstream. `LaunchProfile` runs the expansion of a profile as the part of
`ClaudeLaunch` before its temporary file is made. `ProfileStore.Read` ends where a launch
begins.

`CommandLine` has one of its three parts at work in a behaviour, named by `part`. The
profile store, the rc files and the binary are different files, no step of one part
reads or writes a variable of another, and every property is about one part's
variables, or is a conjunction of such; so a behaviour in which all three are at work
has, for each part, the steps of a behaviour here and stutters in between.

Each definition that models code is mapped to its lines in `PROJECT.json`. How
state corresponds to code:

* **StreamTranslator.** `wire` bundles the fields the append functions change
  (`nextIndex`, `openIndex`, `state`) with the client that hears each event;
  `started`, `finished`, `tools`, `stopReason`, `usage` are the fields of those
  names. `run` and `todo` are the control of `run` and `handleChunk`: `ReadChunk` is
  `dispatch` up to the point where the parts of the chunk are known, `HandlePart`
  one call of an append function. `heard` is a history variable. Text is counted
  in fragments with their source; the SSE framing is gone, since chunking is
  invisible to the output by construction of `ReadString`. A fragment's tool-call
  id is left out: it only names the block.
* **ProxyLifecycle.** `files` are the two pid files ("torn" is the empty file between
  `O_TRUNC` and the write), `table` the process table, `cli` the local variables and
  program counter of each shell's command. `Probe`'s failure on any error,
  `Unlink`, and the `WriteFile` in two halves are as in the code. A `zombie` is
  a child whose parent is still in its grace period. `os.FindProcess` may or may
  not hold a pidfd, so `Wait` may or may not notice that a pid was reused. A command
  may be killed alone between any two of its system calls (`Killed`); `Reboot` ends
  everything but the files. `history.strays` are the daemons whose start was killed, or
  could not write, between the fork (1822) and the end of `os.WriteFile` (1828): they run
  and no file names them.
* **ClaudeLaunch.** `main` and `handler` are the two goroutines' program counters,
  `cleanups` is the shared slice: "torn" while `append` stores it, "crossed" and
  "mixed" when the handler's `nil` falls within. Go gives no meaning to the
  race, so reading a torn slice yields any outcome the three-word store can.
* **RequestHandling.** A record per request: where its handler is, its context, the
  upstream's progress, the fault a further read would meet, the status and ending
  the client got, the levels logged. Bodies are counted in parts.
* **RoutePlan, Credentials, Gateway.** Ids and patterns are strings alike (`Models`): a
  pattern is looked up and compared as a string, as the code does in its checks, what
  it matches is `path.Match`'s (`Matches`), and a route is taken for an exact one when its
  pattern has no star (`Starred`), although one with `?` or `[..]` matches several ids. An
  absent key is `None`. An entry whose value is the empty string is not modelled. Headers are
  a function from names to a value or `Unset`, a value is a secret and how it is
  written ("raw" or after a scheme), so that a moved or doubled `Bearer` shows. The
  names are those some rule looks at and one that stands for the rest. The
  environment does not change: nothing calls `Setenv`, so the variables read at each
  request are those the daemon was started with. `reply` and `upstream` are the answer
  to the latest request and the headers it went on with.
* **Conversation.** The translation is a function, so the state is what it is applied
  to: `transcript`, which the caller keeps and sends whole each time, and `chat`,
  what the last request made of it. A block is its place in the transcript, which
  doubles as the id of a tool call: the upstream is taken to name its calls, since
  the ids made up for nameless ones (`translate.go:515`) repeat from answer to answer.
  `Entries` is the loop body of `translateAnthropicMessages` (`ToolMessages` and what is
  left, `Spoken`), `MergeSameRole` the loop of the function as a recursive one, and a
  merged text is the sequence of the places it was joined from. A streamed answer joins the transcript
  as a collected one does; the two orders of blocks agree.
* **EnvExpand, LaunchProfile.** A text is a sequence of symbols: the dollar, the braces,
  letters, digits and others. `scan` is the loop of `expandEnvString` (the value it is in,
  the index, what was emitted), `block` the parsed `env` object, `expanded` the values
  that are done. Go walks the object in any order.
* **ProfileStore.** `cli` holds each command's program counter and locals, `files` what the
  file system holds. `writeProfileFile` is `CreateTemp`, `WriteTemp`, `Rename`, each of which
  may fail; a temporary file is `Torn` from its creation to the end of its write. A marker
  is written by `os.WriteFile` in two steps, through a descriptor that outlives an unlink
  (`FillUnlinked`) and does not shorten what another command wrote in between
  (`Overlaid`). `Killed` ends the process, not the machine: nothing is synced before the
  rename (1369-1391), so what is left of a file by a loss of power is not the program's
  to say. A profile is its model and the rest; a marker is a name, absent, empty
  or "mixed", a file with a second line, which `readProfileName` rejects. `history` is
  what the properties remember.
* **ShellHooks.** A file is its lines, by kind, and whether the last is terminated.
  `Kept` is the loop of `uninstallCLI`, as a recursive function, with its own removal of the comment and the
  blank line above; `Rewrite` writes over what was appended since the truncation. `own`
  and `past` are what the properties remember: what the user wrote, and which runs
  overlapped or were cut.
* **SelfUpdate.** A tag is the sequence of its numbers; a local build has none. `byPath` is
  whether `os.Args[0]` names a file (2159). `disturbed` remembers the updates during which
  another one replaced the binary.

## 3. Runs

| run | question | answer |
|---|---|---|
| `stream` | Is every event stream one a client can follow, complete, honest and finite? | holds |
| `stream_parallel` | Do fragments of parallel calls reach their own block? | violated |
| `lifecycle` | Do pid files and daemon stay in step when commands run one at a time? | holds |
| `lifecycle_overlap` | Does start refuse a second daemon after overlapping starts? | violated |
| `launch` | Is a profile expanded right, and its settings file there for claude and gone after it? | holds |
| `launch_race` | Is it gone even if a signal comes early? | violated |
| `requests` | Is every request answered honestly, logged rightly, and ended? | holds |
| `requests_shutdown` | Does the daemon drain before it exits? | violated |
| `routes` | Does each request get the route, dialect, id and credential it should? | holds |
| `conversation` | Does what is said reach the upstream whole, in order, with calls answered? | holds |
| `conversation_pairing` | Does merging always keep calls and results together? | violated |
| `commands` | Do profiles, markers, rc files and the binary survive overlaps, failures and kills? | holds |

The properties and what each catches:

* `InSync`: the client never sees a malformed message and agrees with the translator
  about the open block. `MessageSpec`: the stream implements `AnthropicMessage`.
  `FragmentsAccounted`: nothing is duplicated; only reasoning after content and text
  after a tool call is dropped, as the code intends. `SequentialCallsKeepApart`: no
  fragment in another's block, as long as the upstream does not return to an
  earlier call. `ClosingReport`: last finish reason and last usage win.
  `StreamEnds`: liveness.
* `DaemonIsRecorded`, `NoSelfConflict`, `StopFreesThePort`, `CommandsEnd`: see
  `ProxyLifecycle`. Commands are killed anywhere and pid files cannot be written at
  times. What the properties except is the single daemon whose own start ended that
  way between the fork and the write (`Stray`), which the code does leave unrecorded:
  `status` and `stop` do not see it, and a later start brings up a daemon that finds
  the port taken. Everything that is not stray must be right in its presence too.
* `ReturnLeavesNoSettings`, `ClaudeHasItsSettings`, `SignalRemovesSettings`: the first
  excepts a handler that came before the removal was registered, which is the
  subject of `launch_race`.
  `ExpandsByPlace`: the scan yields what the text means, whatever surrounds a reference;
  values whose every dollar stands within a word (`WithinWords`) are excepted, because a
  comment has `"a$b"` unchanged where the code expands it. `SettingsAreExpanded`: when the
  file exists, every string of the block has been expanded, so a name that is not set,
  in whichever value of the block, stops the launch before there is one.
* `FailureIsNeverASuccess`, `FaultsAreErrors`, `RequestsEnd`.
* `FirstMatchWins`, `DefaultReplacesCallersId`: the order of routes, and of the two looks
  at the default. `RefusedIdsComeFromTheProvider`: an id System One refuses is
  not one the route's models give, nor the id its pattern spells; it came from the
  provider's models or default, or through a pattern that matches more than itself. The
  check at load time does not see these. `UnnamedIdsGoToDefault`: an id that no
  map names becomes the default; it goes as it is only where there is no default, and
  then the maps name other ids, which is what the check at load time can see.
  `NothingWithoutToken`,
  `ProviderGetsItsOwn`, `CallerKeepsItsCredential`: about credentials. Each credential is
  taken out twice, by the gate and by the provider's entry; either would do for a
  provider with an entry, which is why the mutants of the second are about what it
  puts in.
* `ContentSurvives`: every text and result reaches the upstream once, in order, under
  its role. `CallsAnsweredAtOnce`: so does every call, with its results right behind
  it; it excepts conversations in which a message of the user's vanishes, the subject
  of `conversation_pairing`. `RepeatsLastRequest`: a request repeats the one before but
  for its last message.
* `ReplacedFilesAreWhole`: no part of a profile or of the binary is ever under its name.
  `MarkersAreReadable`: nor is a marker unreadable, unless a command was interrupted in
  it or two wrote it at once, when the code does leave one. `EffectsAreOfTheirTime`: a
  profile that was there all the time is not replaced by `create`, and `model` edits
  what was there at some moment of its own. `ResolvesAtOnePoint`: so does a search
  answer, if no more than one marker changes meanwhile. `UserLinesSurvive`,
  `HooksOnce`, `UninstallRestores`: init and uninstall in any order, around the user's
  edits. `NewerReplacesOlder`: an update is no downgrade, whatever is published
  meanwhile, if no other update overtakes it. Each exception is something the code
  does, and is listed below.

Each of these is broken by at least one mutant: a variant of a definition, kept next
to it, that has a mistake one could plausibly make there.

### Disagreements the violated runs show

1. `stream.go:184`: a fragment for a call that is open goes to the block opened
   last, although the plan of the dialect keys fragments by index.
2. `1838`: overlapping starts leave a daemon that no pid file names, so the next
   start is not refused.
3. `1713`: a signal taken during the launch can drop the removal of the settings.
4. `1018`: `runServer` returns when `ListenAndServe` does, not when `Shutdown` does,
   so the 5-second drain of `docs/DECISIONS.md:166` does not take place.
5. `translate.go:306`: an assistant message that follows another (the image-only
   message between them is dropped, `translate.go:277`) is merged into it and loses its
   tool calls, against the comment at `translate.go:296`.

Met while reading, without a run of their own:

* **Daemon.** A client that hangs up during a translated stream is logged at error
  (722), although `docs/PROXY.md:122` says a cancellation is not. The anthropic dialect
  sends by the provider's mapping only, whereas `resolve` reports the route's mapping and
  the default as well (459, against `docs/PROXY.md:345`). The check of System One routes
  (320) looks at the route's own models and at the text of its pattern, but the
  provider's models, its default and patterns with `?` or `[..]` send ids it has not seen,
  against the comments at 284-286 and 317-318. The provider's default reaches pass-through routes
  and an identity entry does not pin its id (`dialect.go:113` and 139, against
  `docs/PROXY.md:32`). `model_dialects`, "keyed on the ID sent upstream" in the
  documentation, is looked up before the last look at the default (`dialect.go:128`). An
  `auth_headers` entry whose variable is empty leaves a header of that name that the
  caller sent, against the comment at 986-989. A rotated token "needs no restart" (354-355),
  but a running process's environment is fixed. A request whose message has no role
  makes the token estimate panic (`translate.go:575`); call ids that are made up repeat from
  answer to answer (`translate.go:515`). An upstream that closes early is taken to have
  finished (`stream.go:276`); a pass-through body that breaks off ends like a whole one
  (607).
* **Processes.** A start that is killed, or cannot write, between the fork and the end of
  the write leaves a daemon that no file names (1822-1828). A pid file whose pid was reused by an unrelated process wedges start and
  makes stop signal that process (1880, against the comment at 1870); a signal 0 that is
  refused counts as a process gone (against `docs/DECISIONS.md:171`). SIGTERM to the
  launcher is not forwarded to claude although the comment at 2591 says so; a Ctrl-C
  that claude survives removes its settings file (2599).
* **Files.** A selection that crashes between truncation and write, or overlaps another of
  the same place, leaves an unreadable marker (1142), after which the wrapper starts
  claude without a profile and without a word; one that overlaps `--unset` reports
  success and selects nothing (1101). Overlapping inits add the hook twice (1533, against
  `README.md:204`); a hook that is only mentioned, in a comment say, makes init report
  that it is there; uninstall takes an indented hook although 1561-1562 says a
  hand-edited one is left. A crash in `uninstall` loses the rc file, and a save during it is
  written over (1603). `"a$b"` does not pass unchanged, as `profileenv.go:22-23` has it: the
  scan takes `$b` for a reference.
* **Update.** A release the shell found on `PATH` is taken for a local build, and is then
  replaced without a comparison (2159, against the help at 2377-2378 and `README.md:31`).

### Bounds, and why they are enough

* `stream`: two call indices, fifteen chunk shapes, four chunks (`MaxChunks`). Two
  calls suffice for one to disturb another; three chunks suffice to hold
  arguments, name the call and continue it, and the fourth puts another source
  between or a report after. The shapes hold each kind of part, two calls in one
  chunk, both kinds of part in one chunk, and reports alone and together. The
  proofs lift the safety part to any bound.
* `lifecycle`: three process ids: a daemon, its successor and a stranger. One shell,
  for the properties of commands one at a time; two for `lifecycle_overlap`. Three ids
  also hold a stray daemon, a recorded one and the child of a start at once.
* `launch`, `launch_race`: three signals (`MaxSignals`), one more than the channel and
  the handler together can hold, so that one is dropped. For the expansion, a block of
  one value, every text of up to four symbols over `$ { } x 1` and nine longer ones, or
  of three keys with three texts or a number each: every order of dollars, braces,
  letters and digits that the two scans (`expandEnvString` and `envNameAt`)
  distinguish. The value of one variable holds a dollar and the name of the other,
  which starts with the first one's name.
* `requests`: one request with two parts (`MaxParts`): requests share nothing but the
  server, and a fault can strike before, between and after the parts. Shutdown is
  run with two requests.
* `routes`: two ids (one the System One endpoint knows)
  and two patterns, one with a star and one like `?ther/x`, which the code takes for
  exact though it matches another id too; one provider with every setting, up to two
  routes with any of the four strings as pattern, the first with every setting:
  29376 configurations, all as initial states. `planFor` looks at one
  route and one provider for a request; the second route is there for the order. Those
  have a caller without credentials; three more, one to each dialect, have ten ways to
  authenticate (two of which loading refuses), a gate or none, each variable set or
  empty, and thirty-two callers. Routes and headers meet only in the dialect and the
  provider's entry, so the full product would show nothing more. The proofs lift all
  seven properties to any bound.
* `conversation`: five messages (`MaxMessages`): two answers with prompts before,
  between and after them, or several prompts in a row. Merging looks at neighbours
  only, and a message leaves at most three kinds of neighbour. Five prompts and
  six answers hold every kind of block, alone and together, in either order, and
  none at all.
* `commands`: two shells, one with two commands, one with one (`MaxCommands`), so that two
  changes can fall within a search; two directories below the root; two names of
  lengths more than one byte apart; two models, one text. Three runs of init or uninstall, so that
  install, remove and install again is among them, over two rc files, with one edit
  (`MaxEdits`) anywhere. Two updates and four releases: of different length, with a
  number of two digits and with a trailing zero.

### Fairness

* Commands (`WF(Step(c))`): a process that is running is scheduled, and each wait in
  them has a timer (`proxyStopGrace`, `proxyStartGrace`).
* Goroutines (`ClaudeLaunch`): weak fairness for each; none for claude, which ends
  when it likes, so no property promises the end of a launch.
* Handlers (`WF(HandlerStep)`), and `WF(TimesOut)`: `http.Client.Timeout` covers the call
  and the body, and `loadConfig` gives every provider a positive timeout. A client is
  taken to read what it is sent or hang up.
* Streams: the same timer, as `SF(ReadFails)`: chunks that keep arriving make the wait
  for one more read come and go, and the timer fires all the same. The upstream
  owes nothing.

* The commands on files have no liveness property: each is a straight line of system
  calls, none of which waits.

Deadlock is checked in the lifecycle runs, where a machine always goes on; a
stream, a launch, a daemon that exited, a refused configuration, a transcript at its
bound and commands that are over really stop.

## 4. Proofs

Each theorem is about every value of the constants that satisfies the assumptions of
its modules; those only say that the constants have their types and that markers such
as `None` are not values. Of patterns nothing is assumed but that they match ids: one
without a star may match any number of them. No recursive operator is in reach of a proof.

**The event stream** (`StreamTranslatorProofs`), for every set of call indices, reports
and chunks, and any number of chunks. `Inductive` gives `TypeCorrect`, `ClientInSync` and
the refinement `ImplementsMessage` (`Spec => MessageSpec`).

`InSync` alone is not inductive. A fragment of an opened call is emitted without
looking at the open block, so one must know that a tool block is still open: that
is, that nothing closes one but another tool block, because text and reasoning are
dropped in the tool state (`tools[c].opened => wire.state = "tool"`). Likewise
the order of blocks depends on what the state remembers of the blocks already
sent (`Ordered`). `Inductive` adds the two, restricted to `run = "reading"`, since a
finished stream has no open block, and that parts are only pending after `start`.
The argument goes in layers: a lemma per block operation (open, delta, close) on a
`Live` wire, whatever the chunk; a lemma per append function, which also says by a
`Progress` of the list of blocks what it did to the message; lemmas that turn this
progress into a step of `AnthropicMessage`; one lemma per action; and `StepInductive`.

**Its content** (the second half of `StreamTranslatorProofs`): `NothingIsLost`, `CallsStayApart`,
`ReportIsTheUpstreams`, that is `FragmentsAccounted`, `SequentialCallsKeepApart` and
`ClosingReport`. `ContentInv` says of each call that what was delivered and what is held
back is what was sent; of reasoning and text that less was delivered only where a later
block bars them; and that, unless the upstream returned to an earlier call, the open
block is the one of the call whose fragments are arriving (`OpenIsLast`), without which
`OwnFragmentsOnly` is not inductive. Sums over the blocks (`Total`) are recursive
functions; that one more fragment makes a sum one larger is an induction over the list.

**Requests** (`RequestProofs`), for any number of requests and parts: `FailuresShow` and
`FaultsAreLogged` (`FailureIsNeverASuccess`, `FaultsAreErrors`). Requests share nothing, so
`RequestInv` is a statement about one record: where the upstream is at each step of the
handler (`InStep`: a reply that ended was read without a fault, and a fault stays), that a
client that waits cancels nothing (`CancelsItself`), and what was answered (`Answered`).

**The daemon's life** (`ProxyLifecycleProofs`). `LifecycleIsTyped` is about any number of
shells. `DaemonsAreRecorded`, `NoDaemonMeetsAnother` and `StopIsTrue` (`DaemonIsRecorded`,
`NoSelfConflict`, `StopFreesThePort`) are about one shell at a time, the hypothesis
`OneShellOnly`: with two the first is false, which is what `lifecycle_overlap` shows. They
hold for any number of processes, with strangers that take over their ids, crashes,
reboots, commands killed at any step and pid files that cannot be written. `Orderly` is
inductive: at most one of the two files names a process; a daemon that is up is named by
one, is the child that start is about to record, or is `Stray`; and at each step a command still has what it has seen (`Established`,
for example that a file it is to remove names the process it has seen end).

**The launch** (`LaunchProofs`), for any number of signals and any profile:
`LaunchRefines` (a launch with its expansion takes the steps of `ClaudeLaunch`), and from
it `LaunchIsTyped`, `NothingIsLeft`, `ClaudeKeepsItsSettings` (`TypeOK`,
`ReturnLeavesNoSettings`, `ClaudeHasItsSettings`). `LaunchInv` has what each goroutine
finds at each step, across the race on `launchCleanups`, and who is left to remove a file
that is there (`Covered`).

`OnlyExpandedIsWritten` (`SettingsAreExpanded`) adds to it that a file is made only once the
scan is done, when every string has been expanded (`FileInv`); that its names were set
comes from the next theorem's invariant.

`ValuesExpandByPlace` (`ExpandsByPlace`), for texts, names and values of any length. The scan
keeps three facts about the place it has reached (`ScanFinds`): what it has put out is
what the places before mean (`MeaningTo`); a reference that starts before it ends before
it and names a variable that is set (`Passed`); and a dollar there is not the second of
a pair (`Unpaired`). The last one is why `References` may count dollars backwards while
the code pairs them as it goes, and is what the mutant `EscapedTwice` breaks. That
`envNameAt` stops where the longest name does, and takes a brace to its first
counterpart, is `FoundIsReference` and `ReferenceIsFound`. The invariant (`ByPlace`) has
the values that the property excepts too. Assumed (`ExpandAssumption`): the
dollar and the braces are no part of a name, a digit is no letter, and texts and values
are finite sequences.

**What goes upstream** (`GatewayProofs`), for every set of models, providers, headers,
variables and secrets and every configuration, however many routes it has: all seven
properties of `routes`. `GatewayInv` is inductive: the latest plan is `PlanFor` of the
configuration, which was found valid before the daemon served; any answer but the
liveness check and the refusal was given to a caller that is authorized; and the
headers that went upstream are `UpstreamHeaders` of this plan. Each property then
follows from a lemma without states: `PlanOfAMatch` (a plan with a route is that of the
least match), `TheTokenIsPresented`, `ProvidersCredentials`.

**A conversation** (`ConversationProofs`), for every set of prompts and answers and
transcripts of any length: `ContentIsKept`, `CallsAreAnswered`, `RequestsRepeat`, that is all
three properties of `conversation`. The argument has two parts, neither about states.

* What a request carries. `Contents`, `Calls` and `Answers` are sums over a list of messages.
  A merge either adds a message or joins content to the last one (`MergeCases`), so it
  changes no sum of contents or of answers (`MergeSums`), whatever is merged; what
  the entries of a transcript hold can be read off before they are merged
  (`TranscriptCarried`, message by message), and under whose role it stands is kept because
  the set of messages with content of their own side is closed under joining
  (`EntryOfClosed`). The calls are another matter: `mergeSameRole` drops those of
  a message it joins to another, and only the order of the messages prevents it.
* How calls and results stand. `Complete` relates a transcript to its request: every call is
  sent, every one but the open ones is answered, each tool message answers a call of
  the message right before it and its like (`Paired`), and, to make this inductive, how the
  request ends: after a user's message with the user or a tool, so that the answer to it
  is never merged, and with the message that has the open calls if there are any, so
  that their results fall right behind it. `UserKeepsSound` and `AssistantKeepsSound` keep
  it; both need that no message of the user's has vanished, which is
  the hypothesis `UserHeard` of the property.

`RequestsRepeat` follows from `MergeExtends`: whatever is merged to a list of messages,
all of it but the last message stays where it was. The invariant of the states (`Inv`)
is then short: the latest request extends into what the transcript translates to now, and is
all of it while it is out. Assumed (`ConversationAssumption`): a prompt is a finite sequence
of texts and images, and an answer has a finite number of calls. Nothing depends on
`MaxMessages`.

**The commands on files** (`CommandLineProofs`), for any number of shells, runs and
updates, any depth of directories, any rc files, and releases of at most three numbers
(`UpdateAssumption`, which `Weight` needs; `compareVersions` itself takes any):

* `CommandsAreTyped`, `RenamedFilesAreWhole`: `CommandTypes` and `ReplacedFilesAreWhole`. That
  no torn file gets a name needs what a command has in memory at each step
  (`CommandOK`: a document from the moment it has one, and a whole temporary file when
  it is about to rename) and, for updates, that a download is whole when it is installed.
* `MarkersStayReadable`, `EffectsAreTimely`, `SearchesResolve`: `MarkersAreReadable`,
  `EffectsAreOfTheirTime`, `ResolvesAtOnePoint`. `PastInv` says what a command knows of the
  time since it began. The one that empties a marker is the only one about to write it,
  unless the history notes an overlap or an interruption (`MarkersKnown`). An edit's
  document is one the profile held meanwhile (`EffectKnown`). A search has passed places
  whose markers were absent: with those taken as they were then and the others as they
  are now (`AsPassed`), it would have ended where it will (`SearchKnown`), and that
  answer is among those of its time as long as a single marker changes.
* `UpdatesReplaceOlder`: `NewerReplacesOlder`. An update that no other has overtaken still
  knows the installed version, and has found its tag to be newer if it goes on
  (`UpdateInv`); that the part-by-part comparison orders tags as the numbers they
  stand for is `OlderWeighsLess`.
* `UsersLinesStay`, `HooksStaySingle`, `UninstallsRestore`: `UserLinesSurvive`, `HooksOnce`,
  `UninstallRestores`, for files of any length. The second supposes that no file has two
  hooks to begin with (`OneAtFirst`): `init` would leave them. `UserInv` says where the
  user's lines are while a file is being rewritten: what an uninstall has in its hands
  is what the file holds until it is emptied. `OnceInv` says that a file nobody but init
  and uninstall has touched since a hook was put in is as one of the two left it. What
  the loops `Own` and `Kept` do to a list, one line more at a time, is in
  `ShellHooksProofs`.

Induction over data. The library's induction theorems take an operator, which the provers
cannot instantiate. Two lemmas without one replace them: a nonempty set of naturals
has a least element (`LeastNatural`, from the well-foundedness of `<`), and a set of lists
that has the empty one and with each list those that are one line longer has them all
(`ListInduction`). A property to be proved by induction is then the set of the lists that
have it, and a recursive function is any function that satisfies its equation
(`Keeps`, `KeptIs`; `Joins`, `FlattenIs`; `Merges`, `MergeIs`).

Only model-checked: liveness (`StreamEnds`, `CommandsEnd`, `SignalRemovesSettings`,
`RequestsEnd`), which the prover does not reach. Every other property of a passing run is
the statement of a theorem. The five violated properties are false.

## 5. Not modelled, and why

* Of the configuration: the checks of single values (ports, URLs, durations, binds,
  header names), each of which looks at one field and refuses.
* Commands that only read and print: `list`, `status`, `doctor`, `version`, the display of
  a selection.
* The files a killed command leaves in the directory (`.name.json.*`, a download): they have
  names of their own that nothing reads.
* The text of the shell wrappers.
* Of the bodies: tool definitions, `tool_choice`, the scalars, usage numbers and the
  token estimate, which are copied or computed field by field.
* A daemon started by systemd, which writes no pid file, so the commands know
  nothing of it.
* Completion, help and templates: constant text.
* The text of log lines; only levels are modelled.
* The installer, the publishing scripts and the tests.

## 6. Plan

Done, in this order, the most important behaviour first: `StreamTranslator` with its
client and proofs; `ProxyLifecycle`; `ClaudeLaunch`; `RequestHandling`; `RoutePlan`;
`Conversation`; `Credentials` and `Gateway` with proofs; `EnvExpand` and `LaunchProfile`;
`ProfileStore`, `ShellHooks`, `SelfUpdate` and `CommandLine` with proofs; proofs about the
content of streams, requests, the daemon's life, launches and the expansion of profiles,
markers, searches and rc files, and conversations.

Next:

1. The collected answer as the message its stream would have made: `TranslateResponse`
   and `StreamTranslator` over the same fragments.
2. Tool definitions and `tool_choice`, as a second translation next to `Conversation`.
