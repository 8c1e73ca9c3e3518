# Hormos verification

TLA+ models of Hormos (a command line and a terminal interface for a local
Docker engine) and of the transaction that releases it, with their TLC
configurations and proofs checked by TLAPS. Paths are relative to the
repository; `app.rs`, `lib.rs`, `event.rs`, `terminal.rs` and `ui.rs` are those
of `crates/hormos-tui/src`.

## 1. Inventory

| Component | State | Operations | What is hard | What makes it correct |
|---|---|---|---|---|
| `App` (`app.rs`) | list, cursor (an identifier), filter, mode, busy set, loading flag, error, quit flag | `update`: one key or one reply in, at most one command out | the cursor names a container while the visible rows are recomputed by every refresh and every filter edit; flags are set by keys and cleared by replies that come much later | the cursor is on a visible row and follows its container; marks never outlive what they announce |
| Main loop and tasks (`lib.rs`) | the tasks in flight, the channel | `run`, `dispatch`, `execute` | each command has a task of its own: calls reach the engine and replies the loop in any order; quitting drops the tasks | one action per container at a time, each reported once; everything shown as pending ends; no traffic without the user |
| Keyboard thread, channel, terminal guard (`event.rs`, `terminal.rs`, `lib.rs`) | the event in hand, stop flag (relaxed atomic), unpark token, bounded channel, raw mode | read loop, cancellable send, the chain of drops at the end of `run` | system thread against a one-thread tokio runtime; full channel; memory order; order of drops | no event lost, doubled or reordered; `run` always returns; the terminal is restored after the last read |
| Rendering (`ui.rs`) | none | draws `App` in a terminal of any size | the highlighted row is an index, the keys act on an identifier; unsigned sizes; one body and one footer for several conditions | what is shown is what a key will do; an error hides nothing; panels fit |
| Command line (`hormos-cli`) | one invocation | parse, validate, connect, request, exit code | three requests with a deadline each; a retry after a deadline meets the late effect of the first attempt | invalid input touches nothing; bounded time; a success means it |
| Endpoint (`endpoint.rs`) | environment, rootless socket | resolution | a variable that is absent, blank, unreadable; a socket that disappears | only the designated socket is opened |
| Docker adapter (`runtime.rs`, `timeouts.rs`, `error.rs`) | none of its own | negotiate, ping, six operations; deadline; error category | the deadline drops one side of the request only | every failure has one category and exit code |
| Mapping (`mapping.rs`, `domain.rs`) | none | the engine's answers become names, states, statuses | every field may be absent; list and detail take theirs from different fields | a name shown can be typed back; no state is invented |
| References, service, display (`hormos-core`) | none | `ContainerRef::new`, `sanitize`, truncation, `short_id` | boundaries of length and width | what was accepted prints as it is; cells are clean and fit |
| Release transaction (`release.yml`, `create-release-commit.sh`, `promote-release.sh`, `release-lib.sh`) | commits, `main`, staging ref, tags, step of the run | make or find the release commit C of a tested base B, build, sign, validate, promote, tag | any step may be the last; reruns; pushes to `main` meanwhile; a failed call reads as an absent ref; refs may be lost | tags are put once, on the one Verified release `main` holds; `main` loses nothing |
| GitHub Release (`publish-github-release.sh`, `sign-release.sh`, `intoto-provenance.sh`) | assets of a version | verify, reuse or upload each asset | a rerun makes other signatures than those published | what is published is of C, consistent and final; reruns finish |
| Packaging, SBOM, checksums, validation scripts | files in the runner | build artifacts | – | a function of C |
| Other workflows, tests, Makefile, lockfiles, docs | – | – | – | – |

How they interact: `main.rs` resolves the endpoint, connects the adapter and
gives the service to a subcommand or to the TUI. In the TUI, the keyboard
thread and the command tasks send messages through one bounded channel; the
loop gives each to `App::update` and hands the command it returns to a new task,
which calls the adapter and sends the reply. The release job calls the scripts
in order; they share nothing with the program and meet developers, and their
own earlier runs, in the Git repository on GitHub.

The hazards, each at its line with the properties that would catch it, are in
`PROJECT.json`.

## 2. Modules

```
App ─┬─ Tui ─┬─ Loop ── MCLoop        InputReader ── implements KeyQueue
     │       ├─ MCTui
     │       └─ implements ActionGate  Text ── Mapping ── MCText
     └─ Screen ── MCScreen
                                       Endpoint ┐
Release ──── Publication               DockerRuntime ┴ Cli ── MCCli
   └─ implements Ledger
```

`XProofs` holds the theorems about `X`: `AppProofs`, `ScreenProofs`, `TuiProofs` (with
`Loop`), `InputReaderProofs`, `CliProofs`, `TextProofs` (with `Mapping`),
`ReleaseProofs`, `PublicationProofs`.

**App** (`app.rs`). `update` is a pure function from a message to a new state and a
command. `On...(m, c)` relates the message, both states and the command `c`. One
action per branch of `on_key` and its helpers, and one per reply
(`OnContainers`, `OnDetails`, `OnActed`, with the refresh it asks for). A
container is its identifier, whether it runs (what `s` looks at) and the
filters it matches. `Reconciled` is `reconcile_selection`. The texts of
statuses, details and errors are left out; so are keys no branch handles and
resizes, which are stuttering steps. The containers of a list have distinct
identifiers, as Docker gives them; an engine that left identifiers out (`Mapping`
models it) would give rows that `App` cannot tell apart. `AppSpec` runs it alone,
with any reply at any time.

**Screen** (`ui.rs`). What is drawn of each state of `App` in a terminal of each
size: which widget is the body, which row is highlighted and what it says of
its container, the footer, the panel and its rectangle. Below 60 by 12 only the
explanation that the terminal is too small is drawn (`TooSmall` comes first in `Body`,
`Footer` and `Panel`), while every key still acts: what is said of keys is said of the
terminals that show the list. The help has as many rows as lines; the detail is
wrapped (`ui.rs:294`), so its rows depend on its texts and a long one is cut:
`DetailsPanel` promises no line. `Screen` has no variable: the properties are
about what the behaviours of `App` show.

**Tui** (`lib.rs`). `calls[s]` is a task: its command and, once there, its reply.
`Press` and `Deliver` are the two kinds of message of `run`'s loop, each with the
`dispatch` of the returned command; `Answer` is the engine answering or the call
failing; `DropTasks` the end of the runtime after `q`. The engine is external: a
state per container, changed by the calls, by other clients (`Outside`), and by
actions whose deadline had passed (`late`). A listing that lags behind the engine's
own state (`crates/hormos-docker/tests/engine.rs:234-239`) is the same as one that
other clients made out of date.

**Loop** (`lib.rs`, `event.rs`) puts the bounded channel between the loop of `Tui`
and what feeds it. Any number of keys may wait in it, among the replies, as far as its
capacity goes; each is handled later, in the state `Recv` finds. A reply is posted by
its task, which waits when the channel is full (messages beyond `Capacity`, in the order
tokio serves them). Each key carries a history: `aim` is the container under the cursor
when it was typed, moved by each key typed before it and handled since (`AfterKey`);
`missed` is set when a list without its aim is handled while it waits
(`AfterReply`). Every step of `Loop` is one of `Tui` or leaves it alone, by
the way it is written: `TuiProofs` uses this (`LoopMoves`) to carry the invariant of
`Tui` over.

**ActionGate** is the abstract specification of a lifecycle action: idle →
working → answered → idle, and nothing after the interface closes. `Tui`
implements it under the refinement mapping `Gate`, read off the busy set and the
calls.

**InputReader** (`event.rs`, `terminal.rs`, and the shutdown in `lib.rs`). The
reader thread step by step: look at the flag, poll, read, try to send,
park for the retry delay. The main thread: draw, receive, update, then the drops in
the order Rust runs them. The relaxed flag is `stop` for its writer and
`seen` for its reader; `StopVisible` carries it across, and the unpark token does
so at the latest. Tasks compete for the channel (`TaskReplies`,
`WaiterSends`), and run only while the loop is in `recv`, as tokio has one
thread. The content of events is not modelled; `App` is.

**KeyQueue** is the abstract specification of the way of a key: taken behind
the others, handled in front of them (`Safety`), none left behind while the loop
runs. `InputReader` implements it under the refinement mapping `Queue`: the keys
`Pending` are those taken from the terminal that `update` was not given, in
`Ascending` order.

**Endpoint**, **DockerRuntime**, **Cli** (`endpoint.rs`; `runtime.rs`,
`timeouts.rs`, `error.rs`; `hormos-cli`). An environment variable is one of
the forms the resolution tells apart, a failure one of those `map_error` tells
apart. `Cli` follows invocations: validation, resolution, negotiation, ping,
operation, exit code, with time in steps of `Tick` and a deadline that fires
when it is due. An output may be a pipe that its reader has closed: then `println!`
panics after the operation (`Emit`), or `eprintln!` after a failure (`Fail`), and the
process aborts (`Aborted`, status 134): the status says nothing of the operation.

**Text** (`reference.rs`, `display.rs`, `short_id`): sequences of characters in
classes. Operators only; `MCText` enumerates their arguments.

**Mapping** (`mapping.rs`, and the states of `domain.rs`) follows one container that
is named, changes state, and is listed and inspected in between, with any field of
the answers absent, the identifier and the `running` flag too. `row` and `panel` are
what the list and the detail keep of it since it last changed, `RowTexts` and
`PanelTexts` what the tables (cut at `ColumnMax`) and the detail show of it, `silent`
whether the detail came without `running`. Its names are those `Text` accepts.

**Release** (`release.yml`, `create-release-commit.sh`, `promote-release.sh`). A
commit is its ancestors and what the scripts check of it. Each action is one call to
GitHub with the checks that precede it: 5a, 5b, 5c of `create-release-commit.sh`
(`LookStaging`, `LookTag`, `LookMain`), `EnsureStaging`, `CreateCommit`, `Stage`,
`Checkout`, then `ReadMain`, `FastForward`, `CreateTag`, `Publish`, `Cleanup`.
`Overlook` is a call that fails and reads as "absent" (`2>/dev/null`). Around
them: `Push`, `LoseStaging`, `Kill`, and `Start` for a run or rerun of any
commit that was pushed. `Edition` is what release-it writes, which changes with the
date.

**Ledger** is the abstract specification of a release: `main` takes the release of
a version above those it holds (`Promote`), and that release gets its tag (`Tag`);
nothing else ever changes. `Release` implements it under the mapping `Promise`, which
reads the release of each version off the history of `main`: commits that are never
promoted, staging refs and the steps of runs do not show.

**Publication** (`publish-github-release.sh`) puts the assets of the GitHub
Release in place of the `Publish` step: payloads are a function of the commit,
provenance bundles also of the run that made them (`made`), the aggregate of the
bundles that are published. Every other step is one of `Release`, whose invariants
therefore hold here (`PublicationRefines`).

Definitions whose comment says *faulty variant* are used by no specification:
each is a plausible bug that the property named in `PROJECT.json` ("mutants")
catches when it takes the place of the definition after it.

## 3. Runs

| Run | Bounds | What it shows |
|---|---|---|
| `screen` | 3 containers, filters of one character that two of them match, 14 keys (the help and the detail among the panels), every listing and reply, one busy container at a time, 5 terminal sizes; the first and last container are interchangeable | the cursor is on a visible row exactly when there is one, and follows its container through reordering, filtering and disappearance; where the list is shown, `s` and `r` act on the highlighted row as it announces, and a failed refresh leaves the table; panels are inside the terminal |
| `loop` | 2 containers, 3 calls in flight, one of them an action, a channel of 3, keys `q j s`: at most one `j` and one `s` wait together, in any order; containers stop but stay known; containers and slots are interchangeable | a full channel loses no reply; `s` acts on the container its user aimed at, unless a list without it was handled since |
| `tui_live` | 1 container, 2 calls in flight, 1 late action, keys `q a i R s` | neither "chargement" nor an empty panel is ever left without a call that will clear it; `ActionGate` is implemented, with its liveness; every loading ends; the loop goes quiet when keys stop |
| `input` | capacity 2, 3 events, any failure of poll, read or draw | the queue of `KeyQueue` is implemented: events keep their order, none is lost or left behind; the terminal is given back after the last read; the reader does not park again once woken; `run` always returns |
| `cli` | ticks of 5 s; all commands in one environment, with a terminal or a pipe; 3 commands in every environment | invalid input opens no socket; only the designated socket is opened; an invocation ends within its own deadlines; exit code 0 of a retried verb holds, although failures and successes alike may end in an abort |
| `text` | strings up to 5 characters of 6 classes, references of at most 4, short identifiers of 2, every width; a container of each name that can be typed, 2 identifiers, columns of 3, any field absent | accepted references print unchanged; cells are clean and fit; short identifiers are accepted back; what is shown designates its container or is refused for one of three stated reasons; no state is invented |
| `release` | 2 versions, 5 commits, 2 editions | `Ledger` is implemented: releases in the order of their versions, each tagged once; tags are on Verified releases that `main` holds; one release per version; `main` only moves forward |
| `publication` | 1 version, 4 commits, 2 signed assets, bundles of 2 runs | published assets are of the tagged commit, consistent and never replaced; reruns finish |
| `tui_panel_mixup` | violation | a late detail fills another container's panel |
| `tui_scope` | violation | of two refreshes that cross, the older list stays under the newer header |
| `input_reader_dies` | violation | the reader's death does not end the loop |
| `release_second_commit` | violation | a rerun may make a second release commit |

Why the bounds are enough. Two calls in flight are what it takes for replies to
cross, three containers for a cursor with a neighbour on each side of a filtered
row. In `input` a channel of two with three events is full with one event in hand
and one still unread; in `loop` three calls and a channel of three are what it takes for
a key to wait behind a list without its container and another with it again, for a
`j` to wait in front of an `s`, and for a reply to find the channel full. The theorems
`KeysActOnAim` and `RepliesAreQueued` hold for any number of keys and of each. The five
terminal sizes of `screen` are the smallest that is accepted (60 by 12), one column and
one row too small, one wider than both panels whose height is between theirs, and a large
one; `PanelsFit` is for every size. One busy container is enough in `screen`: what
busy containers do to each other is for `tui_live` and the theorems of `TuiProofs`.
Five commits hold two complete releases or a release, its abandoned
duplicates and pushes between them; in `publication` four commits hold a base, two
attempts and a push, and two signed assets can hold bundles of two different runs.
Text limits are scaled down (4 for the 128 characters of a reference, 3 for the 40 of a
column, 2 for the 12 of a short identifier) and keep their order, so that every boundary
(one less, equal, one more) is reached, and a name may be longer than its column. The symmetry of `screen` exchanges containers that no
filter tells apart, and the one of `loop` containers and slots, which nothing tells
apart there; neither run checks liveness. The cases of interest were
confirmed by the mutants: every property fails in its run when the bug it is about
is put in. Deadlock is not checked where the system may stop: after `q`, when the
user stops typing, when a bound on commits or characters is reached.

### Fairness

* `Tui`: weak fairness of every answer and of every delivery. Each call runs
  under a deadline (`timeouts.rs`), so it answers; tokio runs its tasks and the
  loop receives what is in the channel. Nothing forces the user to type, other
  clients to act, or the engine to finish what nobody waits for. `Loop` states
  no fairness: it is checked for safety, and `RepliesQueued` says that what its
  channel holds up is still there to be received.
* `InputReader`: weak fairness of each thread's steps (polls and parks end at
  their deadlines), of `StopVisible` (a relaxed store becomes visible in finite
  time), of task replies and of waiting senders (tokio's queue is in order).
  Typing is not fair.
* `Publication`: weak fairness of the run's next step, and strong fairness of
  starting a run for each base: an interrupted release is rerun. `RerunsFinish`
  adds its own premises, in the formula: the same edition each time, `main` not
  moved on, no interference or failure for ever, no partial asset left, and the
  staging ref not given to another commit after the promotion. It also rests on
  what the model says of the build: payloads made again from the same commit are the
  same bytes (`Built`), as `package-release.sh` takes care that they are; a rerun whose
  payloads differed would be refused for ever (`publish-github-release.sh:158-180`).

## 4. Findings

1. **`tui_panel_mixup`** – `on_details` (`app.rs:393`) fills whatever panel is open,
   so a reply to a closed panel appears under another container.
   `docs/tui.md:28` promises the detail of the selected one.
2. **`tui_scope`** – `on_containers` (`app.rs:372`) stores any list under the
   current `show_all`. Press `a` twice and let the second refresh answer first:
   stopped containers stay listed under "en exécution" (`ui.rs:67-71`), with
   nothing in flight to correct it. `docs/tui.md:25` says that `a` alternates the two.
3. **`input_reader_dies`** – `run` keeps a sender of its own, so the end of the
   reader is not the end of the channel, contrary to `lib.rs:56-58`: the loop
   waits with no key able to end it.
4. **`release_second_commit`** – the release commit exists before the ref that
   leads to it (`create-release-commit.sh:173,182`), so a run that dies in
   between, or a ref lost before the promotion, makes the rerun create a
   second commit, contrary to line 92 and `docs/release.md:128`. `OneReleasePerVersion`
   and `TagsReleased` show that it stays harmless: only one of them is ever
   promoted.

### Disagreements noticed, not listed as findings

* `is_loading` (`app.rs:246`, "a call is in progress") is false once the first of
  two refreshes has answered.
* The full error screen depends on the filtered list being empty (`ui.rs:50`),
  although `docs/tui.md:64-65` keeps it for when no list was ever shown: a
  failed refresh under a filter that hides everything takes the whole screen.
* A failed refresh shows in the status line only (`app.rs:382-383`), and the next
  status takes its place (`app.rs:442-457`): nothing says any more that the list is old.
* The filter's hint says that Esc clears it (`ui.rs:132`); Esc while editing brings
  back the previous filter (`app.rs:353-357`).
* One list without the container under the cursor moves the cursor to a neighbour, and
  it stays there when the container is listed again (`app.rs:481-502`): a key typed
  before, and handled after, acts on the neighbour. `app.rs:11-12` and
  `docs/tui.md:132-134` promise a cursor that follows its container. `ActsOnAim` states
  exactly what is kept.
* Keys that wait together are each handled on the list of that moment: `j` then `s`, typed
  on a list that a reply reorders before they are handled, act on the new neighbour.
* On a terminal below 60 by 12 nothing of the list is drawn (`ui.rs:37-40`), and `s` and
  `r` act all the same.
* The panel of the detail asks for 12 rows (`ui.rs:295-296`), which its eight lines do not
  always fit: an identifier of 64 characters alone takes two rows, and the end of a long
  detail is cut.
* Esc closes a panel or quits (`app.rs:403`, `docs/tui.md:32`). A failed reply that
  closes the panel after Esc was typed and before it is handled turns it into a
  quit.
* The help's longest line is wider (64) than the inside of its panel (62).
* "Refused until the engine is back" (`app.rs:13-14`): `guard` (`runtime.rs:166`)
  ends Hormos's side of the request at its deadline, and the container is then
  free although the engine may still work on it.
* A detail gives a container that was created and never started as "Exited (0)"
  (`mapping.rs:111`); `domain.rs:44` has "Créé, jamais démarré" for it. It would say
  the same of a running one if the engine left `running` out (`mapping.rs:104`).
* A name of 41 to 128 characters is shown cut, with an ellipsis (`output.rs:69`,
  `ui.rs:186`), and cannot be typed back; its short identifier can.
* When the first name the engine lists is the alias of a link, `/a/b`
  (`mapping.rs:22-23,33`), `a/b` is shown and cannot be typed back
  (`reference.rs:13-15`). `ShownDesignates` says that it is refused, so that no other
  container is reached by it.
* On a closed pipe, `println!` panics (`main.rs:109`) after the action was done, and
  `eprintln!` (`main.rs:55`) after it failed: the status is 134, which the table of
  `README.md:75-85` does not have and which tells neither from the other.
* The TUI connects before it opens (`main.rs:92`): an unreachable engine at
  startup ends it, while `docs/tui.md:64-66` shows the error screen for that.
* Every 404 is "container not found", exit 5 (`error.rs:60`), also for requests that
  name no container; `README.md:82` has 5 for a missing container.
* A blank `DOCKER_HOST` is taken as absent (`endpoint.rs:91-95`); the comment above
  (84-85) says `InvalidInput`.
* `sanitize_truncated(_, 0)` returns one character (`display.rs:39`).
* `s` sends `start` to a restarting or paused container: only `Running` counts as
  running (`domain.rs:93-97`).
* "A rerun after a partial promotion resumes" (`promote-release.sh:13-14`) holds
  until `main` moves on; then the anti-TOCTOU rule refuses every rerun and the
  version keeps no tag.
* If the staging ref is lost after the promotion and the look at `main` fails,
  a second commit takes the staging ref, and every later rerun finds it there and
  is refused: `RerunsFinish` excludes this in `Current`.
* A partial asset blocks every rerun (`publish-github-release.sh:99-104`): documented
  as fail-close, and excluded from `RerunsFinish`.

## 5. Theorems

An invariant that a run checks is stated on its own, as a corollary, when the theorem it
comes from is about several. Each theorem is for all values of the constants, from the assumptions named in the
modules: containers are a finite set without `None`, which is neither a reply, a key
nor a slot; filters are strings of `Char`; there is at least one slot, and one place in a
channel; terminal sizes are natural numbers; each deadline is a number of ticks;
character classes are disjoint, limits are positive; the engine's identifiers are
valid references, and a missing field is none of the values it could have.

* **`AppProofs!AppInvariant`** – `AppSpec => [](AppTypeOK /\ SelectionVisible)`.
  The invariant is inductive as it stands, but says little to the provers
  of rows: rows are the positions of a list that match, counted by `Index`.
  `RowExists` (every index below the number of rows is some row's, by the least
  element of a set) gives `NthIsVisible`, and with it every movement
  and `ReconciledIsVisible`. One lemma for each group of keys and each reply.
* **`AppProofs!SelectionFollows`** – what a new list does to the cursor.
  `ReconciledIndex` gives the index of the row `reconcile_selection` chooses, from
  `NthHasIndex` (the row of an index has that index); the rest is `AppInvariant`,
  which says that the cursor had a row before.
* **`ScreenProofs`** – `PanelsFit` (arithmetic on the rectangle, for every size; the rows
  of the help, from the smallest size that shows it),
  `ErrorsKeepTable`, and `KeysActOnHighlight`, about the behaviours of `App`: the row
  that is highlighted is found by counting, the container a key acts on by its
  identifier, and `AppInvariant` with `NthHasIndex` makes them meet. `RowAt` gives the
  visible rows as a function of their index, not as a `SelectSeq`, whose value would
  take an induction.
* **`TuiProofs!TuiInvariant`** – `AppInvariant` for the composed system, with
  `BusyWhileActing`, `LoadingHasRefresh` and `EmptyPanelHasInspect`. `KeyMarks`
  says what a key may do to the three marks and the command it then returns;
  `SameCommandsSameMarks` that answers change none. Each reply then has its lemma:
  a reply clears a mark only when no other call justified it, or the
  call it removes is replaced by the refresh it asks for.
* **`TuiProofs!GateSafety`** – the safety half of `GateSpec`. After `q` the marks are
  no longer exact (the tasks are dropped, the busy set stays), so it rests on
  `OneActEach`: at most one call of a container is an action, whatever was closed.
* **`TuiProofs!RepliesAreQueued`** – the invariant says which message of the channel is
  whose: each slot with a reply has one, no two messages are of one slot, and a key is
  of none. Counting then only takes the sets of one element and of none.
* **`TuiProofs!KeysActOnAim`** – for any number of containers, lists, calls and keys that
  wait. The invariant (`KeyInv`) is about every key in the channel: either it was missed, or
  the cursor is still on its aim. `StaysSelected` is why: a list that still shows the
  container keeps the cursor on it, and no other reply moves the cursor; a key that moves it
  moves the aim of those behind.
* **`InputReaderProofs`** – `InputSafe` (`EventsInOrder`, `NoEventLost`,
  `TerminalHeldWhileReading`) and `WokenStaysAwake` (`NeverParksAgain`). The
  invariant `InputInv` has the types, that the event in hand is the last one read
  (`HeldInv`), that only what was read is handled or queued, in order (`OrderInv`), what
  the drops that have run leave of the reader and the terminal (`PlaceInv`), and
  that the stop flag is set before the token is (`StopInv`): a woken reader
  therefore has seen it, relaxed or not.
* **`InputReaderProofs!QueueSafety`** – the safety half of `ImplementsKeyQueue`: to take
  an event is to append to the queue, to handle one is to remove its head, and everything
  else is a stutter. `AscendingAppend` and `AscendingTail` say what a new greatest
  element, and the loss of the least, do to the sequence of a finite set of numbers; they
  rest on the ranks of its elements, so on cardinalities and not on an induction.
* **`CliProofs!CliSafe`** – the types, `InvalidOpensNoSocket`,
  `DesignatedSocketOnly`, `WithinDeadlines` (the time spent so far and what the
  current request may still take never exceed the sum of the deadlines of the
  phases) and `SuccessHolds`.
* **`TextProofs!MappingSafe`** – `ShownDesignates` and `StateNotInvented`: the name kept
  is the engine's without its slash, or a prefix of its identifier; a text that fits
  its column is shown as it is, and one that does not ends with the ellipsis, which no
  reference may hold.
* **`TextProofs!TextSafe`** – the three properties of texts of any length: cleaning
  keeps length, an accepted reference holds only characters that cleaning keeps,
  a prefix of an accepted reference is accepted.
* **`ReleaseProofs`** – `TagsAreReleases`, `MainAdvances` and `TagsNeverMove`, about
  `ReleaseSpec`. `TagsReleased` alone is not inductive: a run makes the
  tag steps after it has checked what it tags. The invariant `ReleaseInv` adds
  `RunSound` (a run holds a release of its base from the step that chose or made
  it, and `main` contains it from the step before the tag, also when developers push,
  because they push on top of `main`) and `HistorySound` (ancestors form a line along
  which versions grow, strictly at each release), which gives `OneReleasePerVersion`.
  The assumptions are those on the three constants: `MaxVersion` is a natural number,
  there is an edition, there may be a commit.
* **`ReleaseProofs!LedgerKept`** – `ReleaseSpec => ImplementsLedger`. To `ReleaseInv`,
  `LedgerInv` adds what makes a fast forward a step of `Ledger`: the history of a
  commit is its parent's and the parent (`ParentPast`), and the base is in `main` once
  the run has seen it there (`BaseHeld`). When GitHub accepts the update, `main` is
  therefore still the base, and gains one commit, of a version above all it holds
  (`HeldBelow`). A tag is put on the release `main` holds because that one is the only
  one (`OneRelease`). `PublicationKeepsLedger` carries it to the publication.
* **`PublicationProofs`** – `PublishedAssets` and `AssetsStay`, about `Spec`. Each step of the publication is a step of the transaction or leaves
  it alone, so `ReleaseInv` carries over. To it `PublicationInv` adds
  `Publishing` (the tag of a run that publishes is on the release it holds, and the
  assets before the one at hand are complete) and `AggregateSound` (the bundles of an
  aggregate are complete, so nothing can change them any more).

Only model-checked is liveness, which is beyond the prover: `QuietWhenIdle`,
`LoadingEnds`, `ShutdownEnds`, `RerunsFinish`, and the fairness halves of `GateSpec`
and `ImplementsKeyQueue`. No theorem needs an induction over data: rows are counted by
cardinality, and no module with a proof declares a recursive operator.

## 6. Not modelled, and why

* Colours, column widths, wording and the tables of `output.rs`: no state and no
  key depends on them.
* The fields the mapping copies as they are (image, ports, dates) and the engine's
  information: they carry no decision.
* clap's parsing, crossterm, tokio, Bollard, cosign and GitHub: external, as the
  code uses them.
* The contents of the packages, SBOM and checksums, the Sigstore identity
  pattern: one file at a time, covered by `tests/release-invariants.sh`
  and `test-sign-identity.sh`.
* The quality and audit jobs and the other workflows: they gate a run, and
  keep no state between runs.

## 7. Plan

1. *Done:* `App`, `Screen`, `Tui` with `ActionGate`, `Loop`, `InputReader` with
   `KeyQueue`, `Cli` with its parts, `Text`, `Mapping`, `Release` with `Ledger`,
   `Publication`, their runs, and the theorems of section 5: every invariant and every
   action property of a run, and the safety of every refinement.
2. *Model next:* the liveness of `Loop` under fairness, on a smaller instance; the
   allowlist and the step outputs of `release.yml`.
3. *Prove next:* what `Publication` adds to `Ledger` (a complete set of assets is a
   fourth state of a version), and that `Cli` implements an abstract invocation.
