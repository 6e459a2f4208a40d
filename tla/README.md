# Guard-CLI in TLA+

Guard-CLI (`soroban-guard`) is a static analyzer for Soroban smart contracts: a
Rust workspace with a library of checks (`crates/checks`), an analyzer that runs
them over a tree of sources (`crates/analyzer`) and a command line
(`crates/cli`). This directory specifies the parts of it whose behaviour depends
on order, on failure, on what changes underneath, or on how several pieces of
state hang together, and checks and proves what those parts promise.

All paths below are relative to the repository's root.

## 1. The system

| Part | Source | State | Operations | Hard because |
|---|---|---|---|---|
| Scan | `analyzer/src/lib.rs` 359-703, 776-900 | list of paths, counters, rayon's queue, the results | resolve the root, compile the patterns, walk, filter, header test, `run_checks_for_file` on a pool, gather | workers in any order; the pool stops at the first error on one entry point and not on another; the tree is read twice while it changes |
| Report of one file | `analyzer/src/lib.rs` 15-38, 199-355, 569-608 | two suppression sets, findings | bind comments, run each check, filter, drop redundant divisions | keys by name, findings without a name, order of two filters, panics |
| Scan command | `cli/src/main.rs` 127-437 | options, threshold, the `--output` file of earlier runs | resolve path, load configuration, parse threshold, validate names, scan, emit, exit | seven ways to exit 2; precedence of three thresholds; files that outlive a run |
| Watch mode | `cli/src/main.rs` 438-553 | channel, deadline | scan, register, receive, drain, rescan | files change in every one of these states; the watcher may not start; irrelevant events may never end |
| Configuration discovery | `cli/src/config.rs` 46-93 | the directory looked at | climb, stop at `.git` | text against directories |
| Checks | `checks/src/*.rs`, 34 of them | a visitor per method or file | one `visit_*` method per construct | a syntax-order walk stands for all executions; what one construct proves is taken to hold elsewhere; names for values |
| Registry, helpers | `checks/src/lib.rs`, `util.rs` | none | list of checks; which items are collected; whose `require_auth` gates | code for tests told from shipped code by `cfg` predicates |
| Answers and formats | `analyzer/src/lib.rs` 705-900, `cli/src/main.rs` | none | gather, sort, deduplicate, count, gate, truncate, group | two entry points and four formats have to agree |
| Other commands | `cli/src/main.rs` | none | list-checks, explain, init, completions | print and exit |
| Baseline | `cli/src/baseline.rs` | a multiset | insert, fingerprint, filter | counts and occurrences; no command calls it |

How they interact: the scan command loads the configuration, builds the list of
checks, and calls the analyzer once per scan; the analyzer calls every check on
every file from its workers, under `catch_unwind`; watch mode calls the same
`run_scan` again and again. The parts share the file system with editors, builds
and other CI steps, and share nothing else.

What makes each part correct:

- *Scan*: every selected file is analysed once, an Ok answer hides no failure,
  an Err answer names the root, pattern or directory that was of no use or files
  that failed, an undisturbed scan is a function of the tree.
- *Report of one file*: what the user asked to hide is hidden, nothing else is.
- *Scan command*: exit 0 means that the gate was passed, exit 1 is explained, exit 2
  leaves no complete report of this run.
- *Watch*: no relevant event is lost, irrelevant ones cost nothing.
- *Configuration*: the nearest file, nothing from another project.
- *Checks*: what the documentation says a check detects is detected, and a
  finding stands for an execution that can happen.
- *Answers and formats*: two entry points give one answer, and no format says
  anything the exit code denies.
- *Baseline*: one recorded finding hides one finding.

## 2. The modules

| Module | What it is |
|---|---|
| `Scan` | The three entry points `scan_directory`, `scan_files` and `scan_directory_with_checks` (variable `api`): the root and the patterns, the walk as a list of entries still to come, the pool as a set of waiting jobs and what each worker holds, the answer. |
| `ScanPromise` | What a caller is promised: some set of files, each read once, and an answer computed from what was read. |
| `ScanRefinement` | The mapping from `Scan` to `ScanPromise`. |
| `MCScan` | Small instances. |
| `ScanProofs` | Theorems about `Scan`: errors, completeness, the refinement, and what an undisturbed scan answers. |
| `FileReport`, `MCFileReport` | `run_checks_for_file` after parsing, for every placing of suppression comments. |
| `ScanCommand`, `MCScanCommand` | One run of `soroban-guard scan`, from the command line to the exit code. The analyzer is one step with its outcome. |
| `Watch`, `MCWatch` | `scan --watch`, the editor and the kernel's event queue. |
| `ScanCommandProofs`, `WatchProofs` | Theorems about the two. |
| `ConfigSearch`, `MCConfigSearch` | `find_config_path` over absolute and relative paths. |
| `Reentrancy` | The reentrancy-risk visitor over every method body of a bounded size, next to the executions of that body. |
| `ReentrancyProofs` | Theorems about `Reentrancy`, without the bound. |
| `BalanceCheck`, `XcInputCheck`, `VecGrowthCheck` | The missing-balance-check, unsafe-cross-contract-input and unbounded-vec-growth visitors, in the same way: what each remembers about names, next to what the names stand for. |
| `NameCheckProofs` | Theorems about these three, without the bound. |
| `Method` | A method body as a sequence of statements, its lines and blocks, and its executions: what the next seven modules have in common. |
| `AuthChecks` | missing-require-auth, auth-after-storage-write. |
| `PrivilegedChecks` | unprotected-upgrade, -token-mint, -contract-deployment and -admin. |
| `FollowUpChecks` | missing-ttl-extension, missing-event-emission, missing-event-for-admin-change, missing-nonce, and temporary storage. |
| `StorageChecks` | uninitialized-storage-read, panic-in-contract, re-initialization-risk. |
| `GuardChecks` | missing-zero-address-check, self-transfer, missing-input-length-bound, unchecked-divisor, unchecked-token-amount. |
| `InvokeChecks` | unchecked-invoke-return, delegate-call-risk. |
| `ArithmeticChecks` | unchecked-arithmetic, integer-division-truncation. |
| `MethodProofs` | How executions of a body relate to its text, and theorems about `AuthChecks`, `PrivilegedChecks` and `FollowUpChecks`, without the bound. |
| `MethodUseProofs` | Theorems about the other four families on `Method`, without the bound. |
| `MCBodyChecks` | All checks of bodies in one instance; a behaviour is about one of them. |
| `TextScans` | forbidden-std-imports and hardcoded-address, line-by-line lexers, next to the compiler's. |
| `ItemTree` | Which items of a file are looked at: the shared collector, mutable-global-state, hardcoded-address's test ranges, missing-contract-annotation. |
| `KeyNames` | unsafe-storage-patterns on `Symbol::new`: constants known by name. |
| `KeyCollision` | symbol-key-collision: keys filed by impl block and reported from a hash map. |
| `ScanReport` | From the findings of the files to the answer, and from the answer to counts, gate, truncation, rules and groups. |
| `Baseline` | Fingerprints with occurrence numbers, recording, filtering. |
| `MCFiles` | `FileReport`, `ConfigSearch` and the six modules above in one instance; a behaviour is about one of them. |
| `MCClaims` | Ten sentences that documents or comments say of these checks and they do not do, one after the other. |
| `FilesProofs` | Theorems about `FileReport`, `ConfigSearch`, `KeyNames`, `TextScans`, `ItemTree`, `KeyCollision` and `Baseline` as `MCFiles` puts them together. |

The definitions ending in words such as `TakeAgain`, `AnyHas` or
`IsTokenInnermost`, each placed right before the definition it varies, are the
mistakes that the properties are tested against; no specification uses them.

### Scan

A scan first resolves its root, which is a directory (`"tree"`) or one file
(`RootMissing`, `RootResolved`: `canonicalize_root`), then compiles its patterns
(`BadGlob`), then begins to walk (`OpenTree`, `OpenFile`), and the root may have
gone by then (`RootUnopened`). Each of these has its error. `Unusable` is what
could not be used if it were tried now. A file's text is a record: its `fate` (how reading and parsing it goes), the
checks that find something in it and the checks that panic on it. `disk` gives
each file its present text and `Edit` replaces it; `Seal` takes the
permissions of a directory, the root included, away or gives them back. A worker reads a file at `Take`, which is when
`run_checks_for_file` calls `read_to_string`, and everything after that is a
function of the text it got; `Finish` and `KeepFirst` are the two things that
can become of the result. `Take` takes any waiting job: rayon's splitting and
stealing order is not specified, and the model permits every order.
`GatherAll` is `collect_scan_results`; `GatherFirst` is rayon's collection into
a `Result`, which drops unclaimed jobs once one has failed (`ShortCircuits`).
The walk yields a permutation of the tree (`Listings`), and files are classified
against the disk at that moment.

### FileReport

A file is a sequence of lines, each of them code, or something that
`next_substantive_line` skips, with or without an allow comment. `parse_suppressions`
is one action per line; `RunCheck` lets the next check report any set of places
(bounded by `MaxHits`), and `Panic` lets it panic. A method span has a field
`block` the program does not have: it is how the model can tell two
`#[contractimpl]` blocks of one type apart and say what suppression promises.
Checks are in registration order, truncation before divisor. The code's
`iter().find` is the least position of a method that fits. Two methods may share a
line: a comment above them then binds to the first only
(`analyzer/src/lib.rs:239`), and one of the layouts is such a line.

### ScanCommand

Inputs are chosen at the start: command line, what the configuration search
finds from the current directory and from the scan path, what is on disk to
scan, whether the output file can be written, and what an earlier run left in
it. Severities are ranks, so "at or above" is `<=`. `fs::write` opens, which
truncates, and then writes: so the output file may be written (`medium` "sound"),
not be opened and stay what it was ("closed"), or be torn ("full"). A document
that serde_json refuses is an error of its own (`SerializationFails`). A tree says
whether the analyzer gives up on it and which is the worst finding it reports.
Files that were left out with a warning and checks that panicked are no part of it,
because the command looks at neither.

### Watch

`version` counts the changes of a file, a scan reads the files one after the
other (`ReadFile`) and prints at its end. `announced` is a history variable: the
versions all files had when the latest relevant event was sent. The channel
carries "rs" for an event the loop reacts to and "other" for one it drops; the
latter may keep coming for ever (`Noise`), with no more than `MaxQueue` events
queued when one arrives. `RegisterFails` is the two ways in which the watcher
cannot be started, after which the process is gone.
`Surprises` switches on what the machine may do: saves before registration,
directory moves, queue overflows.

### ConfigSearch

A path is a sequence of components with a flag for absolute, which is what
`std::path::Path` makes of it; `Real` is what the kernel makes of it, from the
working directory, walking the components (`Lookup`). `Parent` shortens the text,
as `Path::parent` does.

### Reentrancy

The method body is written while it is visited: an action is the next construct
of some body, and does what the visitor does and what executions do. `paths` is
the set of states that executions of the body so far can be in (whether they
wrote, whether the latest write has not been read back), `hit` remembers that
one of them invoked in a dirty state. `if` gives each branch a visitor from the
state before it and merges; `match` has no handler, so the arms run through one
visitor; `return` ends executions and not the visit. `blind` collects the
constructs that can hide something from the visitor and `wide` notes those it
walks and executions do not.

### BalanceCheck, XcInputCheck, VecGrowthCheck

These checks remember names, and Rust's names have scopes: `env` is what each
name stands for at this point, and comes back when a block of `opened` ends; the
visitor's own idea of it is in `scan`. `BalanceCheck` also keeps `runs`, whether
the executions that get here have checked a balance since their latest transfer;
there `MissingBalanceCheck::run`, which goes over the sorted positions after the
visit, is folded into the visit, as positions grow along it (`See`).
`XcInputCheck` has one set of names, which the end of a block does not touch.
`VecGrowthCheck` has four sets without an order, compared when the body ends;
`Offenders` is what would be reported if it ended here. As in `Reentrancy`,
`real` is what executions do wrong, `hides` names the constructs met that can
hide it, and `invents` those that can make something else look like it: the
properties say that these lists are complete.

### Method and the seven families of checks on top of it

These checks look a finished body over, so a check is a function from a body to
its findings, and a behaviour writes a body statement by statement; every prefix
is a body. `Method` gives a statement its line (several may share one), its
block, and runs the body: `Runs` is the set of executions, each the sequence of
statements it carried out, with both outcomes of every branch, guard and
assertion. A family lists its `Statements`, defines each check from the visitor
that implements it, and its property compares the two: an execution that does
what the check is about without what the check asks for is a finding, unless
the body has one of the constructs the property names, and a finding is such an
execution, unless it has one of the others. Every excuse in a property is a
limit of the check, and each is needed: without it TLC shows a body.

- *Auth*: an authorization in a branch or on the line of the write counts for
  all executions; a helper whose name contains `require_auth` stops one check
  and is unknown to the other. The two never report the same method.
- *Privileged*: the three copies of the rule differ in which names count
  (`owner` is admin-like, but not to the mint check, which keeps its own list);
  a `let` that binds an admin's name to something else is not noticed.
- *Follow-up*: an extension, event or nonce anywhere in the body counts, though
  an execution may skip it, or remove the key after extending it. A `push` on a
  storage chain is a write for missing-nonce only.
- *Reads*: a `has` on an earlier line guards a read even if nothing depends on
  it. Every unwrap is reported by one of two checks, and only a chain with a
  default by both.
- *Initialization*: a guard that is the wrong way round passes for one, and so
  does a check combined with another condition (`has(k) && flag`, "both"), which
  stops a second call only if the other condition holds.
- *Guards*: the five checks differ in what a validation is. Three of them accept
  a comparison of any input, two miss assertions.
- *Calls*: a name bound again in an inner block hides the result it shadows.
- *Arithmetic*: a checked call on the same operands and line is an excuse.

### The modules about files

`TextScans` and `ItemTree` put the compiler next to the scanners: `Mode` is
rustc's lexer, `Built` is what a build with given `test` and `feature` flags
contains, and an item counts as shipped if a build without `test` has it.
`KeyCollision` files every use (`Visit`) and reports slot by slot in any order
(`Emit`), which is the hash map; `Report` is that list after the sort by line.
`ScanReport` has a tree with findings and fates (`fates`: what happens to each
file) and a list of paths; both answers and all summaries are operators on
them. `Baseline` records scans and filters one, with bags for the multiset.

## 3. The runs

Passing runs:

| Run | Instance | Shows |
|---|---|---|
| `scan` | 2 files, 1 directory, a root that is a directory or a file, patterns that compile or do not, 2 checks (one finds, one panics), every fate, 2 workers, lists of 2, 1 edit, all three entry points | `TypeOK`. `OneOwner`, `OkIsComplete`, `ErrorsAreReal`: no job lost or duplicated, no failure hidden, no error about anything but what was of no use or failed, while the disk changes. `QuietVerdict`: if it does not change, the answer is a function of the tree, and the warnings name every file that could not be read. `KeepsPromise`: refinement of `ScanPromise`. `Terminates`. 565,234 states. |
| `files` | `FileReport`: 6 lines, 5 fillings of two gaps and 3 of the third, 4 layouts of methods, 2 checks, 2 findings each. `ConfigSearch`: 4 directories, paths of up to 3 components, every set of configuration files and `.git`s. Texts of up to 6 tokens, files of up to 4 items, declarations or uses of keys, 2 paths with up to 3 findings, panics and failures in all and lists of up to 3 paths, scans of up to 3 findings recorded up to twice | `AskedIsHidden`, `OnlyAskedIsHidden`; `NearestIsFound`, `Ends`; `TextFindings`, `ItemFindings`, `KeyNameFindings`, `CollisionFindings`; `ReportFindings`; `BaselineFindings`. |
| `command` | 3 formats, thresholds High, Low, none and unknown on both sides, 7 outcomes of the configuration search (none, unreadable, malformed, four settings), every tree, every way of writing the output file, every leftover | `ZeroIsEarned`, `BlockIsExplained`, `ErrorIsNotAReport`, `JsonScanErrorIsDelivered`. 3,328,908 states. |
| `watch` | 2 files, 2 changes each, irrelevant events for ever, 3 of them queued at most, a watcher that may not start, every surprise | `NoLostWakeup`, `RescansAreEarned`, `AnnouncedIsShown`. 17,226 states. |
| `body_checks` | `Reentrancy`: bodies of up to 9 constructs, nesting 2; balance, xc-input and vec-growth: 2 names, up to 6 constructs; the families on `Method`: 4 statements (initialization 5, arithmetic 2), blocks one deep, several statements on a line | `TypeOK`, `NothingMissed`, `NothingInvented`, `BalanceFindings`, `XcInputFindings`, `VecGrowthFindings`, `AuthFindings`, `OrderedFindings`, `AdminFindings`, `TtlFindings`, `EventFindings`, `ReadFindings`, `InitFindings`, `GuardFindings`, `InvokeFindings`, `ArithmeticFindings`: findings and executions correspond but for the named constructs. |

Why the bounds are enough. *Scan*: the properties speak of one job, or of two
(one that failed and one that was dropped), and of one worker against another;
two of each, with one edit between header and read, contain every pair.
*FileReport*: a finding is hidden by one comment or one other finding, and a
comment is above a first line, inside a method or below everything; the layouts
have each, and two methods on one line. *ScanCommand* is finite apart from severities, of which the ends are
taken. *Watch*: an event is lost between two saves, and a second file is needed
for a scan that has read one and not the other; three irrelevant events are more
than one window has to drain to be overtaken by the next. *ConfigSearch*: a directory
above, at, below and beside the working directory. *Reentrancy*: the branch
merge needs one call before, one in each branch and one after, in two levels;
the theorems then remove the bound. In the three checks about names a wrong
finding needs a binding, a block, a second binding of the name or an operation,
the block's end and an operation: five constructs, and another name to confuse
it with. *Families on `Method`*: what can go wrong is between a statement that
validates, the block it is in (an `if` and its end) and the statement it should
protect, four; an initializer also needs the second write. Arithmetic compares
two operations. *Files*: a comment, its end, a string, a word and a line end; a
module, its end, a declaration and a block; two uses of one key and one of
another, twice; two findings on one line in two files. The theorems of section 5 remove the
bounds of all of these but the last, `ReportFindings`.

Runs that find a disagreement between a document and the code:

| Run | Property | What happens |
|---|---|---|
| `scan_errors` | `EveryErrorSurfaces` | Two broken files, the command's entry point returns one error. |
| `command_stale` | `OutputIsAlwaysFresh` | A scan error under `--sarif` leaves an old file under `--output`. |
| `watch_early` | `EveryChangeIsShown` | A save during the first scan is never shown. |
| `config_relative` | `NearestIsUsed` | A relative scan path never finds a configuration above the working directory. |
| `suppression_twins` | `ScopedToTheBlock` | Two impl blocks of one type share suppressions of a method name. |
| `admin_noop_if` | `NoopIfIsNoGate` | `if admin != new_admin {}` silences unprotected-admin. |
| `claims` | `ASentenceStands` | Ten sentences about checks are contradicted, one after the other, by a body or a file each. |

The sentences of `claims` are definitions of `MCClaims`, and its trace shows for each a
body or a file on which the check does otherwise:

| Sentence | Where it is said | What the check does |
|---|---|---|
| `AnyAuthClears` | `docs/checks.md:494`, 745, 764 | An upgrade, mint or deployment is reported although a user was asked, or the admin after it. |
| `AnyReceiverClears` | `docs/checks.md:126`, `admin.rs:39-40` | unprotected-admin reports a method that asks a user. |
| `AnyCheckClears` | `docs/checks.md:435` | A `has` that gates nothing does not clear re-initialization-risk. |
| `SafeCallsClear` | `overflow.rs:92-93` | A checked call on another line does not clear unchecked-arithmetic. |
| `LiteralsAreLeftOut` | `docs/checks.md:83` | `a + 1` is reported. |
| `AssertIsGuard` | `unchecked_divisor.rs:84-87` | A division below `assert!(divisor != 0)` is reported. |
| `CommentsAreSearched` | `docs/checks.md:191` | An address in a comment is not reported. |
| `ImplConstantsAreKnown` | `storage.rs:99-101` | A key `Self::KEY` is reported. |
| `BranchesClear` | `docs/checks.md:204`, `xc_input.rs:3-5` | A raw value stored inside an `if` on it is reported. |
| `BlocksAreApart` | `docs/checks.md:348`, `key_collision.rs:11-13` | Contracts in two inline modules collide with each other. |

Each sentence has its turn only when the one before it has been contradicted, so the
violation of `ASentenceStands` needs all ten. In most of these the code is stricter, or
more careful, than the sentence, and its tests side with the code; the properties of
the passing runs state what the code does.

Met while modelling, and not the subject of a run:

- An unreadable file is left out of a scan without being counted
  (`analyzer/src/lib.rs:531`), although `docs/json-schema.md:84` reads
  `files_skipped` 0 as a complete scan; and a file whose header could be read but
  whose body cannot (line 561) aborts the scan, against the comment at 528-530.
- Such a file, and a check that panicked (`cli/src/main.rs:139` drops the list), leave
  the exit code at 0 if the rest is clean, while the comment on directories that cannot
  be read says that a "deploy-gating tool must not present an incomplete scan as clean"
  (`analyzer/src/lib.rs:497-498`). The warning on stderr is what `QuietVerdict` promises.
- `--json` errors before the configuration is loaded are plain text
  (`cli/src/main.rs:332-343`), against the comment at 265-268.
- A report whose writing breaks off leaves a torn file where the job uploads it
  from, at exit 2 (`cli/src/main.rs:1037-1041`): torn JSON does not parse, but a torn
  Markdown report reads like a shorter one.
- The number of findings printed by the pretty format is cut by `--max-findings`, so
  the finding behind an exit 1 may be behind the cut.
- Directory moves and queue overflows are dropped by watch mode
  (`cli/src/main.rs:485-495`) until the next save; `AnnouncedIsShown` says what
  still holds.
- `set(&k, &(get(&k) + 1))` counts as a write that has been read back
  (`docs/checks.md:265`): the outer call is handled before its arguments, blind
  spot "argument" of `NothingMissed`.
- The reentrancy visitor never enters an `if` condition, and visits match arms
  as if one followed the other. `docs/checks.md:265` counts `extend_ttl` and
  `bump` as writes; the code does not.
- `BalanceCheck`: a `let` in a block that gives a client's name to something
  else takes the name out of the block's own frame only, so it stays a client
  (`checks/src/balance.rs:120-126`), against "matching Rust's actual lexical
  scoping rules" (100-101); and `let c = c.balance(..)` loses the check, because
  the binding is recorded before its initializer is visited. A balance in the
  arguments of its own transfer counts for the next transfer.
- `XcInputCheck`: a copy of the value under another name is not flagged.
- `VecGrowthCheck`: binding the name again after the write takes the finding
  away (`checks/src/vec_growth.rs:101-106`).
- `README.md:122` and `docs/configuration.md:42` disable a check called
  `reentrancy`; its name is `reentrancy-risk`, and an unknown name exits 2.
- Suppressing `unchecked-divisor` on a division brings its
  `integer-division-truncation` finding back, as the redundancy filter runs after
  the suppressions (`analyzer/src/lib.rs:604-606`).
- The docs say that names of upgrades and mints match by substring; the code
  compares exactly.
- `docs/checks.md:140` and 150 say that a key built from a `const` may be flagged;
  constants known by name are not. 513 and 721 describe looser guards than the code
  has (of vectors, and of reads), and 246 fewer addresses than delegate-call-risk
  reports.
- `util.rs:284-289` speaks of `get_admin(&env)` as a receiver, which is an
  `Expr::Call` and rejected; `util.rs:375-377` says that admin-like names "can't
  drift apart", but the mint check has a list of its own.
- The map that impl blocks in inline modules share (`BlocksAreApart`) takes test modules in.
- `std_imports.rs`: a `/* */` closed on its line hides the lines down to the next
  `*/`; and a comment that opens on the line on which another one ends is forgotten
  (28-40), so its next lines are taken for code. The second takes eight tokens, more
  than the run has: the proof of `TextFindings` failed on it. missing-contract-annotation looks at test modules too.
- missing-nonce takes `push` and `push_back` on a storage chain for writes,
  missing-event-emission does not.
- `--max-findings` cuts in path order and not by severity. A path given twice to
  `scan_files` has its panics reported twice.
- An allow comment above two methods written on one line hides the findings of the
  first only (`analyzer/src/lib.rs:239` takes the first span that starts there), so
  `AskedIsHidden` speaks of methods on lines of their own (`NoSharedLines`).
- `analyzer/src/lib.rs` defines `file_label` three times (309, 713, 732). The
  copies agree in effect, and the model has one.

## 4. Fairness

*Scan*: weak fairness of opening the root, of the walk, of gathering and of each worker: the caller
blocks in `collect` until the pool has drained, and a rayon worker runs until
its queue is empty. Nothing is assumed of the environment. *Watch*: weak
fairness of the loop as a whole, and of leaving the debounce window, which ends
at a fixed deadline whatever arrives: `AnnouncedIsShown` holds with irrelevant events
that never end, and fails for a window that waits for silence (`RescanWhenQuiet`).
Nobody is assumed to save anything. That
an event was sent for a save is the model of `notify`, not fairness.
*ConfigSearch* (in `files`, and of the search only): a sequential loop. The rest of
`files`, `ScanCommand` and the checks of bodies are about safety only; they end after a fixed number of steps, so deadlock is not
an error there (nor in `Scan`, which stops with an answer, nor in `Watch`, which
waits for an editor whose saves are bounded).

## 5. The proofs

`ScanProofs` proves, for any sets of files, directories, checks, texts and
workers and any bounds, `TypeOK`, `OneOwner`, `OkIsComplete` and
`ErrorsAreReal` of `Scan`. `TypeOK` gives `outcome` and `answer` their types and
bounds job numbers by the outcomes there are, which needs to be known at each step
that moves one. `ErrorsAreReal` follows at the step that gives up, as nothing changes
after it. `OkIsComplete` is not inductive: at the moment of the
answer it needs that a drained pool has an outcome for every job, which needs
that jobs have one owner, and that with a short-circuiting pool a job is dropped
only if a failed one was kept. The invariant carries these, and the answer part
follows at the two gathering actions.

It also proves, for the same constants, that `Scan` implements
`ScanPromise` (`KeepsPromise`), and `QuietVerdict`. Of the refinement, only two steps
are more than a stutter, reading a file and answering; the answering step needs to
know that what was read is what the outcomes were computed from, which the
invariant says. `QuietVerdict` says what the answer *is* as long as
nobody edits: so its invariant follows the tree through every stage (`WalkSoFar`:
the files classified so far are classified as the tree has it; `RunSoFar`: every
outcome kept is that of the file's only text). A pool that stops at the first error
may then keep any failed file, but no other answer than a failure.

`ReentrancyProofs` proves `TypeOK`, `NothingMissed` and `NothingInvented` of
`Reentrancy` for bodies of any size and depth. The invariant brackets the
visitor between executions, in both directions. *Sound*: as long as no blind
spot was met, every execution that wrote has a visitor that knows, and every dirty
execution a visitor that does not take the write for read back, at the present
point, at the entry of every open construct and at the end of every finished
branch. *Tight*: as long as nothing wide was met, a visitor that wrote has an
execution that did. The merge of two branches preserves both, which is what the
"union of both branches" comment in `visit_expr_if` claims.

`ScanCommandProofs` proves the four properties of `ScanCommand` for every set of
formats, severities, configurations, trees and leftovers. They are not
inductive, being about a run that has exited. What they say of exit 0 is that the gate
was passed and the artifact is right, and not that the scan was complete, which the
command does not ask; of exit 2, that nothing complete was left, and something torn
only where the medium gave out after the file was opened. The invariant says of a run that
has not that it has printed nothing and left the artifact as it found it
(`Untouched`), and at which step which part of the setup is known to be in order
(`Passed`): a run at its scan has a path, a configuration that loads, known
names, and for its threshold the severity the user demanded. The exits then
follow one by one.

`WatchProofs` proves `NoLostWakeup` and `RescansAreEarned` of `Watch` for any
files, any number of saves, and any surprises. The first is inductive once it is
known that versions shown were read and versions read were there (`Ordered`).
The second needs the relevant events still in the channel on its left-hand side
(`Budget`): each may yet start a scan. Its lemmas count the events that an
Append adds and a Tail removes.

`NameCheckProofs` proves `XcInputFindings`, `BalanceFindings` and
`VecGrowthFindings` for bodies and sets of names of any size. Each compares what the
visitor remembers about names with what the names stand for at this point, which is
inductive only together with the same comparison for every frame that a block's
end will bring back; the properties are the case of the innermost one. The
constructs in `hides` and `invents` are exactly the steps at which one side of the
comparison may be lost.

`MethodProofs` and `MethodUseProofs` prove the ten properties of the families
on `Method` for bodies of any length and depth. A check looks at a text and its
property speaks of executions, so what is needed is what the one says about the
other. That is the invariant `WalkInv`, of every execution of the body so far: it
carried statements out in the order of the text (`InOrder`), went on for as long as
nothing ended it (`Passed`), did everything that stands above a statement it
did, in the blocks around that statement (`Dominated`), and left out nothing at the
level of the method (`Complete`). In the other direction there is no dead code: some
execution comes to every statement (`Reached`). A guard above a use therefore stands
between every execution and that use; one in a block beside it need not, and the
execution that shows it exists. `InitFindings` is about a second call: it needs the
same of the executions that begin with an initialized contract (`AgainInv`).
A check that is combined with another condition is among its excuses: the
executions of a second call may pass it.
`Walk` is a recursive function over the body, unfolded one statement at a time.
Two of the properties were stated too strongly for longer bodies than the run has:
`if assert else assert end use` (`GuardFindings`) and `if get else call end get call`
(`InvokeFindings`, delegate-call-risk) needed excuses of their own, found by the
attempt to prove them.

`FilesProofs` proves, of what surrounds the checks of bodies:

- *Suppression*, for any layout and any checks that find anything (`AskedIsHidden`,
  `OnlyAskedIsHidden`): what is in the sets was put there by a comment that binds to
  this method (`Earned`), every binding comment read so far is in them (`Bound`), and
  what is reported has passed the filter (`Filtered`), with the report of a check
  sealed when the next begins (`Sealed`). That "the first method that fits" is the
  one a finding lies in needs that methods do not overlap, which is an assumption on
  layouts.
- *Search*, for any finite set of directories (`NearestIsFound`): the directory looked
  at is always an initial part of the start (`PathShape`), and every directory above
  that was passed had neither a configuration nor a `.git` (`Climbed`). What a path
  leads to is a recursive function over its components (`LookupIsUnique`,
  `DownwardLookup`).
- *Texts*, of any length (`TextFindings`): a scanner and the compiler's lexer go over
  the text in step. hardcoded-address compares mode with mode; forbidden-std-imports
  forgets everything at a line's end but whether a comment is open, so `Agrees` says
  what the compiler's mode at a position can be for a scanner that knows only that
  and what it has seen of the line.
- *Items*, files of any size and modules of any depth (`ItemFindings`): the predicate
  `is_cfg_test` against every build, by the form of the predicate.
- *Keys*: constants known by name (`KeyNameFindings`), for any sequence of declarations
  and uses; and colliding keys (`CollisionFindings`), for any number of uses. There,
  that the hash map's order does not matter comes from two facts: a finite ordered
  set can be sorted in one way only (`SortedIsUnique`), and what is emitted for one
  key ascends (`CollisionInv`), so that a sort by line that is stable leaves nothing
  open unless two keys share a line. The number of findings of a key is that of its
  sources less one, by counting both along the first use of each source.
- *Baseline*, for any number of scans of any length (`BaselineFindings`): fingerprints
  within one scan differ, and an occurrence is recorded exactly if some recorded scan
  had more of its key than come before it (`BaselineInv`).

Induction over data is done in these modules with `Least`, a least-number principle
derived from the well-foundedness of < in a form that needs no operator as a
parameter, and with `Throughout`, which is induction over an interval.

The only assumptions are the named ASSUMEs on constants, which TLC evaluates in the
runs: `ScanAssumption` (no file or directory is called "tree" or "glob", the marks of errors about
the root and about a pattern), `BoundsAssumption`, `CommandAssumption`, `WatchAssumption`,
`SourcesAssumption` (methods have names and lines in order, and the two division
checks differ), `TreeAssumption` and `ConfigAssumption` (directories are paths, and every
one but the root has its parent).

What TLC alone shows: liveness (`Terminates`, `AnnouncedIsShown`, `Ends`), which is
beyond the prover, and `ReportFindings`, whose two answers are folds of higher-order
operators over sorted and flattened sequences: the induction for each of them is one
over data with an operator as a parameter. The properties of the runs that find
a disagreement are false of the code, and there is nothing to prove.

## 6. Not modelled

- Glob matching (a rejected file is a member of a set) and the `target/` filter,
  which looks at the absolute path; TOML parsing; layout and wording of the
  pretty and Markdown formats; the incremental cache helpers of the analyzer.
- `unsafe_randomness.rs` and `large_loop.rs`: each reports every occurrence of
  one form, and no state or order is involved.
- `list-checks`, `explain`, `init`, `completions`: they print, or write one file.
- Code nobody calls: `config::resolve`, `load_from_path` with an explicit path,
  `GatingHasGuardVisitor`. `Baseline` is modelled although no command calls it,
  as it is the library's promise.
- In the checks of bodies: loops, closures and macro bodies, aliases of types,
  and which method names a check applies to (the method is taken to have one).
  Branches in `XcInputCheck` are blocks, and `Cap` of `VecGrowthCheck` says
  whether every execution is held.
- `hardcoded_address.rs:32-34`, which passes over lines with `#[doc`, and the gate of
  forbidden-std-imports on files with a contract (`std_imports.rs:19-21`): no text of
  `TextScans` has such a line, and its file is taken to have a contract.
- The third entry point, `scan_directory`, in `ReportFindings`: it collects as
  `scan_files` does, from the paths of the walk.

## 7. Plan

1. Done: `Scan` with its promise and proofs, `ScanCommand` and `Watch` with
   proofs, `Reentrancy`, the checks about names, the families of checks on `Method`,
   and the modules about files, with proofs of all their safety properties but one.
2. `ScanCommand` composed with `Scan`'s promise in place of its one-step analyzer.
3. `ReportFindings` without the bound: sorts as the sorted sequences of
   `FilesProofs`, which exist once only, in place of folds.
4. `Method`: loops as a further block.
