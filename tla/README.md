# Formal models of the Problems repository

TLA+ models of the parts of this repository where calls overlap, crash and are
retried, with the TLC configurations that check them and TLAPS proofs of the
results that matter most. Paths are relative to the repository root.

## The system

Problems is a web application over two PostgreSQL databases.

* The **activity database** (`packages/activity-data`) holds private workspaces.
  All of its writes go through SQL functions; each call is one READ COMMITTED
  transaction sent by a stateless server process.
* The **projection database** (`packages/projection-data`) holds immutable
  releases derived from Git repositories, and one pointer to the release the
  site serves. It is written by command-line scripts and read by the site.

Scientific state itself is in Git and never written by either.

### Inventory

| component | state | operations | what is hard | what makes it correct |
|---|---|---|---|---|
| Workspace commands: `schema/base.sql`, `schema/workspace-crdt.sql`, `src/activity.ts`, `contracts.ts` | members, anchors, follows, approaches, attempts, discussion, artifacts, drafts, CRDT updates, idempotency records, audit | `execute_command` (8 kinds), `append_workspace_crdt_update`, `create_workspace` | overlapping calls, retries after a lost answer, key reuse, lock order, checks after writes | a key applies once and is answered alike; no lost update; lifecycle; threads stay together; every call ends |
| Workspace reads | none | list, context, problem activity, draft export | staleness of an anchor | reads only |
| Public profiles: `schema/public-profiles.sql`, `actions/profile.ts` | profiles, handles, performer links | save, rename, account deletion, operator links | no row to lock on the first save, a race for a handle, deletion during a save | one current handle per profile, none reassigned, no save lost, nothing left of a deleted account |
| GitHub codebases: `schema/github-codebases.sql`, webhook route, `import/actions.ts` | installations, repositories, deliveries, codebases | webhooks, claim, inventory sync, import | deliveries in any order and more than once, imports racing revocation | a codebase belongs to who owns its installation; what was removed stays removed |
| Pilot telemetry: `schema/pilot-telemetry.sql`, telemetry route | records | ingest | ceilings counted without a lock, expiry inside the write, retries | a record is stored once, forgotten in time, and the ceiling bounds what runs at once |
| Server actions and WebMCP tools: `apps/problems/src/app/actions/activity.ts`, `webmcp/tools.ts` | none of their own | read, pre-check, command, redirect | pre-checks on an old read, two releases serving, retries through changed inputs | what is written is about the anchor the page showed; one submit is one change |
| Release store: `scripts/projection-store.mjs`, `refresh-neon-projection.mjs`, `prune-releases.mjs`, `select-projection-release.mjs`, `schema.sql` | releases, shared source rows, current pointer | refresh (build, store, verify, floor, activate, confirm), select, prune | nothing is held between a refresh's transactions; a prune computes, then deletes | the pointer is always servable; first-live instants are fixed; no source row is missing |
| Projection builder: `projection-builder.mjs`, `math-source-projection.mjs`, `problem-resolution.ts`, `proposed-state-preview.ts` | none; reads repositories, packets and the resolver | build | a branching history that Core reads in part; sources, entities and packets that change independently | a preview names the Decision it is about; a binding names what its reviewer saw |
| Projection reader: `src/index.ts`, `read-contracts.ts` | per-process caches | gate, row reads, paging | a prune between gate and rows, cursors | a page is one release; a walk shows every row once |
| Release orchestration: `scripts/release-problems.mjs` | remote lock ref | refresh, deploy, readiness, prune, record | a stop between steps, a lock left behind, Vercel promoting when it likes | one run at a time; production serves what is stored and what is recorded |
| Migration scripts, pages, search, graph, sign-in, UI, brand | files or none | render | external or stateless | not modelled |

Interactions: server actions read both databases and send commands to the
activity database; the orchestration runs refresh and, after public readiness,
prune; the anchor a command carries is a read of a projection release, by root;
a build reads Repositories and Sources and gives the refresh its candidate.

## The models

### `ActivityCommands`

Several `Sessions` serve calls at once. A call takes the stages of the SQL:
`Enter` (membership, then the advisory lock on account and key), `Replay`,
`KeyReused` or `Fresh` (the prior record), `EnsureAnchor`, the statement of its
kind (one action per branch of `execute_command`, plus `CreateWorkspace` and
`AppendUpdate`; `attempt.update` has two statements, `ReadAttempt` and
`UpdateAttempt`), and `Commit` (audit entry, idempotency record and everything
staged). `Refuse` is `RAISE EXCEPTION`; `Crash` loses the connection at any stage.

| in the model | in the code |
|---|---|
| `rows`, by the number of the call that made them | the tables with generated ids; a `table` field tells them apart |
| `idem`, `audit`, `anchors`, `follows`, `members` | the tables of that name |
| `staged` | what the transaction has written and not committed |
| `held`, `Conflicts`, `Grantable` | advisory lock, row locks, foreign-key share locks, and the wait for a unique key another transaction is inserting |
| `req`, any member of `Requests` | retries, key reuse and any expected version |
| `answers` | history only; no action reads it |

Choices. One transaction per call, READ COMMITTED: a statement reads what is
committed when it runs. Locks a single statement takes are taken in one step. A
root or a payload is a model value; an anchor root stands for the fields it
hashes, so the branch of `ensure_anchor` that finds other fields under the same
root is left out. Accounts exist and memberships are never withdrawn: no
product code deletes one. Input validation that refuses before any write (key
length, base64, CHECK constraints, the authority boundary of a draft) is left
out. An artifact may have no attempt, as the column allows; `MCActivityRetry` uses
that to reach the unique key in few calls. Follows and workspaces have no
generated row in `rows` and are answered with id 0. Following something already
followed takes no lock and is one step. The audit entry's `call` and `key` are
history added for the properties.

`AtomicCommands` is the abstract specification: commands applied one at a time,
each key at most once, with the row and record appearing together.
`ImplementsAtomic` says the interleaved statements amount to that.

### `ProjectionRelease`

`Refreshers` run the refresh script: `Build`, `ReadCurrent`, then `Confirm`, or
`CheckStored`, `InsertRelease`, `InsertReferences`, `VerifyRows`,
`ReadActivated`, `CompareCorpus`, `Activate`. Each is one statement or one
transaction of the script and nothing is held between transactions.
`RefreshCrash` may end a run anywhere. `Select` is `selectStoredRelease`, whose
serializable transaction is one step. The prune is `PruneSnapshot`,
`PruneDelete`, `PruneRows`, `PruneCommit`.

| in the model | in the code |
|---|---|
| `activatedAt[c]`: `None`, 0, or an instant | a release absent, stored and never activated, or `releases.activated_at` |
| `shared`, `Uses` | source declarations, observations and native records, and what `release_sources` of a release names |
| `pointer`, `liveSince`, `confirmedAt` | the row of `current_release` |
| `job[r].expected`, `.base` | the root the compare-and-swap expects; the root the corpus floor is measured against |
| `Window` | the retained set of `assertReadableRelease` and of the prune |
| `clock` | time, counted in builds: a manifest's `activation_time` is when it was built |

Choices. Clocks of the machines that build agree. Per-release tables come and go
with their release in one transaction, so verification looks at the shared rows.
Lock and statement timeouts are crashes before the commit. One prune runs at a
time (a second waits for the first). The prune's delete of shared rows and its
commit are one step: everyone who needs one of those rows waits from the one to
the other. Nothing in the database serialises two refreshes except the
compare-and-swap of `Activate`; the release lock of the orchestration covers
release runs, and `package.json` offers `refresh` by itself.

`ReleasePointer` is the abstract specification: a pointer that only moves to
releases that went live, whose first instants do not change, and releases
forgotten while they are not current. `ImplementsPointer` is the refinement.

### `GitHubCodebases`

`OnGitHub` changes an installation at GitHub (installed, suspended or no longer,
removed, a repository granted or taken, made private, a new commit) and sends a
delivery. `Webhook(n)` takes in the n-th delivery in one transaction, at any
time and again; `github_webhook_deliveries` remembers its number. A request of
an account goes through its steps: claim an installation, read the inventory at
GitHub and store it (`CheckOwner`, `Sync`), or import a commit (check, inspect,
check again, insert), each statement on what is committed when it runs.

Choices. A delivery that is lost is one never taken in. A delivery that a
constraint refuses leaves nothing, its number included. An account's GitHub
identity is given by `Installers`, so two hosted accounts may share one.
Private and public are what the receipt says, and the row's two columns are
overwritten or left as the SQL does. What the archive contains and what Core
says of it do not matter to who may read it.

### `WorkspaceActions`

A page is rendered at an anchor and posts a form that names it. `ReadState` reads
the anchor of the deployment that the request reached, `CheckActivity` the stored
activity, `Command` runs one command; `ListWorkspaces`, `CreateWorkspace` and
`FirstFollow` are the steps of opening a workspace; `StartTool`, `ToolPost` and
`ToolHears` are a WebMCP tool that posts several forms one after the other.
`PostAgain` is a retry under the same key, `Lose` a lost request or answer,
`Release` a deployment of another release while the old one still serves. The
states of an attempt and their legal changes are `Planned` and `Lifecycle`.

A command is one atomic step, as `AtomicCommands` states and `ActivityCommands`
is checked to implement; a kind is reduced to what its pre-check and its
references tell apart. `log`, `opened` and `reported` are history.

### `PublicProfiles`

A save finds no profile (`FindNone`) or locks the one it finds (`FindProfile`),
claims the handle, inserts or updates, and commits; its insert holds the
account by its foreign key. A deletion locks the account, leaves a tombstone
and commits. Sessions interleave
statement by statement; `held` holds row and unique-key locks; `Link` is the
operator's. A profile's text is the number of the call that wrote it.

### `PilotTelemetry`

`Send`, `Expire`, `Admit` (the two counts), `Insert`, `Match` and a commit are the
statements of `record_pilot_telemetry`; `now()` is the clock when the call began.
Deletions and the row are seen by others at the commit only. `Tick` advances time.

### `ProjectionReads`

A walk is `Start`, then per page `Gate` (the readable window), `CheckPresent`,
`ReadRows` from the cursor with one row of look-ahead, `ReadBeside` (the
statement after it), `Answer`; `PartsOf` says which of them a kind of read has:
the frontier of an entity checks nothing, that of a repository its row. `Point`, `PruneSnapshot` and `PruneDelete` are
what `ProjectionRelease` provides. `torn` marks a page whose release was
deleted between its statements; `TornOnlyByMove` says when that can be.

### `ReleaseOrchestration`

An operator's run: look for the lock branch, push it, read it back, prepare (all
stages that only check or keep files), activate, publish, deploy, readiness,
prune, retain, and the `finally` cleanup (delete the lock, confirm). `Fail` ends
any stage in the cleanup; `Stop` ends the machine and leaves the lock, which a
person removes (`RemoveAbandoned`, only of a stopped run). Vercel builds and
promotes when it likes (`Build`, `Promote`), and `main` moves (`PushMain`).

### `RepositoryHistory`

Commits arrive on the published branch and on a side branch (`Advance`, `Branch`),
which is merged or squashed. Core reads a commit whole (`listed`), without its
pending Proposals (`unlisted`), or refuses it; `Upgrade` changes which.
`BuildProjection` replays every commit the head descends from and publishes where each Proposal was decided, with
its preview, and the changes of accepted Claims; its assertions refuse the build.

| in the model | in the code |
|---|---|
| `Verified`, `ParentOf`, `ChangedIndex` | `readRepositoryRevisions` |
| `Comparable`, `AcceptedAdded`, ... | `readRepositoryTransitions` |
| `TerminalTransitions`, `Terminal`, `Previewable`, `PreviewOf` | `historicalDecisionInboxes`, `projectProposedStatePreviews` and `proposed-state-preview.ts` |
| `StateChanges` | the transition edges of `projectFrontierEdges` |

### `ProblemBindings`

`Change` is a Source that changes or drops a record; `Review` a merged change of
`problem-resolution.v1.json`, which must parse (`Valid`) and names roots that were
current or reviewed before; `Propose` brings a correction with or without an
occurrence packet of the entity as it is now; `Accept` decides it; `Build` is
`reviewedClaimSubjectOccurrences` with the source bindings and grouping edges; any
failed assertion refuses the build. `Page` is what `problemDetail` shows.

Choices. The packet pins either its entity (`problemResolutionEntityRoot`) or, under
the older schema (`Whole`), one literal root, as the code does. The site that reads
a release is built from the `main` it was built from, so `release.resolver` is
that resolver; the orchestration's checkout gives it. A Claim without a packet is bound
by the name in its own text, or to the Source alone when there is no such record.
Retraction of a Claim is left out: the reader treats it like supersession.

## What is checked

| run | instance | shows |
|---|---|---|
| `activity_retry` | 1 account, 2 workspaces (one not yet created), 2 keys, 10 requests, 2 sessions, 3 calls; 64,962 states | `AppliedOnce`, `NoKeyCollision`, `AnswersMatchRecord`, `ImplementsAtomic`, and `Answered` under fairness |
| `activity_versions` | 2 accounts, 2 anchors, 12 requests, 2 sessions, 4 calls; 332,318 states | `VersionsConsumed`, `SameThread`, `AnchorsExplained`, `LifecycleLegal`, `ImplementsAtomic` |
| `draft_anchor` | the same | `DraftKeepsAnchor` fails |
| `projection_release` | store: 3 releases of 4, 2 and 1 rows, 2 shared rows, 2 refreshers, 3 builds, 1 selection, 1 prune, 1 predecessor; bindings: 2 Problems, 2 references, a chain of 2 corrections and another Claim, 2 content roots, 2 reviews; 767,474 states | `PointerServable`, `SourcesPresent`, `FirstLiveFixed`, `ImplementsPointer`; `BindingsReviewed`, `ShownOnOwnProblem`, `OthersStayBound` |
| `corpus_floor` | 3 builds, 2 selections, no prune | `FloorHeld` fails |
| `retention` | 2 builds | `PredecessorRetained` fails |
| `github_codebases` | 1 installation, 1 repository, 2 commits, 2 accounts, 2 requests in flight, 3 in all, 4 events at GitHub; 1,976,804 states | `OwnedCodebases`, `PrivateAttached`, `RemovalFinal` |
| `github_uninstall` | the same | `UninstallErases` fails |
| `account_services` | actions: 2 clients, 2 anchors, 2 forms posted, 3 rows before; profiles: 2 accounts, 2 handles and a reserved one, 4 calls; telemetry: 4 records of 2 installs, 4 calls, clock to 6; 483,153 states | `AnchorsAgree`, `SubmitsLand`; `ProfilesConsistent`, `NeverReassigned`, `DeletionComplete`; `RetriesHarmless`, `RetentionHeld`, `CeilingHeld` |
| `agent_tools` | the same, with a Problem that has a public path to redirect to (`Reaches`) | `RefusalsLeaveNothing` fails |
| `release_serving` | orchestration: 2 operators, 3 roots, 3 runs, 2 commits of `main`; reads: 3 releases, pages of 1 row, 1 reader, 3 moves of the pointer; history: 5 commits, 3 Claims, 1 commit that Core cannot read; 819,267 states | `OneRelease`, `ProductionTrue`; `PagesComplete`, `TornOnlyByMove`; `PreviewsBound`, `PreviewsStay`, `ChangesExplainState` |
| `browse_cursor` | the same | `BrowseComplete` fails |

**Sums.** `MCReleaseContents`, `MCReleaseServing` and `MCAccountServices` each hold
two or three parts that share no variable. `part` is chosen at the start and only
that part moves, so the run checks each of them as if it were alone, and their
product, which would show nothing more, is never built. Parts that do share
state are composed by abstraction instead: `WorkspaceActions` takes commands
as `AtomicCommands` gives them, `ProjectionReads` and `ReleaseOrchestration` take
the store as `ProjectionRelease` gives it.

**Properties with several parts.** `TypesOK` is the type invariants of all parts of
a run; `BindingsReviewed` adds its types to `BoundAsReviewed`; `ProductionTrue` is
`LiveServable` (production serves a stored release) with `RecordTrue` (the record is
true when written); `AnchorsAgree` is `LandsOnPageAnchor` with
`DraftsCiteTheirAnchor`; `SubmitsLand` is `OneSubmitOneChange` with `OpenedFollows`;
`ProfilesConsistent` is `OneCurrentHandle` with `SavesInOrder`. Each part is stated and
explained in its own module.

**Bounds.** `Max*` constants bound behaviours; when they are used up the model
stops, hence `CHECK_DEADLOCK FALSE` (the absence of deadlock between calls is
`Answered`). Two sessions suffice for a race on a key, a row or a unique key; three
calls suffice for a call, its retry and a competitor; four for an approach, an
attempt and two competing updates, or an approach, an attempt, a fork and a
discussion entry that mixes them. `MakesFirst` only drops behaviours whose first
call is about a row that cannot exist, and session symmetry is sound because no
property of that run names a session. Three builds let two refreshes store and
activate and a third reuse a stored release. `Predecessors` is 1 in the instances
and 2 in the code; the proofs hold for any value. Four events at GitHub are an
installation, a change of it and the removal, with one to spare, and every
delivery may come at any later time and again. Three runs of the orchestration are one that stops,
one that fails and one that meets what they left. Five commits hold a fork, a
decision on each side, the merge and one more. Two reviews hold a review, and
a second one of the same or of the other entity, around a packet. A clock of
6 passes the retention of 3 twice. Rows already there (`Before`) stand for what
earlier calls made, so that two forms are enough to meet them.

**Fairness.** Only `Answered` uses it: weak fairness of each session's
`Progress`. PostgreSQL keeps running a transaction that is not waiting for a
lock. Calls and crashes have no fairness. Weak fairness is enough because a
lock waited for is held by a transaction that can itself progress. The other
modules have safety properties only: what they wait for is GitHub, Vercel, an
operator or a browser, and the code justifies no fairness of those. `account_services` is
checked with `Reaches` false, where a tool learns of a success as the code means it to.

### Disagreements between code and text

* `DraftKeepsAnchor` (`docs/WEB.md:400-404`): a revised draft takes the reviser's
  current anchor (`base.sql:590`).
* `FloorHeld` (`projection-store.mjs:651-653`): the floor is skipped when the
  pointer already names the candidate, and the compare-and-swap expects an
  earlier read; after a selection in between, a release below half of the
  corpus goes live on a run without the override.
* `PredecessorRetained` (`docs/WEB.md:304-306`): the window is cut by build
  instants, so overlapping refreshes can put the immediate predecessor outside.
* `UninstallErases` (`docs/releases/v0.438.0.md:15`, `docs/security/vela-web-threat-model.md:443-444`):
  an import that passed its access check inserts after the uninstallation has
  erased (`github-codebases.sql:299`, `:308`).
* `BrowseComplete` (`read-contracts.ts:770-774`): without a query rows are
  ordered by length first and paged by key alone, so pages skip rows.
* `RefusalsLeaveNothing` (`webmcp/tools.ts:82-84`): a success redirects too, and the
  tool reports it as a refusal.

### Noticed on the way

What the models contain and no property settles, because no text promises either
outcome:

* The release promise is cached per process, a rejected one included
  (`projection-data/src/index.ts:914`); the native registry query compares a
  repository id with a slug (`:1261`, `:1285`, against `:1331`).
* The pointer is read after the build, so a refresh of older sources may follow
  one of newer sources (`refresh-neon-projection.mjs:87`); after a rollback the newer release is
  outside the window and a prune removes it (`prune-releases.mjs:15`); a prune may remove the
  candidate of a refresh in flight (`:20`), whose activation then fails.
* An inventory sync overwrites deliveries that came after its read
  (`github-codebases.sql:243`); an unsuspend restores the installation only (`:158`); importing
  a commit again overwrites its receipts (`:324`).
* The follow that opens a workspace has a fixed key, so opening again after an
  unfollow does not follow again (`actions/activity.ts:167`), the exception that
  `OpenedFollows` makes; a repeated attempt update is
  refused by the version it advanced itself (`:222`); a retired handle cannot be reclaimed by its
  owner (`public-profiles.sql:285`).
* A comment says that a Core refusal of a predecessor is kept as an unavailable
  preview (`projection-builder.mjs:493-496`); the assertion at `:590-591` refuses the
  whole build. A squash commit that decides two Proposals, and one that proposes
  and decides, refuse it too.
* A correction that is not yet decided and brings an occurrence packet refuses
  every build until it is (`math-source-projection.mjs:107-111`). A reviewed record that
  drifts and that no packet selects passes the build, but the Problem's sources then
  cannot be read. Two current Claims of one Problem make its page fail (`index.ts:2331`).

## What is proved

Every theorem holds for any number of sessions, accounts, records, releases, requests
and calls, from the named assumptions of its modules alone. Each safety
proof is one inductive invariant (TLC checked it first on the instance
of its run), one lemma for each action that keeps it, and theorems that read the
properties off it. The properties are not inductive: each says what is
true of stored rows, and the step that could break it is allowed only because of what a
call in flight has read or locked. The invariants therefore say what calls in
flight may rely on.

`ActivityCommandsProofs`, from `RequestsAssumption`, `NoneAssumption`,
`BoundsAssumption` and `GrantedAssumption`:

* `TypeCorrect`: `TypeOK`. What a statement reads is typed only because of the
  stages before it. `TypeInv` adds `Working`: a busy session has a request and
  call number, one at `anchor` has an anchor, one at `update` has an attempt
  that exists, one at `commit` has a row.
* `KeyAppliedOnce`, `RetryNeverCollides`, `AnswersAgree`. `KeyInv`
  adds: a session past the lock holds its key's lock (`HoldsKey`); no two
  sessions hold one (`Exclusive`); a session past the read of the prior record still has no record
  for its key (`StillFresh`); an audit entry implies a record (`Recorded`).
  The record is inserted only by a commit, whose session
  holds the key, so no other session is between reading and inserting it.
  `StatementShape` reduces the eleven statements to three shapes (it refuses,
  stages a row, or has read an attempt), so that each invariant needs
  three arguments instead of eleven.
* `RefusedLeavesNothing` (`AnchorsExplained`), `ThreadsHangTogether` (`SameThread`),
  `NoUpdateLost` (`VersionsConsumed`), `LifecycleFollowed` (`LifecycleLegal`).
  `ThreadInv` adds: the row that a session is about to write fits the rows stored
  now (`Fits`), what it read is still so or is locked (`Reading`), and no two
  sessions hold locks on rows that exclude each other (`Apart`). The argument for a
  commit is that what the other sessions have read lasts: rows never move to
  another anchor or thread (`Lasting`), and the one row that a commit changes is a row no
  other session has locked (`HeldRowStays`).
* `CommandsAtomic`: the commands implement `AtomicCommands`. A commit maps to
  one atomic command, every other step to a stutter.

`ProjectionReleaseProofs`, from the assumptions of `ProjectionRelease`:

* `ReleaseTypes`, `PointerAlwaysServable`, `SourcesAlwaysPresent`,
  `FirstLiveIsFixed`. `PointerInv` adds: a run's stamp is not zero and not in
  the future (`Stamped`), so a live release never looks unactivated; a release
  inside its insert is not stored, and no two inserts of one overlap
  (`Inserting`), so a commit never resets an instant; instants are past
  (`Past`), so a confirmation is not before the release went live; from the
  delete on, the prune's releases do not include the pointer (`Spared`).
  `SourcesPresent` is inductive because an insert and a prune check the
  references again when they write, not only when they computed them.
* `PointerImplemented`: the store implements `ReleasePointer`.
* From `BindingsAssumption`, about the run's other part, `ProblemBindings`:
  `ReviewedIsBound` (`BindingsReviewed`), `ShownWhereReviewed` (`ShownOnOwnProblem`),
  `OthersKeepBindings` (`OthersStayBound`). `BindingsInv` adds to the types that a
  packet comes with its Claim (`Packed`), so no Claim changes its packet; and that a
  release keeps a resolver that parsed, in which each reviewed binding lies in
  the entity of its own Problem (`Published`), so it lies in no other. The last of
  several binders exists because a set of numbers up to *n* has a greatest (`LastOf`).

`ReleaseOrchestrationProofs`, from `BoundsAssumption` and `NoneAssumption`:

* `OrchestrationTypes`; `OneRunReleases` (`OneRelease`): run numbers are not reused
  (`Issued`), and a run that releases still finds its own number on the branch
  although no stage looks again (`Held`).
* `ProductionStaysTrue` (`ProductionTrue`): from its post to its record, a
  run's deployment is the newest (`Newest`); production serves the run's
  own release once it is shown (`Shown`); whatever production serves, or may
  serve when a later promotion lands, is stored (`Servable`). Retention
  spares it because the latest first-live instant exists (`LatestBounds`, from
  the least-element lemmas `Least` and `Greatest`).

`GitHubCodebasesProofs`, from its three assumptions: `CodebaseTypes`, `OwnersKept`
(`OwnedCodebases`), `PrivateStaysAttached` (`PrivateAttached`), `RemovedForGood`
(`RemovalFinal`). An import holds nothing between its check and its insert, so
`Found` says what stays true of it anyway: an installation, once claimed,
never changes its owner. `CreatedOnce` is what makes a removal final: GitHub
sends one creation of an installation, which is taken in once. Deliveries may
come late, again and in any order.

`ReleaseServingProofs` proves what readers of a release are given, for the product
`MCReleaseServing`, from its `ReadsAssumption` and `HistoryAssumption` and those of
`ReleaseOrchestration`:

* `PagesAllThere` (`PagesComplete`), under the hypothesis that `browse` is not among the
  reads: there the property is false (`browse_cursor`). `WalksInv` says of
  a walk that is not torn: what it got is what its release has up to the
  cursor (`Collected`). A page keeps this because it is cut from the front of what is listed
  (`Cut`, and the lemmas on it about the greatest key of a page and the row beyond
  it), and because keys and rows of a root never change, only whether it is stored.
* `TornByMovesOnly` (`TornOnlyByMove`): `GateInv` says what a page may rely on once the gate has
  let it through (`Admitted`): as long as the pointer has not moved, the release it reads
  is among those a prune keeps, or was lost to a prune the pointer moved under.
* `PreviewsAreBound`, `PreviewsAreKept` (`PreviewsStay`) and `ChangesAreExplained`
  (`ChangesExplainState`). `HistoryInv` is about every commit, not only the head: indexes grow
  along parents (`Grows`), a Proposal is decided once in the ancestry of any
  commit (`OnceDecided`), and a commit's accepted Claims are the imported ones with the
  added and without the removed of its ancestry (`Explained`), across merges too, since
  a branch is joined only while the head is as it was at their `fork` (`Forked`). That the
  ancestry, a recursive function on commits, exists and is unique is proved from a
  least counterexample (`AncestryExists`, `AncestriesAgree`); `SaidTrue` says what a published
  preview names, and `Lasts` what of it survives a change of what Core reads.
* `ServingTypes` (`TypesOK`).

`AccountServicesProofs` proves telemetry itself, from `TimesAssumption`, `CeilingAssumption` and
`RecordsAssumption`: `RetriesStoreOnce` (`RetriesHarmless`), `OldRowsForgotten`
(`RetentionHeld`), `CeilingPassedByFew` (`CeilingHeld`). `Kept` says that what was ever stored is
there or too old for any call in flight; `Deleting` and `Inserting` say what a
call under way may delete and that no two insert one identifier. `Bounded` adds the rows
counted and the calls admitted, because the calls that pass the ceiling are those
admitted before the others inserted. The assumptions are the code's
times: 90 days of retention exceed the 30-day window, the day ahead and the time a transaction
takes; and they exceed the hour that is counted.

`PublicProfilesProofs` and `WorkspaceActionsProofs` prove the invariants of the
two other account services (`ProfilesInit`, `ProfilesStep`, `AddressesStep`;
`ActionsInit`, `ActionsStep`), from the types of their constants.
A save or a deletion relies on its locks: `ProfilesInv` says of each call
which locks it holds and what is true because of them (`HasFound`, `HasHandle`,
`Publishes`, `Deletes`), and `Apart` that two calls under way never concern one
profile, account or handle. An action relies on no lock: `ActionsInv` says that
what it checked stays so because rows never change their anchor (`Working`), and
that ids are consecutive and no more than the keys used (`Consecutive`), so
that a first submit always has an id left. `Following` says that whoever opening made
to follow still does or has a record of asking not to: records are never replaced.

It then puts the three services together as `account_services`
does: a step of the product is a step of one part that leaves the others alone
(`ProfilesMove` and its like), so each part's lemma applies. Its theorems,
from `ActionsAssumption`, `ProfilesAssumption` and those of `PilotTelemetry`, are
`ServiceTypes` (`TypesOK`), `LandsWherePosted` (`AnchorsAgree`), `SubmittedOnce`
(`SubmitsLand`), `OneHandleOneSave` (`ProfilesConsistent`), `AddressesNeverMove`
(`NeverReassigned`) and `DeletedWithAccount` (`DeletionComplete`). They hold for all
forms, plans, requests and records of the right types, not only for those the instance lists.

## Only model-checked

* `Answered` is a liveness property under fairness, which the prover does not reach.
* `PagesComplete` of a walk of the `browse` read, which does not hold: `browse_cursor` shows where.
* What recursive definitions compute for every input (induction over data). The one recursive function a proof
  is about is `Ancestry`, of which only its equation is needed.

## Not modelled

UI, brand, pages, search ranking, the graph, sign-in and migration scripts:
rendering, deterministic text or external services without shared state. They
are most of the repository's lines: what is modelled is what overlaps, fails and
is retried. Of the builder: row shapes and content roots, the parsing of each
Source format by its adapter, the remaining frontier edges, reconstruction
from retained bytes. Of the reader: ranked search, single-row reads, validation of
rows. Of the codebases: deletion of an account, the archive and its Core
inspection. Checks that refuse a malformed input before any write.

## Plan

Done: the modules above, and a proof of every safety property and every action
property that a passing run checks. What could follow:

1. The agreement of two models of one thing: `ProjectionReads` keeps its own pointer and prune,
   coarser than those of `ProjectionRelease`; that each step of the store is one
   of these, or a stutter, would join their theorems.
2. `BrowseComplete`, once the cursor of that read orders as the read does.

## Running

    tlc -workers 2 -config MCActivityRetry.cfg MCActivityRetry
    tlapm ActivityCommandsProofs.tla
    tlapm AccountServicesProofs.tla
    tlapm ReleaseServingProofs.tla

Each row of the table of runs is one `MC*.cfg`; `PROJECT.json` names its module.
The operators marked "Faulty variant" (`*Apart`, `*Unchecked`, `No*` and similar)
replace a definition to see that the properties notice; `PROJECT.json` says which
property notices which.
