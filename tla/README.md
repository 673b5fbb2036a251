# StorePilot in TLA+

StorePilot is an MCP server that lets an assistant read and change Google Play
and App Store Connect.  This directory holds TLA+ models of everything in it
that writes to a store or keeps state, the TLC configurations that check them on
small instances, and TLAPS proofs of what matters most for instances of any
size.  Source paths below are relative to `src/src/storepilot/`, document paths
to `src/`.

`PROJECT.json` lists components, runs, hazards, findings and theorems, and maps
every definition to the lines it stands for.

## 1. What the program is made of

Every tool call is one Python thread of one server process; nothing runs in the
background.  Calls share module globals (caches, a lock) within a process, and a
state directory (`~/.storepilot`) with other processes.  All other state is in
the stores.

| Component | State | Operations | Interacts with |
|---|---|---|---|
| Confirmation gate (`core/guards.py`) | `guard.key`, `guard-nonces.json`, `audit.log`; per process `_SECRET_CACHE`, `_warnings`, `_lock` | `require_confirmation` (preview and confirm leg), `issue_token`, `verify_token`, `_consume_nonce`, `audit`, `audit_execution`, `unguarded` | called by every write tool of both stores; other processes through the files |
| Rollout policy (`core/guards.py`) | none (an environment variable) | `decide`, `decide_expansion`, `resolve_track` | asked by the Play write tools before the gate |
| Play edit transaction (`google_play/publisher.py`) | one edit on Google's side per `PlayEdit` | insert, `get_track`, `update_track`, `upload_bundle`, `patch_listing`, validate, commit, delete, `discard` | used by the Play tools as a context manager |
| Play release tools (`google_play/tools_write.py`) | none of their own | `upload_bundle`, `create_release`, `promote_release`, `expand_rollout`, `halt_rollout` | policy, gate, edit |
| Play replies and listings (`google_play/tools_write.py`) | none | `reply_review`, `update_listing` | gate, edit, reviews API |
| Play credentials (`google_play/auth.py`) | cached service objects | discovery, `build` | every Play call |
| Play vitals (`google_play/reporting.py`, `tools_read.py`) | request spacer, freshness memo | queries | none |
| Play bulk reports (`google_play/gcs_reports.py`) | the report cache | list, download, parse | cache |
| App Store client (`app_store/client.py`) | throttle window, HTTP client | `request` with retries, `get_all` pagination, `download` | tokens |
| App Store tokens (`app_store/auth.py`) | cached JWT and its expiry | mint, invalidate | client |
| App Store resources (`app_store/resources.py`) | none | editable version, review responses, localizations, phased releases, submissions, precheck | client |
| App Store write tools (`app_store/tools.py`, `_guards.py`) | none | `asc_reply_review`, `asc_update_metadata`, `asc_submit_for_review` | gate, resources |
| App Store reports (`app_store/reports.py`) | analytics requests at Apple, cache | sales, finance, analytics | client, cache |
| Report cache (`core/cache.py`) | a blob and a meta file per key | `get`, `set`, `get_or_fetch` | report modules |
| Two-store release (`cross/tools.py`) | none | `release_both`: Play leg, then Apple leg, one token | gate, policy, edit, resources |
| Metadata mirror (`core/metadata_mirror.py`, `cross/tools.py`) | a directory of listing files | `metadata_pull`, diff, `metadata_push` | both stores, gate |
| App registry (`cross/apps.py`) | `apps.toml` | load, upsert, save, `pair_apps`, `propose`, `build_portfolio` | the cross tools |
| Portfolio, parity, health (`cross/tools.py`) | none | read-only aggregation | everything read-only |
| CSV parsing, errors, models, config, server | none | pure functions, registration, `doctor` | |

### What is hard, and what correct means

* **Gate.**  Threads interleave between the expiry check, the clock reading and
  the lock; processes share files and not the lock; a crash can fall between any
  two file operations; each file may fail on its own.  Correct: a write needs a
  preview of that very operation, a token works once, a spent token stays spent
  over a restart, an approval outlives a restart, every write is accounted for,
  every call returns.
* **Policy and release tools.**  Someone else releases between preview and
  confirmation, and between the reads of one leg; commits get lost; long legal
  sequences of create, expand and halt.  Correct: what ships is what was shown,
  production starts small, a swap touches one release, a halt always reaches a
  rollout in progress and can be undone.
* **App Store client.**  Threads queue on a throttle that sleeps with its lock;
  tokens run out on the way and are refused; answers are late, missing or
  "come back later".  Correct: the rate window holds, tokens arrive alive, a
  refused one is replaced, a list that is short says so, every call ends.
* **Two-store release.**  Play and TestFlight change between preview and
  confirmation; one half fails, or its answer is lost.  Correct: the answer and
  the log name what landed, testers hear only of what Play has, the notes reach
  the build that was shown.
* **App Store writes.**  Each is looked up twice and written in one or two
  requests, any of which may fail or land unseen; meanwhile Apple's reviewers
  and colleagues move versions on.  Correct: the log is true, what was shown is
  what is written, no version is submitted unphased or unchecked.
* **Mirror.**  Files and stores change under a push, and a push is a loop.
  Correct: nothing is emptied by accident, nothing sent that was not shown,
  "done" means sent.
* **Registry.**  A file read, merged and replaced; entries joined by key or id.
  Correct: the file is never half written and no two apps are joined that nobody paired
  (of one writer at a time: two share a temporary file), a confirmed write goes to the
  pair that was shown, proposals can be accepted in any order.
* **Cache.**  Two files written one after the other, by two calls, over
  midnight; a policy chosen by the clock.  Correct: what is kept for ever is
  final, what changes is fresh, what is called complete is.

## 2. Modules

| Module | Content |
|---|---|
| `ConfirmationGate` | the gate: files, per-process memory, calls |
| `ApprovalContract` | what the gate promises, without keys, files or locks |
| `RolloutPolicy` | the policy as operators on percentages |
| `PlayRelease` | sessions of the five release tools over `PlayEdit` |
| `RolloutContract` | how the tracks of an app may change, without edits or sessions |
| `AscClient` | requests, throttle, token and pagination of the App Store Connect client |
| `ReleaseBoth` | `release_both` over both stores |
| `AppStoreWrites` | the App Store write tools, and the reply on Google Play |
| `ListingMirror` | pull and push of listings, and `play_update_listing` |
| `AppRegistry` | the registry's file, `pair_apps`, and the tools that act on a pair |
| `AppMatching` | portfolio and proposals as operators on a registry |
| `ReportCache` | the report cache under both stores' periodic reports |
| `ConfirmationGateProofs`, `PlayReleaseProofs`, `AscClientProofs`, `ReleaseBothProofs`, `AppStoreWritesProofs`, `ListingMirrorProofs`, `AppRegistryProofs`, `ReportCacheProofs` | theorems about them |
| `MCConfirmationGate`, `MCPlayRelease`, `MCAscClient`, `MCReleaseBoth`, `MCAppStoreWrites`, `MCListingMirror`, `MCAppRegistry`, `MCReportCache` | instances for TLC |

How they compose.  `PlayRelease` extends `RolloutPolicy`; `AppMatching` extends
`AppRegistry`, and checks its operators on every registry that one leaves behind.
Every module of a tool uses the gate at its contract (a token is good once, for
the operation it was issued for); `ConfirmationGate` shows that contract of the
gate itself.  `ReleaseBoth` and `ListingMirror` use an edit as what `PlayRelease`
shows it to be: a copy of the app that is committed whole, or refused when
outdated.  `AppStoreWrites` and `ReleaseBoth` use a request as what `AscClient`
makes of one: it lands or not, and the caller may not hear of it either way.

Operators named `Mutant_...` are plausible bugs in the definition that follows
them.  Nothing refers to them; put in place of that definition they break the
property `PROJECT.json` names, which shows that the property can fail.

### ConfirmationGate and the code

A call `c` is a thread; `pc[c]` names its next step.  There is one action for
every stretch of code between two points where another thread, another process
or a crash can make a difference.

| Code | Actions |
|---|---|
| `_guard_secret` | `UseCachedSecret`, `LoadSecret`, `CreateSecret` (the file is opened for writing, so truncated, under the lock), `StoreSecret` (written, cached, unlocked) |
| `issue_token`, preview leg | `BeginPreview` (the expiry is fixed first), `IssueToken`, `ReturnPreview` |
| `verify_token` | `BeginConfirm`, `CheckToken` |
| `_consume_nonce` | `TakeNow` (the clock is read before the lock is waited for), `ReadLedger`, `WriteLedger`, `FailLedger` |
| `audit`, `_note_warning` | `Audit` in the actions that log, `NoteWarning` |
| `require_confirmation`, `audit_execution` | `Reject`, `Admit`, `Mutate`, `RecordOutcome`, `ReturnResult` |
| the world | `Tick`, `Crash(p)`: a process dies and starts again with the files as they are |

Abstractions: a fingerprint is the operation itself (SHA-256 of the canonical
form taken as injective); a MAC is the triple it covers with its key, so a token
nobody issued does not verify; the clock counts whole seconds and the instant
`t = expiry` counts as expired; rejection lines of the log are not kept (nothing
is claimed about them).  `log` is a set: the order of lines is the order of the
steps.  What a file fault can do is in the actions guarded by `Faults`.

Not modelled in it: `token_required=False` (no caller uses it), the permission
warning of `_guard_secret`, the resets of the caches (tests only), the wall clock
being set back, and the ledger's temporary file, which two processes share (a
failing rename is the same as a failing write).

`ApprovalContract` has two steps besides time: an approval is offered, or an offered
approval is used, more than once only after its expiry second has begun.
`ConfirmationGate` implements it with `offered <- shown`, `uses <- accepted`.

### PlayRelease and the code

A session is a preview call and the confirm call that may follow; `halt_rollout`
has only the second.  `job[c]` holds the arguments, the policy's decision, the
build the tool derived and the one its token binds; `edit[c]` is the open edit.

| Code | Actions |
|---|---|
| the tool up to `PlayEdit` | `Begin` (policy), `Resolve` (derives the build: digest, code, or `read_track`), `Reject` (the token binds another build) |
| `PlayEdit.__enter__` | `Open`: the edit copies the app |
| the five `run` bodies | `WriteUpload`, `WriteCreate`, `WritePromote`, `MissSource`, `WriteExpand`, `WriteHalt`; `ReturnBlocked` for a halt with nothing to halt |
| `PlayEdit.__exit__` | `Validate`, `Invalid`, `Discard` (end of a preview), `Commit`, `LoseCommit` |
| any failing request before the commit | `Fail` |
| between the legs | `Confirm`, `Abandon` (not used, or expired) |
| the world | `ReleaseElsewhere` (Play Console, CI), `Rebuild` (the bundle file) |

Abstractions: a track is the set of its releases (which of two releases of equal
rank comes first is left open, as `current_release` depends on Google's order);
the version codes of a release are one value; shares are whole percentages; names
and notes are left out.  Google's part is an assumption taken from how the code
uses it: an edit is a copy taken at insert, a commit replaces the app by it, an
edit outdated by another commit is refused, and `edits.validate` accepts exactly
the field combinations of `PlayAccepts`.  A commit whose answer is lost has
landed; the tool reports an error.  A crash of the server leaves at most an
uncommitted edit, the same as a session that stops, and needs no action.

`RolloutContract` says how tracks change: a new release takes a track over
(on production as a draft, halted, or under the ceiling), one staged release is
widened and the rest of the track stays, one release is stopped and keeps its
share.  Whatever others do is allowed and counted by `elsewhere`.

### AscClient and the code

A thread makes one call at a time: a walk over pages (a single request is a walk
of one page) or the download of a report segment.

| Code | Actions |
|---|---|
| `Throttle.acquire` | `Acquire` (takes the lock), `WakeFull`, `WakeSpaced` (it slept with the lock); `Evicted` is `_evict` |
| `TokenManager.token` and the request going out | `Send` |
| the answer, in `request` and `download` | `Succeed`, `TimedOut`, `Busy` (5xx, 429), `Refused` (401), `Rejected` (anything else, no connection) |
| `TokenManager.invalidate` | `Invalidate` |
| `_backoff`, `Retry-After` | `Again`, `Resume` |
| `get_all` | `NextPage` (in `Succeed`), `Continue` |
| the world | `Begin`, `Return`, `Tick` |

There is no clock, as only differences of times are ever used: `recent` holds
ages, `token` the time it has left, `nap[c]` what a thread has still to sleep.
A sleeper may wake late, and anything may happen between two ticks.

Abstractions: the two delays for a low and a nearly spent hourly budget are one,
and the budget is low or not as the answers please; the 0.05 s added to a full
window's wait, error wording and the host check on a link are left out; minting
takes the manager's lock and always succeeds.  An answer takes at most `Timeout`
(`httpx` applies its 30 s to each phase of a request; what matters is that all of
them stay below `REFRESH_MARGIN`, 300 s).  Clocks of Apple and of the machine
agree.

### ReleaseBoth and the code

A session is a preview call and the confirm call that may follow.

| Code | Actions |
|---|---|
| `release_both`, both calls up to the gate | `Begin`, `Resolve` (hash the bundle, find the version's newest TestFlight build), `Reject` (the token binds another bundle or build), `Fail` |
| rest of the preview call | `Rehearse` (the Play half in an edit that is thrown away, then the preview and its token) |
| between the calls | `Confirm`, `Abandon` |
| `run_play` in its edit | `OpenPlay`, `RefusePlay` (a code already used, an outdated edit), `LosePlay`, `CommitPlay` |
| `_run_apple_leg` | `SkipApple`, `LeaveNotes`, `ReadNotes`, `WriteNotes`, `FailApple` |
| `_render_release_result`, `executing` | `Say`, `Finish`, `Header` |
| the world | `ReleaseElsewhere`, `ProcessBuild`, `WriteNotesElsewhere`, `Rebuild`, `Crash` |

A commit or a write that lands although its answer is lost is a branch of
`CommitPlay` and of `WriteNotes`: the leg has failed, the store has changed.
`LosePlay` and `FailApple` are requests that did not land.  `answer.landed` is
history and records what did.  Pair, track,
version, rollout policy and fraction are arguments both legs share and are left
out, so one of each is enough.

### AppStoreWrites and the code

| Code | Actions |
|---|---|
| a tool up to its gate | `Begin`; `LookupReply`, `LookupPlayReply`, `LookupCopy`, `LookupSubmission`; `Precheck` (skipped on request); `Fail` |
| `require_confirmation` | `Gate`; `Confirm`, `Abandon` between the calls |
| `asc_reply_review` | `EditReply`, `CreateReply` |
| `play_reply_review` | `ReplyOnPlay` |
| `asc_update_metadata` | `WriteNotes`, then `WriteName` |
| `asc_submit_for_review` | `ReadPhased`, `EnablePhased`, `CreateSubmission` |
| a request that fails, `executing` | `LoseWrite`; `Land` is one that arrives, whether or not its answer does |
| the world | `EditElsewhere`, `ReplyElsewhere`, `Review`, `CreateVersion`, `Crash` |

Two fields stand for the listing copy, since they live on different resources
and are written by different requests: `notes` on the version's localization,
`name` on the app's.  The precheck asks for a build and for notes; the other
items of its checklist are of the same two kinds.  `landed` and `fresh` are
history: which writes landed, and whether anyone else changed the app since the
leg looked.  `fresh` is what keeps the properties about a check before its use
honest: the code cannot answer for a change after its look, and is not asked to.

### ListingMirror and the code

| Code | Actions |
|---|---|
| `metadata_pull` | `PullPlay`, `PullApple`, `WriteFile` (a file per returned field), `WroteAll`, `EndPull` |
| `metadata_push` up to the gate | `PlanPlay`, `ReadListing`, `PlanApple`, `SkipStore`, `EndPlan`, `Stop` (nothing to send, or a text beyond its limit), `Preview` |
| between the calls | `Confirm`, `Abandon` |
| its loop | `Execute`, `PatchListing` (one edit per locale), `PatchLocalization`, `SkipPart` (no such localization), `LoseWrite`, `Finish` |
| `play_update_listing` | `Rehearse`, `Confirm`, then `Execute` and `PatchListing` as above |
| the world | `EditFile`, `EditStore`, `Freeze` (the version leaves its editable states), `Crash` |

A field is a model value and belongs to a Play listing, to an App Store version
or to the App Store app, which is what the code branches on.  `Blank` is the
empty text and `NoText` an absent one: that the two differ is the point of half
the code.  `blanked` is history: where somebody meant a field to be empty.

### AppRegistry and AppMatching, and the code

| Code | Actions |
|---|---|
| `pair_apps`, `upsert` | `Load` (load and merge), `Upsert` |
| `save` | `Open` (truncates the temporary file), `Fill` (`Over`: from its start, whatever another call has written there), `Replace`, `FailSave` |
| `load` | `Loaded`: the entries without those whose id an earlier one claims; `Load` and `Refuse` stop at a file that is not valid TOML |
| `release_both`, `metadata_push` | `Begin`, `Resolve` (`Matches`, `Found`), `Refuse` (no such app, or several), `Preview`, `Confirm`, `Act`, `Reject` (the token names another pair) |
| the world | `Crash` |
| `build_portfolio`, `propose`, `unique_key` | `AddApp` and `Portfolio`, `Take` and `Propose`, `UniqueKey` |

Files are numbered and the names lead to numbers, since a file that has been moved is
still written by whoever holds it open.  Two calls that have the same file open each
write from its start, so the tail of a longer text stays behind a shorter one:
`Mixtures` is what `load` may find in that, entries of both and a last entry that has
taken an id of the entry the tail was cut from, and `Invalid` where it is no TOML.  A
third text over such a mixture is modelled as one over its entries.  Keys and names
are numbers in alphabetical order.  A query is a text; which keys, names and ids begin
with it is a constant (`KeysLike`, `NamesLike`, `IdsLike`), and the bundle id is taken
to be the package's name, as it is when `pair_apps` is given none.  How alike two
identifiers or two names are is a constant: the string comparison is not modelled,
what is made of its result is.  `linked` is history: the ids and keys that the user's
pairing calls have named together, in groups that are joined where they meet.

### ReportCache and the code

| Code | Actions |
|---|---|
| `get_sales`, `list_objects_cached`, `download_object` | `Begin` (chooses the policy by the clock) |
| `FileCache.get` | `Get`, `Hit` (meta file first, then the blob) |
| the fetch of a miss | `FetchSales` and `RefuseVersion` (the walk over `filter[version]`), `FetchStats`, `FetchEarnings`, `FailFetch` |
| `FileCache.set` | `Touch`, `Open` (truncates the temporary file), `Fill`, `Replace`, `EraseMeta` (takes the time, truncates the meta file), `Stamp`; `FailSet` after any of them |
| `sales_freshness`, `report_freshness` | `Complete` |
| the world | `Tick`, `Accrue`, `Publish`, `StayEmpty`, `Crash` |

A report is reduced to how much of its period it has, nothing, a part, or all, and to
the day it was fetched; `Empty` is a file that was opened and never written.  As in
`AppRegistry`, names lead to numbered files and two calls may write the same one
(`Over`).  Any number of calls save at once, any step of any save may fail, and the
server may die anywhere.  Time is counted in days; an entry kept for 24 hours may or
may not have expired on the day after.  Midnight passes between any two steps.  What
`Tick` leaves out is a call that takes half a day: a call sees one midnight at most
(requests have timeouts of seconds and a save takes milliseconds; a machine put to
sleep in the middle of a call for the rest of the day is excluded), and none meets
after it a call that met others before it (`calm`).  How many days a store takes
(`Lag`) and from when the tools call a report complete (`Claimed`) are constants.

## 3. Runs

| Run | Instance | Shows |
|---|---|---|
| `gate_one` | one process, two threads, two operations, two tokens, TTL 2, clock to 3, a crash, a ledger that may fail | `TypeOK`, `MutationWasPreviewed`, `LiveTokenAcceptedOnce`, `SpentStaysRecorded`, `ApprovalSurvivesRestart`, `ImplementsContract` |
| `gate_live` | two threads, audit log and key file may fail, fair threads | `WritesAreAccounted`, `EveryCallReturns` |
| `play` | two sessions with seven different calls on a testing track and a production track in mid-rollout, one outside change, a requested ceiling of 90 (clamped to 50) | `TypeOK`, `OneReleasePerBuild`, `ShipsWhatWasShown`, `StagedProduction`, `HaltReachesTheRollout`, `ImplementsRolloutContract` |
| `asc_calls` | two threads, two walks and a download, a window of 2 ticks for one request, one retry, a token of 3 ticks with a margin of 2, two pages of two items; fair | `TypeOK`, `MinuteCapHolds`, `NoTokenExpiresInFlight`, `FreshTokenAfterRefusal`, `CompleteUnlessCut`, `EveryCallEnds` |
| `both_release` | two sessions, with a bundle and notes or neither, two version codes, two texts, two TestFlight builds, one outside change, crashes | `TypeOK`, `AnswerIsTrue`, `AppleFollowsPlay`, `NotesReachTheBuildShown` |
| `asc_writes` | two sessions replying on either store, updating notes and name, or submitting (phased and prechecked, or neither); two versions, two texts, one outside edit | `LogIsTrue`, `WritesLandOnTheVersionShown`, `SubmittedAsPrechecked`, `SubmittedPhased`, `ReplacementIsAnnounced` |
| `mirror` | two sessions pulling, pushing or updating a listing of three fields, one per holder; two starting listings, one outside edit | `OnlyDeliberateBlanks`, `DoneMeansSent`, `PushedAsShown` |
| `registry` | a writer with six pairing calls and a user with three queries, two apps on each store, seventeen keys, failing saves and crashes | `RegistryIsWhole`, `PairedOnPurpose`, `ActsOnThePairShown`, `EveryAppOnce`, `AcceptedAsProposed` |
| `reports` | two calls for one report of each of four kinds, over four days, with saves that meet, fail or die at any step | `DailyKeptIsFinal`, `AnswerIsRecent`, `SalesCompleteIsTrue` |
| `gate_ledger_fault` | a ledger that fails | finding 1 |
| `play_halt_resume` | one session that halts | finding 2 |
| `reports_pinned` | two calls for a month's earnings | finding 3 |

Bounds and why they do.

*Gate*: every hazard listed is between two calls, so two threads suffice (two
processes, with keys and ledgers of their own to lose, are covered by the theorem
`WritesArePreviewed`, which holds for any number); two tokens allow one token's
purge by another's consumption; a clock of TTL+1 lets a token be issued, used and
expire with a later one still alive; one crash can fall between any two steps.  In
`gate_one` a call that hits a failing ledger never moves again (finding 1), and
both may, so deadlock is not checked there; `gate_live` checks it.

*Play*: two sessions and one outside change put any two writers around every read
of a leg; two builds make "the live one" and "another"; the requests include
shares the policy refuses and one Play refuses.

*App Store client*: a cap of one makes every second request wait; two threads put
a queue behind a sleeper and a mint beside a refusal; the limits of the two walks
end one with items to spare on the last page, and leave the other short of pages.

*Two-store release, App Store writes, mirror*: as for Play, two sessions and one
outside change reach every pair of writers around every look; two of everything
that is bound, so that the bound one and another differ; one version goes live
while the next opens.  One locale suffices for the mirror because its loop treats
locales one by one and the properties are about single fields; its proofs hold
for any number.

*Registry*: the apps and names are chosen to meet in every way `upsert`
distinguishes (same key, same Play id, same App Store id, name omitted, key taken
by another entry).  Each of the two titles has eight numbered keys, one more than
the entries and apps there can be (`EnoughKeysAssumption`): the code would count on.
For one writer: what two do to each other is in section 4.  The queries are a prefix
of a key and a name, an exact package, and the empty text, which matches every entry.

*Reports*: the period ends on day 0 and the run lasts three days more.  Daily and
monthly sales and earnings are there by day 1, statistics by day 2; they are called
complete from day 1 (daily), 2 (statistics), 3 and 4 on, and kept for ever from day 3
(daily) or 1 on.  So figures are there a day after the code first counts on a daily
report, which is what `_cache_policy` adds a day for.  Two calls are what `Tick`,
`Over` and the shared names distinguish: one's save beside another's.

Symmetry is over calls, and over operations, nonces or version codes, none of
which the code orders; the runs with liveness use none.

Fairness.  `ConfirmationGate!FairSpec` asks that a thread which can go on
eventually does: Python threads are scheduled preemptively and each step is
finite.  Lock acquisition needs no more than weak fairness in that instance because
calls are not restarted while others wait for ever: a new call is no step of
`Step(c)`.  Starting a call, time and crashes are not assumed to happen.
`AscClient!FairSpec` adds that time passes and that a thread which finds the
throttle's lock free again and again gets it (strong fairness): the lock is free for
the whole round trip of every request, and releasing a Python lock wakes a waiter.
The other modules have no liveness property: their steps wait for a store, for a
disk or for a human.

## 4. Findings

Each is a run that violates one property, the sentence of the repository it
contradicts being quoted in `PROJECT.json`.

1. `gate_ledger_fault` — when the ledger cannot be read or written,
   `_consume_nonce` notes a warning while holding the lock `_note_warning` takes;
   the lock is not reentrant, so the call and every later one of the process hang,
   where the docstring lets the operation through.
2. `play_halt_resume` — after halting a rollout on a track that also serves an
   older build, `expand_rollout` sees the older build and refuses to resume.
3. `reports_pinned` — a listing of the bucket taken after a month's end and before
   its earnings are published is kept for ever and later presented as complete
   earnings of nothing.

### What else the models show of the code

These have no run of their own.  The models contain the behaviour; the properties
are stated so as to hold beside it.

* *Gate.*  The clock is read before the lock (`guards.py:553`): two confirm calls
  straddling the expiry, with a purge in between, are both accepted.  Within the
  token's life this cannot happen (`LiveTokenAcceptedOnce`, proved), and the
  contract allows it from the expiry second on.  Replay by a second process is
  acknowledged in `docs/SECURITY.md` (N5); the replay properties are for one.
* *Play.*  A halt that finds nothing to halt is logged "executed" after its
  "blocked" line (`tools_write.py:780`).  An expansion's token does not bind the
  build it displayed (`tools_write.py:627`).  A bundle rebuilt after hashing and
  before uploading is released (`publisher.py:416`).
* *App Store client.*  The first 401 is answered with a new token only if nothing
  was retried before it (`client.py:687`); after a timeout, a 5xx or a 429 it fails
  at once.
* *Two-store release.*  When the answer to the Play commit is lost the tool says
  that the release did not land anywhere (`Header`), though it may have.  When
  both halves fail the log still says "executed".  Without a bundle the build Play
  re-releases is not bound by the token, unlike what the docstring says of every
  parameter (`cross/tools.py:2073`).  The advice to run `release_both` again after
  an Apple failure, the Play half being idempotent (`cross/tools.py:2496`), meets
  Play's refusal of a code it has taken.
* *App Store writes.*  A field shown as "Already identical, so nothing will be
  sent for" (`app_store/tools.py:1076`) is sent all the same.  A POST whose answer
  was lost is repeated, refused because it had landed, and logged "failed".  What
  a reply replaces is shown but not bound; on Google Play a reply overwrites
  another without looking.
* *Mirror.*  A locale counts as "[ok]" though one of its localizations is missing
  (`cross/tools.py:2878`), which is the exception in `DoneMeansSent`.  A text
  pulled, and edited in the store since, is pushed back over the edit: the digests
  that would tell are kept and never read.  An empty file against an empty field
  counts as new and is sent again.
* *Registry.*  `pair_apps(play)`, `pair_apps(appstore, name=...)`, then a call that
  pairs the two, reports success, and the next load drops the result, since two entries
  now claim one id.  Two writers lose one another's pairing, since nothing is locked
  between the load and the move.  And all saves write through the one name
  `apps.toml.tmp` (`cross/apps.py:385`), so that the first may move into place what the
  second has just truncated, though the docstring says that the rewrite is atomic; or
  the two texts mix, and an entry takes an id nobody paired it with.  `RegistryIsWhole`
  and `PairedOnPurpose` are therefore for one writer.  `pair_apps` runs the key it is
  given through `slugify`, which cuts it after 48 characters, and `propose` numbers a
  key without cutting it: a proposal whose key is longer would be merged into the entry
  whose key it was numbered to avoid.  Keys come from Play titles, which have at most 30
  (`tools_write.py:62`), so the model leaves keys alone.
* *Cache.*  A month's sales are kept for ever from the day after the month's end
  (`monthly_policy`, `app_store/reports.py:423`), although `sales_freshness` expects
  Apple's report five days after it at the earliest (`app_store/reports.py:334`): a 404
  in those days is kept as an empty report for good, against the docstring's "Past
  periods never change, so they are cached forever" (`app_store/reports.py:417`).
  Later answers say that Apple has no report, not that the figures are complete, so
  `SalesCompleteIsTrue` holds beside it.  A yearly report is pinned in the same way from
  3 January to the 6th.  `DailyKeptIsFinal` is about days, for which the policy waits.

  Two calls that save one report share the temporary file (`core/cache.py:127`), so
  that one may move into place what the other has just truncated; `get` then answers
  from an empty file, which for sales means no report at all, and never compares the
  size its meta file has.  The second saver's bytes follow, into the file that has been
  moved; if it dies before, or its write fails, the entry stays empty, for a past day
  for ever.  `DailyKeptIsFinal` and `AnswerIsRecent` except such a file and nothing
  else of two savers.

  Statistics of a past month, fetched while it was still filling, are kept
  for ever; the answer says they are still filling in until the third day after the
  month's end and calls them complete from then on (`core/csv_reports.py:361-368`),
  although Play's figures may take seven.

## 5. Proofs

`ConfirmationGateProofs` proves, for any sets of processes, calls, operations,
keys and nonces, any bounds and any `Faults`, from `GateAssumption` and
`NoTokenAssumption` alone unless a line says more:

| Theorem | Property | Further assumptions |
|---|---|---|
| `TypeCorrect` | `TypeOK` | |
| `WritesArePreviewed` | `MutationWasPreviewed` | |
| `WritesAccounted` | `WritesAreAccounted` | |
| `LiveTokensNotReplayed` | `LiveTokenAcceptedOnce` | one process |
| `SpentTokensRecorded` | `SpentStaysRecorded` | one process |
| `ApprovalsSurvive` | `ApprovalSurvivesRestart` | one process, `"key" \notin Faults` |
| `GateImplementsContract` | `ImplementsContract` | one process |

*Binding.*  `BindingInv` says what a call carries at each step: past the check its
token is one that was shown and binds its operation, and the token's preview line
is in the log.  `TypeOK` alone is not inductive, since the steps in the middle of a
call (`storeKey`, `note`) must remember what they return to.

*Replay.*  `SpentStaysRecorded` and `LiveTokenAcceptedOnce` need each other, and
`LedgerInv`: whoever is between reading and writing the ledger holds the lock, what
it read is still the ledger, its nonce is not in it, and the clock it purges by is
not ahead.  One process is needed for "holds the lock" to exclude every other
writer.

*Key.*  `KeyInv`: a key is drawn only while none is stored, and every cached key and
every token is of the stored one.

*Contract.*  Only `ReturnPreview`, `WriteLedger` and `Tick` touch what the contract
sees; `WriteLedger` is a `Use` because an entry missing from the ledger means, by
`SpentStaysRecorded`, that its nonce was never accepted or its token has expired.

`PlayReleaseProofs` proves, for any number of sessions, any tracks, builds,
requests and outside changes, from `PolicyAssumption`, `ReleaseAssumption` and
`NoneAssumption`:

| Theorem | Property |
|---|---|
| `ReleaseTypes` | `TypeOK` |
| `BuildsStayDistinct` | `OneReleasePerBuild` |
| `ShownIsShipped` | `ShipsWhatWasShown` |
| `HaltsReachTheRollout` | `HaltReachesTheRollout` |
| `ProductionIsStaged` | `StagedProduction`, for any value of the environment variable |
| `SessionsKeepTheContract` | `ImplementsRolloutContract` |

The invariant `Inv` has four parts.  `TracksOK`: what is live is what Play accepts,
each build once.  `JobsOK`: the release a preview displayed is the one the policy's
decision makes of the build its token binds; a confirmed leg past `Resolve` has
derived that same build; and what it wrote into its edit is that release.
`EditsOK`: an edit that can still be committed differs from the app by what its tool
does to one track (`Rewrites`) and by nothing else.  This is false of outdated edits,
which is why the assumption that Google refuses them carries weight.  `TypeOK` is the
fourth.  From these a commit is a contract step: `ReplaceReleaseSwaps` turns the
filter by version code into the swap of one release, because builds are distinct, and
`PolicyStartsSmall` bounds what a new release starts at.

`AscClientProofs` proves, for any number of threads, any walks and any throttle, from
`ClientAssumption`:

| Theorem | Property | Invariant |
|---|---|---|
| `TokensArriveAlive` | `NoTokenExpiresInFlight` | `FlightInv` |
| `RefusedTokensAreReplaced` | `FreshTokenAfterRefusal` | `RefusalInv` |
| `ShortWalksSaySo` | `CompleteUnlessCut` | `CallInv` |
| `CapHolds` | `MinuteCapHolds` | `ThrottleInv` |
| `TypeCorrect` | `TypeOK` | `ThrottleInv` |

`FlightInv` says that whatever a request in flight may still wait for is less than
what its token has left.  It holds when the request goes out because the token is
looked at after the throttle and not before, and `Timeout < Margin`; then both
shrink together.  `ThrottleInv` says that the throttle's list ends with the requests
really made within the window, that whatever else it lists is past the window, that
it is ordered by age and never longer than the cap, and that the one sleeper, who
holds the lock, sleeps long enough for the oldest entry to leave.  So what is
evicted on waking makes room for the one request that is admitted.

`ReleaseBothProofs` (from `BothAssumption` and `NoneAssumption`), for any number of
sessions, codes, texts and builds:

| Theorem | Property |
|---|---|
| `TypeCorrect` | `TypeOK` |
| `AnswersAreTrue` | `AnswerIsTrue` |
| `PlayComesFirst` | `AppleFollowsPlay` |
| `NotesReachTheBuild` | `NotesReachTheBuildShown` |

The invariant carries what a call knows: its token is of the build it displayed;
past the gate the build it found is that of the token; in the Apple leg, whose
beginning the answer does not see, the Play half is "ok" and its code spent.

`AppStoreWritesProofs` (from `WritesAssumption` and `NoneAssumption`):

| Theorem | Property |
|---|---|
| `TypeCorrect` | `TypeOK` |
| `TheLogIsTrue` | `LogIsTrue` |
| `WrittenAsShown` | `WritesLandOnTheVersionShown` |
| `SubmittedOnlyAsPrechecked` | `SubmittedAsPrechecked` |
| `SubmittedOnlyPhased` | `SubmittedPhased` |
| `RepliesReplacedAsAnnounced` | `ReplacementIsAnnounced` |

Here the invariant says for each step of each tool which of its writes have landed
by then, and that as long as `fresh` holds the app is what the leg saw.

`ListingMirrorProofs` (from `MirrorAssumption` and `NoJobAssumption`):

| Theorem | Property |
|---|---|
| `TypeCorrect` | `TypeOK` |
| `AbsentIsNotEmpty` | `OnlyDeliberateBlanks` |
| `DoneIsSent` | `DoneMeansSent` |
| `SentAsShown` | `PushedAsShown` |

For blanks the invariant follows them along their way: what is empty in a file, in
a listing read or in a plan was meant to be empty.  For the loop it keeps account:
every field of the plan is sent, still to come, or of a part the store lacks.

`AppRegistryProofs` proves, for any number of sessions, any ids, pairing calls and
apps on the stores, from `RegistryAssumption` and `NoJobAssumption` unless a line says
more:

| Theorem | Property | Further assumptions |
|---|---|---|
| `RegistryStaysWhole` | `RegistryIsWhole` | one writer (the property's own condition) |
| `ActsAsShown` | `ActsOnThePairShown` | |
| `TypeCorrect` | `TypeOK` | |
| `PairsAreDeliberate` | `PairedOnPurpose` | one writer (the property's own condition) |
| `EveryAppHasOneRow` | `EveryAppOnce` | `MatchingAssumption`, `EnoughKeysAssumption` |
| `ProposalsAreAdded` | `AcceptedAsProposed` | `MatchingAssumption`, `EnoughKeysAssumption` |

The first two have invariants of their own: the registry is not the file the writer
has open, until that is written; what is acted on is compared with the token.  The
others rest on `Inv`, and all but `PairsAreDeliberate` hold for any number of writers,
however they interleave and mix their texts.

*Pairing.*  `PairedOnPurpose` speaks of the entries that are loaded, and says nothing
of what a call is about to write or has left in a temporary file, so it is not
inductive.  `Inv` says of every list there is, in each file and in each call that
saves, that it is `Sound`: well-formed entries, no two of one key, each key one the
user gave, and the ids and the key of each within one group of `Groups`: of `linked`
when one call writes, and anything when several do, whose mixtures keep only the rest
(`OverIsSound`).  A file that a lone writer has open is torn until it writes, so it
never writes over a text.  `Upsert` keeps that (`UpsertIsSound`): an entry it merges
into shares its key or an id with the call, so the call's group and the entry's become
one, and joining groups only makes them larger (`JoinGrows`).

*Loading.*  `Loaded` is a recursive function over the entries, which TLA+ defines by
a choice among the functions that satisfy its equation.  `LoadedIs` proves that one
exists, by induction over the largest key decided, and so that an entry is kept just
when no earlier one that is kept clashes with it.  Hence what is loaded does not
clash (`LoadedApart`), and nothing is dropped where nothing clashes (`LoadedAll`).

*Portfolio and proposals.*  Both are computed app by app or round by round
(`RowsAre`, `ProposalsAre`: the recursions have a solution).  `RowsOK` holds of the
rows after n apps: no id on two rows, no key on two, a row for every app so far and
every entry, and not more keys than the user gave plus n.  That last count is why an
app finds a key that is free: it has more numbered keys, all different, than are
taken (`KeyIsFree`, a pigeonhole argument).  `ProposedOK` is its counterpart for
proposals, where the order by score, name and position must be total for a round to
find a best (`BestIs`).  A proposal then meets neither an entry nor another proposal
by its key or an id, so `Upsert` adds it and `Loaded` keeps it.

The induction is over numbers and by hand (`UpTo`): a set of numbers has a least
element, which the library's order of the natural numbers gives.

`ReportCacheProofs` proves, for any number of calls and any times, from
`CacheAssumption` unless a line says more:

| Theorem | Property | Further assumptions |
|---|---|---|
| `TypeCorrect` | `TypeOK` | |
| `SalesAreTrue` | `SalesCompleteIsTrue` | |
| `DailyEntriesAreFinal` | `DailyKeptIsFinal` | `Lag["daily"] <= Claimed["daily"] + 1` |
| `AnswersAreRecent` | `AnswerIsRecent` | `Lag["daily"] <= Claimed["daily"] + 1` |

*Truth.*  Sales are published whole, so no file, no call and no answer ever holds a
part of them, and an answer that has any rows, which is what being called complete
asks for, has them all.  That a free file number exists for every call that saves is
a counting argument (`FreshFile`).

*Age.*  The assumption says that Apple is done with a day within the lag the code
waits for and the day it adds before it keeps an entry for ever (`_cache_policy`);
with a store that is later, both properties are false.  Both are about daily sales: of
monthly ones the first is false (section 4).  Neither is inductive, because the blob
and the meta file are written by steps of their own and two calls share the temporary
file and each other's meta file.  `Dated` bounds from below how old a file's figures
are, unless they are the final ones or the file is torn (`Since`).  What a call is
about to move or to date is no older than the calls it may have met, that is the day
it began or, after a midnight, the day before (`Floor`); so a meta file's blob is at
most a day older than its date, and an entry kept for ever has a blob of the day from
which daily entries are kept so or later (`Horizon`), by when the figures are final.
An answer adds the 24 hours of an entry to that.  The proof uses what `Tick` says of
midnight, and no other bound: saves meet, fail and die as they like.

Only model-checked: liveness (`EveryCallReturns`, `EveryCallEnds`), which the prover
does not treat, and the violated properties, which a theorem could not state.  Every
other property of a run is a theorem.

## 6. Not modelled, and what could be

* Analytics requests (`app_store/reports.py`, `advance_analytics`): created at Apple
  and polled over days.  Two calls that create at once, or a POST repeated after a
  timeout, may leave two ongoing requests.  A module of its own over `AscClient`'s
  contract would be the next step.
* The sales range, finance reports and vitals: loops over reads, with no state but
  the cache and a spacer of the kind `AscClient`'s throttle is.
* That no pairing is lost when two calls pair at once: the code takes no lock between
  the load and the save, so it does not hold (section 4).
* The changelogs a pull writes and its sidecar of digests: no tool reads them back.
* CSV rows, wording, rendering, how alike two names are, credential discovery, the
  `doctor` command and the figures of the read-only aggregations: no state of their
  own.  The reasons are in `PROJECT.json`, component by component.
