# Formal model of Nuvyn

TLA+ modules, TLC configurations and TLAPS proofs for the parts of Nuvyn where
concurrency, programs outside the server, lost answers and crashes meet.

Nuvyn keeps a person's notes as plain files in a vault directory, and a ledger
in SQLite. One Node process serves a Vue client over HTTP, keeps metadata in
SQLite and versions in git. The vault is open to everyone: editors, sync
programs and scripts change the same files while the server works on them, the
process may die at any system call, and the browser may lose any answer. Paths
below are relative to the repository (`src/server/...` is `server/...` there,
`src/src/...` is the client).

## 1. Inventory

| Component | State | Operations | Interacts with | What makes it hard | What makes it correct |
|---|---|---|---|---|---|
| Write locks (`documentWriteLock.ts`, `vaultMutation.ts`) | table of promise tails and waiter counts per key | enter, acquire, release; nested and sorted acquisition | every route, recovery, history | callers interleave at each `await`; circular waiting; leaks | one writer per key, in order of arrival, nobody waits for ever |
| Atomic text writes (`atomicTextWrite.ts`, `durableCreateOnlyFile.ts`) | document, temporary file, staged file, journal | replace if unchanged, create, remove if unchanged | posts route, history restore, tags, AI tools | editors replace, delete or write in place between any two calls; calls fail; crash | nothing is lost, a save is all or nothing, a refused one stays refused |
| Startup recovery (`crashRecovery.ts`) | the files above, as a dead process left them | settle each journal, judge files without one, repeat to a fixed point | runs before the server listens | crash during recovery; external edits between crash and restart; termination | the same, and it ends |
| Vault writer ownership (`vaultWriterOwnership.ts`) | owner record, takeover guard | acquire, take over a stale owner, release | the first step of every start | several processes racing; crash at each call; process ids that are reused | one server per vault |
| Password-hash budget (`auth/kdfGuard.ts`) | running count, bounded queue | run, abort, time out, finish | login, diary unlock | abort and timeout against the slot that just became free | no slot lost, none oversubscribed, everybody answered |
| Diary access (`diaryAccess/service.ts`) | capabilities, epochs, generations, leases, quiescences | setup, unlock, lock, body operations, remember device | auth sessions, KDF budget, diary routes | lock, logout or expiry while an unlock waits for its hash or a body operation holds the key | a locked diary is locked |
| Document rename and delete (`documentFileLifecycle.ts`, `documentMetadata.ts`) | file under its public and hidden names, journal, quarantine manifest, metadata rows | create-only move forward and back, delete with path reuse | posts route, recovery | the file takes three calls, the row is elsewhere; recovery guesses from names and hashes | bytes kept, identity follows the file |
| Document routes (`routes/posts.ts`) | none of their own | GET, PUT, PATCH, DELETE | all of the above, the client | metadata failure after a committed save | nobody's text is overwritten unseen |
| Ledger service (`ledger/service.ts`, `repository.ts`, `balance.ts`) | settings, accounts, categories, transactions with companions, exclusions | create, patch, delete, archive, restore, adjust, exclude | idempotent create, client | long sequences of legal calls; old rows that keep what they were checked with | the books balance |
| Idempotent create (`ledger/idempotency.ts`, `features/ledger/ledgerStore.ts`, `recovery.ts`) | replay records; pending intent in memory and `sessionStorage` | create, retry, reload, read back | network, ledger service | answers lost or late, reloads, refused retries | one row per key, and none entered twice |
| Client editor (`editor-tabs/useDocumentSave.ts`, `useDiskFileChanges.ts`) | tab, revisions, save promise, poll under way, barriers | type, save, poll, choose, file operations, history commits | PUT and GET | answers that come after the tab changed; changes on disk | nothing typed is dropped, nothing on disk is hidden |
| Drafts (`draft-recovery/*.ts`) | IndexedDB records of unsaved texts | persist, restore, discard | editor | two tabs, quota | |
| Folder moves (`folderMove*.ts`) | v4 journal phases, gate directory, entries | prepare, gate, land files, commit metadata | folders route, recovery | many files, crash between any two | |
| Rename references (`renameReference*.ts`) | journal of rewritten links | rewrite links in other documents | rename | partial failure | |
| Authentication (`auth/*.ts`) | sessions, rate-limit buckets | login, logout, setup | every route | bounds, clocks | |
| Tags and undo (`tagManagement.ts`, `tagUndo.ts`) | tags, stored inverses | batch rename, merge, undo | documents, locks | stale plan when applied | |
| Attachments, history, link index, board, AI, user interface | files, git, caches, SQLite | various | locks and atomic writes | child processes, reconciliation | |

The properties of each modelled component are listed under its module in
section 3; `PROJECT.json` lists every component, every hazard with its line,
and what is not modelled.

## 2. Plan

Modules in the order they were written; all rows but the last are done.

| Order | Module | Composes | Question |
|---|---|---|---|
| 1 | `WriteLock` | - | do the promise chains serialise writers without deadlock or leaks |
| 2 | `AtomicText`, `ReplaceRecovery` | recovery extends the writes with crashes | is a note ever lost, half written or resurrected |
| 3 | `VaultWriter` | - | can two processes write to one vault |
| 4 | `KdfGuard` | - | are hashing slots lost, oversubscribed or wasted |
| 5 | `DiaryAccess` | waits for `KdfGuard` jobs (a hash that ends or fails) | is a locked diary locked |
| 6 | `DocumentLifecycle` | routes, create-only move, metadata rows, their recovery | do file and row end up at the same path |
| 7 | `DocumentSave` | client tab, network, PUT and GET over an atomic file | are the last keystrokes saved, is anybody's text overwritten unseen |
| 8 | `ExactlyOnce`, `LedgerCreate` | browser, network, server; refines the abstract one | is an entry made exactly once |
| 9 | `LedgerService` | every write operation of the ledger | do the books balance after any history of edits |
| left | drafts in IndexedDB, the v4 folder move, rename references, tag undo, diary migration, attachment trash | over `DocumentSave`, `AtomicText`, `DocumentLifecycle` | crashes and retries |

Every invariant and every action property that a passing run checks is also a
theorem.

## 3. Modules and the code

One TLA+ step is one system call (file components), the code between two
`await`s (in-memory components), or one transaction (SQLite). `PROJECT.json`
maps every definition to its lines. Definitions that precede another one under
a name of their own (`...Unordered`, `...AtOnce`, `...TakenOver`) and whose
comment describes a mistake are mutants: plausible bugs that some property must
catch. No specification uses them.

**WriteLock** (`documentWriteLock.ts`, `vaultMutation.ts`). `tails`, `waiters`
are the two maps; `previous[o][k]` is the promise an operation awaits. `Enter`,
`Acquire` and `Release` are the three stretches of `withInternalWriteLock`. Keys
are numbers in the global acquisition order. Properties: `MutualExclusion`,
`GrantedInOrder`, `TableIsExact` (no leaked and no lost entry, an exact waiter
count), `EveryOperationFinishes` (no circle of waiters). The definitions that
every module has are called `LockInit`, `LockNext`, `LockSpec` and so on here, so
that `ExclusionProofs` can extend this module and `VaultWriter` together.

**AtomicText** (`atomicTextWrite.ts`, `durableCreateOnlyFile.ts`). Names are
bound to inodes, inodes have bytes. Each call of `commit`, of the restore path,
of create and of conditional removal is an action named after it. External
writers replace or delete the path, open it, and write through the descriptor
at any later moment.

**ReplaceRecovery** (`crashRecovery.ts`, `prod.ts`) adds `Crash` before every
call and the startup recovery: passes, the decision table of
`recoverReplaceJournal` (`SettleUnstarted` ... `SettleRetained`), the calls each
decision leads to, the rules for files without a journal, and the fixed point.
Properties: `NeverOutOfReach`, `StagedIsJournaled`, `NoEditLost`,
`RefusedStaysRefused`, `AllOldOrAllNew`, `RecoveryIsIdempotent`,
`ServerSettles`.

**VaultWriter** (`vaultWriterOwnership.ts`, the start and stop in `prod.ts`).
A process is one start with a host and a pid; its name stands for the nonce.
The record is created empty and filled later, so that readers may meet half a
record. `Stop` has the two ways an owner ends: a start that fails after it owned
the vault calls `release` once, a stop on a signal calls it twice in one turn,
from the shutdown handler and from the 'close' event of the listener. The code
does not keep its promise `OneWriter` (at most one process serves the vault)
after that second call: both calls pass the nonce check, and the later `unlink`
may take the record of a successor. The history variable `astray` records that a
release has removed another process's record. `SingleWriter` is the promise until
then; `LiveRecordStands` says that nothing else removes a live record, and that
only the second call of a signalled stop goes astray; `NoRecordLeftBehind` is
about refused starts and both kinds of stop.

**KdfGuard** (`auth/kdfGuard.ts`). `Free` is the `finally` block with the whole
loop of `drain`. Properties: `BudgetExact`, `AbandonedNeverRuns`,
`EveryJobIsAnswered`.

**DiaryAccess** (`diaryAccess/service.ts`, the logout in `auth/routes.ts`). The
maps of the service are the variables of the same name. `Begin` is `setup` or
`unlock` up to the hash; `Unwrap`/`Store` what follows it; `Turn` and `Replace`
the body of `issueCapability` before and after its `await`; `Invalidates` is
`beginSessionInvalidation`, and `Finalize` the one waiter that finishes a
quiescence. Properties: `DiaryInv` (leases, capabilities, locks and remembered
devices agree), `LockIsFinal`, `LeaseKeepsKey`, `KeyIsTheDiarys`,
`NoKeyLeftBehind`, `NobodyWaitsInVain`. The last one stands for liveness: a
closing session is about to be finalized or has an open body operation whose end
drains it, a lock or a replacement waits for nothing else, and the line of an
issuance has a head that is in issuance itself. So whatever a call awaits is a
step that is enabled, or a hash or a body callback that is under way; the calls
end if hashes and callbacks do.

**DocumentLifecycle** (`documentFileLifecycle.ts`, `routes/posts.ts`,
`crashRecovery.ts`, `documentMetadata.ts`). One document, a source and a
destination path, and the hidden names a move goes through. `gen` says which
file each name has, `row` which identity the database has at each path;
`journal` and `manifest` are what a dead process leaves. `createOnlyMoveFile`
is `TakeAside` (rename to a hidden name), `LinkTaken` (create-only) and
`UnlinkTaken`; the same three calls run backward when `MoveRowFails`, and
`Unwind`, `IdentifySource` and `FollowFile` are the catch block of PATCH. DELETE
is `DeleteRow`, `DeleteFile` and, when that fails, `PutBack`; a path that is
reused goes through the quarantine manifest (`WriteManifest`, `SetAside`,
`Detach`, `Reidentify`). Recovery goes through its groups of hidden names in
the order of the code and repeats its pass (`JudgeManifest`, `JudgeJournal`,
`JudgeOrphans`, `JudgeTaken`, `EndPass`). Outside programs write and delete
public paths at any moment. Properties: `LifecycleInv` (no bytes lost, no file
left with two names), `RenameIsAtomic`, `IdentityFollowsFile`, `Settles`.

**ExactlyOnce** is the abstract promise: per key, an entry is made once with
one row, and a confirmation names that row. **LedgerCreate** implements it: the
browser's pending intent in memory and in `sessionStorage` (`BeginCreate`,
`Retry`, `ReadBack`, `Reload`, `Bootstrap`), calls that are lost, late or
answered, and `executeIdempotentLedgerCreate` inside its transaction (`Replay`,
`Open`, `Mutate`, `Commit`, `Abort`, `Refuse`, `Crash`). The refinement mapping
is `ExactlyOncePerKey`. `DoubleEntryHasCause`: for the user, two keys may mean
one entry, and that happens only through one of three recorded causes (spoiled
storage, a refused retry, crossed answers).

**LedgerService** (`ledger/service.ts`). Every operation is one transaction and
one action with all its checks: settings, accounts, categories, entries,
transfers with a fee as a companion row, patches, deletions, archiving,
adjustments, exclusions. Balances are derived from the rows, as in `balance.ts`.
Properties: `LedgerInv` (what a row, account or exclusion was checked against
stays true), `ArchivedIsZero`, `GroupComplete`, `AskedIsMoved`,
`NetWorthIsEarned`.

**DocumentSave** (`useDocumentSave.ts`, `useDiskFileChanges.ts`,
`routes/posts.ts`). `tab` has the fields of the tab the decisions read; `req` is
the save under way, `late` a request whose answer the browser gave up on and
that may still be executed; `read` is a poll or a choice that reads the disk;
`timer`, `lock` and `barrier` are the autosave, the file operation and the
history commit. `SaveLatest` and `Continue` are the loop of `doSave`; the PUT
handler is `PutRequest` (compare and commit under the lock) and
`RecordMetadata` or `MetadataFails`; the GET is `GetStat` and `GetRead`.
Properties: `SaveInv` (mtimes stand for their texts, a held document is quiet,
a history commit gets its text), `CleanIsSaved`, `OthersKept`, `LocalKept`,
`SaveSettles`, `ChangeSurfaces`. The file is written in one step here: that a
single save is all or nothing is what `ReplaceRecovery` shows.

## 4. Runs

| Run | Bounds | Why these |
|---|---|---|
| `write_lock` | 4 operations, 4 keys, overlapping footprints | every pair of nesting shapes of the routes; three waiters behind a holder |
| `replace` | 2 saves or creations, 2 texts, 2 external steps, 2 crashes | crash in a save and in its recovery; an edit before and one after it; an editor that opens, then writes |
| `faults` | 2 operations of any kind, 1 external step, 2 crashes, 1 failing call | each failing call at each place, with liveness |
| `vault_writer` | 4 starts, both kinds of stop, 2 hosts, pids shared across hosts, 1 failing call | an owner, a dead owner and two contenders |
| `signal_stop` | 3 starts, stops on signals, no failing call | as small as shows the finding of section 6: who stops, who is robbed, who comes third |
| `kdf_guard` | 5 jobs, 2 slots, queue of 2 | both bounds are hit with a job to spare |
| `diary` | 2 sessions, 3 unlocks, 1 lock, 2 body operations, 1 token | two unlocks race in one session, two setups race across sessions, foreign capabilities; a replacing unlock, a lock and two leases wait for each other |
| `lifecycle` | 1 rename or delete, 2 external steps, 2 crashes | death in the operation and in its recovery, a file that comes and one that goes |
| `ledger_create` | 2 entries, 3 keys, 4 calls | a retry, a late answer and a second entry at once |
| `double_entry` | 1 entry, 2 keys, 3 calls | as small as shows the finding of section 6 |
| `ledger` | 2 accounts, 2 bases, 1 own category, 3 transactions, amount 2, fee 0 or 1, 3 openings | a transfer, its fee and one more row; every nature and kind |
| `document_save` | 3 texts, 2 edits, 1 outside write, 1 failure (a failed click read is not counted) | typing during a save, a lost or late answer against a change on disk; with 2 failures the whole run was made with 1 edit, and the invariants with 2 edits and also with 2 outside writes (3.7 million states each) |

Symmetry is used where calls (`diary`), starts of one host whose pid no
other start has (`vault_writer`), texts (`replace`), accounts (`ledger`) or entries
(`ledger_create`) are interchangeable and no liveness property is
checked. Deadlock checking is off where the finite set of requests is
eventually used up; `kdf_guard` keeps it on and says when it is done,
`document_save` keeps it on.

Fairness. `WriteLock`: a resolved promise runs its reaction, and a holder's
work ends. `ReplaceRecovery` and `DocumentLifecycle`: the server goes on with
the operation or recovery it is in and is restarted when it died (`restart:
unless-stopped`); clients, editors, faults and crashes are not obliged to act,
and crashes are bounded. `KdfGuard`: a hash ends, its `finally` runs; timers are
not relied upon. `DocumentSave`: handlers and answers arrive, polls repeat,
operations and commits that got their barrier end (weak fairness), and an
autosave timer that operations keep cancelling and setting again fires in the
end (strong fairness of `Fire`); users, outside programs and failures are not
obliged to act.

## 5. Proofs

All are for every value of the constants, under the named assumptions of the
modules (bounds are natural numbers, `None` is none of the values, the set of
operations is finite where operations are counted).

* `ExclusionProofs`: the two levels at which writers exclude each other. Of
  `WriteLock`, `ChainInv` is inductive. It adds to the types that an operation's
  awaited tail is the operation that asked just before it, so that "all who
  asked earlier have released" holds when a tail resolves; mutual exclusion,
  order and exactness of the table follow. The waiter count is an induction of
  its own over the set of operations behind a key (`WaitersStep`). Of
  `VaultWriter`, `OwnershipInv` is inductive for every combination of stops. All
  of it but the types and `Named` (nobody knows of a process before it starts)
  holds until a release goes `astray`, which no step takes back. Its core is
  `JudgedDead`: whoever got past `assertStaleOwner` judged a process that never
  runs again, so reused pids do no harm; `GuardKeeps` carries that over to the
  record that is unlinked. `NoRecordLeftBehind` needs `WillCleanUp` on top, which
  holds whether a release has gone astray or not: as long as no call failed, the
  process whose record is at the path is at a call that `release` still follows,
  or dead.
* `ReplaceRecoveryProofs`: `RecoveryInv` is inductive. `NeverOutOfReach` alone
  is not: it needs to know which calls are still to come in a recovery
  (`CallsLeft`), that a staged file is unlinked only when the document is at its
  path (`VisibleBeforeUnlink`), and that the files a call is about to link exist
  (`FilesHeld`). `StagedIsJournaled` needs `StagedLater` and `RunningIsCurrent`.
  Four more invariants rest on it. `RefusalInv` gives `RefusedStaysRefused`: the
  file of an operation that will be refused is neither at the path nor taken
  aside before the answer (`UnlinkedBefore`), and never comes there afterwards
  (`RefusedIsGone`). `EditInv` gives `NoEditLost`: a staged name may go only
  when its file is at the path or has the bytes the save was based on
  (`StagedMayGo`). `TextInv` gives `AllOldOrAllNew`: only the last operation can
  have an active journal (`JournalOfLast`), the server does not serve before it
  is settled (`ActiveIsSettled`), and until an external writer acts the path has
  an old or new text or is empty with that text taken aside (`PathIsOldOrNew`).
  `EditInv` and `TextInv` are proved under `MaxFaults = 0` and for saves and
  creations only: with failing calls or conditional removals the code itself
  gives an edit up in the windows of section 6, and the run `replace` checks
  both properties under the same restriction. `RefusalInv` has neither
  restriction. `IdempotentInv` gives `RecoveryIsIdempotent`, for operations of
  every kind: a pass that nobody disturbs still has on its lists whatever it is
  to change (`JournalsInTurn`, `FilesInTurn`), so that when it ends every
  journal is gone or kept for a user, and a directory without journals has no
  hidden file left to drop or restore (`AtRest`); and on such a directory a pass
  changes nothing (`Rested`). Failing calls may happen; as in the property,
  nothing is said once one has.
* `LedgerCreateProofs`: `CreateInv` is inductive. It relates the two sides: a
  replay record belongs to a call that was made, an answer is the record's row,
  every intent in memory or storage was sent, the open transaction is of its
  call. From it follow `NeverConflicts` (a key travels with one payload),
  `IntentSurvives` (what may have been entered and was not confirmed is in
  `sessionStorage`), `DoubleEntryHasCause`, and the refinement: every step is a
  step of `ExactlyOnce` or leaves its variables alone.
* `KdfGuardProofs`: `BudgetExact` is inductive together with `QueuedOnce` (a
  waiting job is in the queue once, and only waiting jobs are) and
  `NoAnswerYet` (a job that is waiting or running has no answer), since `Free`
  starts whatever it finds in the queue. `AbandonedNeverRuns` follows.
* `DiaryAccessProofs`: `DiaryInv` is inductive as it stands. What carries it is
  that generations only grow: `LockSound` compares every capability and lease
  with the fence of the lock, `UnlockSound` says whose key an unlock holds in each
  phase and when its copy is erased, and `DrainSound` says what a replacement that waits for the leases
  may rely on (it is still the head of its line, and nothing was published
  meanwhile). `KindsAssumption` says that no call is both an unlock and a lock.
  `NobodyWaitsInVain` needs two more facts beside it: the line of a session holds
  its unlocks in issuance and nobody else, once each (`LineSound`), and a closing
  session without an open body operation is marked drained (`DrainingStep`, with
  `ClosingDrains` for the steps that begin a quiescence). That who waits was
  counted into a quiescence that is open or over is in `DiaryInv`.
* `DocumentLifecycleProofs`: three invariants, the second and the third beside
  the first. `FilesInv` is inductive and gives `LifecycleInv`, for any number of
  outside steps and deaths. `NothingLost` alone is not inductive: that the name
  an `unlink` takes is not the last one (`UnlinksAreSafe`) needs that one file
  at most is under a hidden name and which call may have put it there
  (`OneHidden`), and that a file of an outside program is none that was there
  before (`FilesAreBorn`, by counting them); `OneName` needs what the turn of
  one group of hidden names leaves for the rest of a pass (`PassSoFar`).
  `AtomicInv` gives `RenameIsAtomic`: it lists the places of file and row that a
  rename or its recovery can have reached (`FileAndRow`), and what each call
  relies on. `IdentityInv` gives `IdentityFollowsFile`: while the bounds of that
  property last, whenever the document's row is at a path without its bytes,
  the journal, the manifest, the delete staging or the next call says so
  (`IdentityIsAccountedFor`). `LifecycleAssumption` says that `None` is not a
  file.
* `LedgerServiceProofs`: the conjunction `IInv` of what the run checks, with
  `Paired` and `Moved` in place of the properties about transfer groups, is
  inductive for any accounts, amounts and number of rows. The properties need
  each other: a patch relies on complete groups to find the fee row, and
  `ArchivedIsZero` needs that a companion row has the accounts of its transfer,
  or a patch of the transfer could move money on an archived account. Balances
  and net worth are sums, that is folds over sets. What is needed of them (a
  sum may be taken in any order, two sums may be exchanged) is proved without an
  induction principle over an operator: the sets for which a statement holds are
  collected in a set, and a smallest set outside it, which exists since the
  strict subset order of a finite set is well-founded, would be in it
  (`SetInduction`). `NetWorthIsEarned` follows by the change of both sums in
  each transaction. The proof brought to light that two definitions of the model
  (`StoredMode` and the group of a patched transfer) chose between overlapping
  cases; the code tests them in order, and now the model does.
* `DocumentSaveProofs`: `SaveInv` is inductive but for `StampTellsText` and
  `HistoryHolds`, which follow. Neither is inductive alone: that the mtime of the
  tab stands for its text needs the same of the answers and reads that bring a
  new mtime (`StampSound`); that a poll which still speaks of the tab read its
  base needs that no save of the same revision was stored since (`ReadSound`);
  and that a granted history commit has its text on disk needs that revisions
  stand for texts (`RevisionSound`) and that the file has the base or the text
  of the request while nobody else writes (`DiskSound`). `CleanIsSaved` follows
  from `DiskSound`; `LocalKept` needs `FlowSound`; `OthersKept` needs only the
  types.

Only model-checked: the liveness properties (`EveryOperationFinishes`,
`ServerSettles`, `EveryJobIsAnswered`, `Settles`, `SaveSettles`, `ChangeSurfaces`), which are beyond the prover.

## 6. Disagreements between code and documents

Two have a run whose counterexample shows them (`PROJECT.json`, findings).

* `double_entry`: a retry that is refused for its own reasons makes the browser
  forget an intent that may have been executed, and the user's next submission
  enters the same thing again.
* `signal_stop`: a stop on SIGINT or SIGTERM calls `release` twice at once. Both
  calls read the record and find their own nonce before either unlinks it; when
  a second server starts between the two `unlink`s, the later one removes its
  record (`vaultWriterOwnership.ts:315-317`), and a third server starts beside
  the second, against `docs/deployment/docker.md:125-134` and the test
  `__tests__/vault-mutation.test.ts:138`. Nothing has to fail or crash for it.

Met while modelling, part of the models, without a run of their own.

File writes and recovery:

* A save refused because an editor replaced the file just before the takeover
  may leave the path empty until the next start (`atomicTextWrite.ts:946`; the
  comment at 456-458 says the external file is restored).
* Recovery deletes the staged bytes of an interrupted removal when the path is
  occupied again, edited or not (`crashRecovery.ts:3127`; the header at 29-30
  says that nothing edited is deleted). `NoEditLost` counts it as `forfeit`.
* After a `link` that fails for another reason than `EEXIST`,
  `restoreStagedGeneration` checks the path and then renames over it; a file
  that arrives in between is replaced (`RestoreStat`, `RestoreRename`).
  `NoEditLost` is therefore checked without failing calls.
* On `EEXIST` the staged file is unlinked without being read again
  (`DropStaged`); a write through an old descriptor in that window is dropped.
  `forfeit` records it.
* A journal torn by a crash is retained for ever and keeps the rules for files
  without a journal from being applied to that document (`JournalsSettled`).

Vault ownership:

* In a container, a killed server comes back with the same host name and pid,
  takes the dead record for its living self and refuses to start
  (`vaultWriterOwnership.ts:207`; `docs/deployment/docker.md:131-134`).

Rename and delete:

* A death between recovery's rename of a delete staging into quarantine and the
  delete of its row (`crashRecovery.ts:3214-3222`) leaves the old identity on
  another program's file, against `posts.ts:989-990`; `IdentityFollowsFile`
  allows one death for that reason.
* When the rollback of a rename dies between its link and its unlink and the
  destination has a stale row, `recoverRenameStaging` (2698-2710) moves that row
  over the document's own; `RenameIsAtomic` leaves stale rows out.

Diary: an expiry timer that comes a moment early looks at the clock twice and
may drop the diary key under an open lease (`TimerDrops`). `lapsed` records it.

Ledger: amounts are checked one by one, balances are not. Two incomes of
`Number.MAX_SAFE_INTEGER` are stored, and every later read, patch or archiving
of that account throws `ledger-money-overflow`.

Open documents:

* A lost answer after a commit, followed by a return to the base text, makes the
  tab count as clean while the disk has the user's own older text; the next poll
  loads that (`author = "lost"`).
* A GET takes no lock. A poll that reads the text of a save whose metadata update
  then fails, while the failed save before it had left the tab in `error`, finds
  the tab as it was when it asked (`useDiskFileChanges.ts:184-202`) and shows a
  text that was rolled back; keeping the local text makes the tab count as clean
  over the older text on disk (`author = "lost"`; it takes two failures).
* Keeping the local text on a tab whose revision counts as stored schedules a
  save that finds nothing to send; a history commit then takes the disk's text.
* A program that writes between the commit and `fs.stat` in PUT gives its mtime
  to the answer, and polls never notice (`missed`).
* A history commit of several paths that waits for the save of one path does not
  look again at a path whose user meanwhile returned to the base text. Granted
  at once when the stored text was typed again while a save was on its way, it
  finds what that save writes (`early`).
* A poll that loads a tab with an open conflict leaves the text of the conflict in
  it (`useDiskFileChanges.ts:225-232`). It takes two outside writes: the user
  types, the save is on its way, the user types the stored text again, and the
  save is refused with the first of them; the tab is clean by text and revision,
  so the poll loads the second. The next keystroke brings the old conflict back;
  "use the disk" then loads the first text under the mtime of the second, and
  polls find the mtimes equal. `missed` records it, and the proof of
  `StampTellsText` is where it came to light: `document_save` has one outside
  write.

## 7. Assumptions and what is not modelled

* A crash is the death of the process: what reached a directory stays. Power
  loss and directory entries that were never synced are out of scope.
* External writers leave the reserved hidden names alone. A hash stands for the
  bytes it was made of. Temporary files of a journal rewrite are ignored.
* The reads by which recovery decides are one step; each call that changes
  something is one.
* Failing calls are the `link`s of a save, a removal and their recovery and the
  journal rewrite that follows a late edit (`AtomicText`, `ReplaceRecovery`),
  writes and unlinks of the records (`VaultWriter`), the database and, with
  `EEXIST` alone, `link` (`DocumentLifecycle`). Not modelled: the rewrites of a
  journal by recovery failing (`crashRecovery.ts:740-876`; some are reported and
  left, others end the recovery), a `link` of a rename, a delete or their
  recovery failing for another reason than `EEXIST`, failing cleanup unlinks of
  a commit.
* Recovery's cap of 16 to 64 passes (`crashRecovery.ts:3374-3417`) is left out:
  the models repeat passes until one brings nothing new, and the runs show that
  it comes.
* `VaultWriter`: a host name identifies a machine; a refused process exits. A
  takeover that loses its path to a process that had looked for the guard
  earlier leaves its guard: intended, and every later start is refused.
* `DiaryAccess`: hashing and wrapping succeed or fail; the order of promise
  reactions is any order; calls refused before they touch state are left out;
  expiry of a closing session adds one generation at most.
* `DocumentLifecycle`: one document at a time (the write locks serialise them);
  references, folders and managed diary documents are left out.
* `LedgerCreate`: one browser tab; `setOwnerIdentity` and a browser without
  `sessionStorage` are left out.
* `LedgerService`: names, notes, version checks and the range of integers are
  left out; days stand for instants.
* `DocumentSave`: one document in one browser tab; logout, drafts, deletion by
  others, managed diary sessions, disposal of the editor, overlapping polls and
  history commits of several paths are left out. A recovered draft makes the tab
  dirty without setting an autosave timer (`useDocumentSave.ts:397`), so that
  `SaveSettles` says nothing of it before the next keystroke. Texts are values:
  frontmatter merging and diffing are not looked into.
* Not modelled: the components listed as such in `PROJECT.json`, with reasons.
  The user interface, parsers and generated data are by far the larger part of
  the source; they hold no protocol.
