# ViMbAdmin: TLA+ models

ViMbAdmin administers virtual mail domains, mailboxes and aliases in a
database that Postfix and Dovecot read, and moves mail about through Dovecot's
`doveadm` HTTP API.  Its state is shared by three kinds of actors that know
little of each other: PHP requests of the web pages, the calls of an MCP
client, and the processes that drain a queue of tasks which back up, delete,
prune, measure, restore and repair mail.  Any of them may be killed, stopped
for minutes or overtaken by another, and most of the code is written with that
in mind: leases, compare-and-swap updates, checkpoints, file locks, unique
indexes, counters.  The modules here say what these devices promise and check
or prove that the code keeps it.

## Inventory

For each component: its state, its operations, what it works with, what makes
it hard, and when it is correct.

### 1. Task queue

`library/ViMbAdmin/{QueueRunner,MailboxQueue}.php`,
`library/ViMbAdmin/Service/QueueRunner.php` (`withLease`, `drain`, `runOne`),
`application/Repositories/MailboxTask.php`,
`src/Kernel/Controller/QueueController.php`.

* State: the rows of `mailbox_task` (username, type, status, `abandoned`, the
  generated `open_task` with its unique index, `QueueRunner_id`); the leases of
  `queue_runner` (slot, `heartbeat_at`); the MySQL named lock of
  `acquireLease`; in each process its Doctrine EntityManager with the entities
  it holds, its batch and the last heartbeat.
* Operations: enqueue; acquire, heartbeat and release a lease; reap stale
  leases; fail abandoned tasks; sweep; fetch a batch; claim; execute; publish;
  run one task by hand; cancel, retry, delete, clear.
* Works with: every controller that enqueues; the doveadm client, which calls
  back into the lease after every request and while a transfer is polled.
* Hard: processes overlap in every step; the clock decides who is dead; rows
  are read long before they are used; a failed flush closes an EntityManager,
  `clear()` detaches what it holds, and several callers swallow exceptions.
* Correct when: no process joins above its `max_concurrent`; a task is
  executed by the process that owns it; an account is not worked on twice at
  once; outcomes are published by the owner; leases and RUNNING tasks of dead
  processes are settled.

### 2. Task execution

`Service/QueueRunner.php` (`execute` and below), `Repositories/Mailbox.php`
(`purgeMailbox`), `Doveadm.php`.

* State: one account's mail store and home directory, its backup directory,
  its `mailbox` and `archive` rows, the task's persisted plan and checkpoint.
* Operations: ARCHIVE, DELETE (planned, step by step, checkpointed), PRUNE,
  MEASURE_SIZE, RESTORE/REPAIR and the steps each is made of.
* Hard: every step touches the mail store first and the database later; a task
  is run again after a crash, a failure or an operator's retry; `doveadm`
  requests are not atomic and a timed-out one may still be running.
* Correct when: mail is removed only after it is in the backup (unless the
  operator asked for a purge); an archive row has a backup directory; DONE
  means every step happened; each task is audited once.

### 3. Doveadm client

`library/ViMbAdmin/Doveadm.php`.  State: none but the request in flight and
its deadlines.  Operations: backup (one-way mirror), restore (additive),
mailbox list and delete, fs commands, size.  Correct when a request that was
answered with an error is reported as one and progress is reported on time.

### 4. Archives

`ArchiveController.php`, `Service/Archive.php`, `MaintenanceController.php`
(prune requests).  State: `archive` rows with their snapshot, expiry and
autoprune flag.  Operations: restore, delete, toggle autoprune, prune expired,
prune all, and the gated sweep of the queue runner.  Hard: restore and delete
are web requests which touch the mail store while tasks of the same user may
run.  Correct when a backup directory is deleted only for the archive the
operator or the expiry chose.

### 5. Orphan maildir backup

`Service/QueueRunner.php` (`scanOrphans` to `deleteOrphanBackupTemp`),
`MaintenanceController.php`.  A maildir without an account is backed up through
a temporary mailbox row with a sentinel password and possibly a temporary
inactive domain.  Hard: the process may die with these rows in the database,
and an operator may create the real account meanwhile.  Correct when
temporaries are always removed and nothing else is.

### 6. Brute-force throttle

`library/ViMbAdmin/BruteForce.php`.  One JSON record of counters per address
prefix, in files sharded by locks, with a reaper and an eviction of overflow.
Hard: the check before a login and the count after it are separate critical
sections; the reaper unlinks files others are about to write.  Correct when a
failure that was counted is not forgotten before its window, and a locked
address stays locked until its time and no longer.

### 7. Login, session, two-factor authentication

`AuthController.php`, `AdminController.php`, `TwoFactor.php`,
`Kernel/Security/Auth.php`.  Pending and completed logins in the session, TOTP
secret, replay slice and backup codes as rows of `admin_pref`, password hashes
that a login may renew, password reset, first-run setup.  Hard:
read-check-write without locks between concurrent requests; a browser's
session outlives the rights of its administrator.  Correct when no completed
login skips a factor that is enabled, a code is accepted once, an old password
never comes back, and setup makes one administrator.

### 8. Administrators

`AdminController.php`.  The rows of `admin` with `active` and `super`.  Add,
purge, toggles, passwords and the second factor of others.  Hard: each request
judges by the rows it has read, its actor's among them.  Correct when somebody
who may administer remains.

### 9. Settings gate

`library/ViMbAdmin/Setting.php`.  A table of names and values;
`claimTimestamp` lets one process in per interval (UPDATE, else INSERT
IGNORE).  Correct when two processes never both claim one interval.

### 10. MCP server

`application/controllers/McpController.php`, `library/ViMbAdmin/Mcp/*`.
Bearer tokens, a sliding-window rate limit in a file under `flock`, and tools
that call the services below.  Correct when no window holds more than its
limit, a slot comes back, and a file that cannot be read refuses the request.

### 11. Mailboxes, aliases, domains

`library/ViMbAdmin/Service/{Mailbox,Alias,Domain}.php`, their controllers and
repositories.  Rows and the counters `mailbox_count` and `alias_count` of a
domain with their limits.  Hard: limits are checked before the insert; counters
are read, changed and written by each request; some of the writers count by
other rules.  Correct when a counter equals the rows it counts and no limit is
exceeded.

### 12. Automatic aliases and other plugins

`application/plugins/*`.  Hooks around mailbox and alias changes that keep
`postmaster`, `abuse` and similar aliases.  Hard: a hook looks at rows which
another request is about to change.  Correct when an address that must be
answered stays answered.

### 13. List pages in the browser

`public/js/990-vimbadmin.js`, `application/views/mailbox/js/list.js` and the
parts of DataTables and jQuery they run through.  State: the table's draw
counter, search and rows; the toggle button's class, its `disabled` property
and the handlers bound to it; requests under way.  Hard: answers come late, out
of order or not at all; rows are replaced under a request; handlers pile up on
an element while a delegated one waits on the document; the toggle request is
relative.  Correct when one click is one request and a label at rest tells what
the server has.

### 14. The rest

Schema upgrade; the kernel (routing, forms, CSRF, views, mail); log listings,
version check, Dovecot helpers, demo data; vendored browser libraries.  These
keep no shared state that outlives a request, or are one transaction each.

## Modules

| module | models | composes / refines | proofs |
|--------|--------|--------------------|--------|
| `TaskQueue` | component 1, with execution as generic requests | refines `TaskLife` | `TaskQueueProofs` |
| `TaskLife` | abstract: a task waits, is held by one, settles | | |
| `MailTask` | components 2 and 4 for one account | its workers are the processes of `TaskQueue` while they hold their lease | `MailTaskProofs` |
| `OrphanBackup` | component 5 | the same | `OrphanBackupProofs` |
| `Throttle` | component 6 | | `ThrottleProofs` |
| `Accounts` | components 7 and 8 | `Throttle` decides which attempts get so far | `AccountsProofs` |
| `SettingGate`, `McpRateLimit` | component 9, the limiter of 10; both over `GateBounds`, the constants they share | refine `WindowGate` | `GateProofs` |
| `WindowGate` | abstract: at most `Limit` calls pass in any `Span` ticks | | |
| `Directory` | component 11 with the hooks of 12 and MCP's tools | | `DirectoryProofs` |
| `ListPage` | component 13 | | `ListPageProofs` |

`MCTaskQueue`, `MCMailTask` and `MCAccounts` give the constants of one module
their values.  Four more put modules side by side that share no state:
`MCTasks` is `MCMailTask` with an instance of `TaskQueue`, `MCGates` is
`McpRateLimit` and `Throttle` with an instance of `SettingGate`,
`MCMaintenance` is `OrphanBackup` with an instance of `MailTask`, `MCWebPages`
is `MCMailTask`, `Directory` and `ListPage`.  A variable `moving` says which of
them a behaviour moves, and the others stay in an initial state.  That checks
each on its own, in one run.

What is left of the plan: the purge of a whole domain; an abstract module for
the mail of an account (in the store, in the backup, or destroyed on request)
that `MailTask` refines when the account is archived once.

### What is proved

Every safety property of a passing run is a theorem, for all values of the
constants that the named assumptions admit; each section below says from what
and how.  The only further hypotheses are those of the theorems of `MailTask`
about the mail itself, for accounts that are deleted once and not archived
beside that, as the code loses mail of others.  Most
properties are not inductive.  What has to be added to them has the same form
throughout: of each request, worker or process in the middle of its work, what
it has read or staged stands to what there is now, unless somebody else has
changed that, which the model notes.

What stays with TLC is liveness under fairness: `LeaseRecovered`,
`RunningSettles`, `DeleteCompletes`, `LockEnds` and `TempGoes`; and what is
refuted, for which a run shows a behaviour.

## TaskQueue

### Correspondence

| variable | code |
|----------|------|
| `status`, `keyOf`, `abandoned`, `owner` | columns of `mailbox_task`; a key is a username and a type; `"none"` is "no such row" |
| `lease` | the process's row in `queue_runner`: its slot, 0 when absent |
| `mutex` | holder of `GET_LOCK('vimbadmin.queue_runner.acquire')` |
| `pc` | where the process is between two statements or requests |
| `cap`, `slot` | `max_concurrent` as read, loop variable of `acquireLease` |
| `age` | now minus the lease's `heartbeat_at` (before the insert: minus `$now`) |
| `batch`, `cur`, `out` | entities of `pending()`, the one in hand, and the outcome put into it |
| `em` | the EntityManager: open, cleared (nothing managed) or closed |
| `req` | entity a retry request has read and not flushed |
| `late`, `forced` | history, for the properties only |
| `faults` | number of faults so far |

Actions follow the code in order: `StartDrain`/`StartOne`, then `acquireLease`
(`GetLock`, `LockTimeout`, `ReapLeases`, `Count`, `Insert`, `NextSlot`), then
`drain` (`ReapTasks`, `Sweep`, `Fetch`, `ClaimNext`, `BatchDone`) or `runOne`
(`ClaimOne`), then the execution (`Progress`, `Send`, `Poll`, `Reply`,
`ExecDone`), then the publication and the release (`Finish`, `Publish`,
`NotPublished`, `PublishClosed`, `Release`, `ReleaseSwallowed`).  The web is
`Enqueue`, `RetryRead`, `RetryFlush`, `Cancel`, `Delete`, `Clear`.  `Kill`,
`AcquireFails`, `StatementFails` and `FlushFails` are faults, at every point
where the code can meet them.

Choices worth knowing:

* `QueueRunner_id` is a foreign key with ON DELETE SET NULL, so deleting a
  lease (`ReapLeases`, `Release`) also empties `owner`, and a claim under a
  lease that is gone fails.
* The entity a runner holds is written by whichever flush comes first: that is
  why `Release` may write `status`.
* `open_task` is a generated column over status and `abandoned`, and the unique
  index over it is `OpenKey`; `OpenByStatus` is the weaker test of the code
  that looks for open tasks without it.
* A lease row is named by its process.  A process whose row is still there
  cannot restart under that name, so names are never confused.  Task ids come
  from a pool and are reused only when nothing refers to them.
* Ages are one tick apart; `Tick` may happen between any two steps, so a
  process can be stopped for any time.  While a lease is being acquired it may
  be stopped for `MaxWait` ticks only: `GET_LOCK` has a timeout, and the code
  after it is three statements.

### Runs

| run | shows |
|-----|-------|
| `TaskQueueWeb` | a drain with the autoprune sweep and its swallowed exception, a second process that also serves the manual run-task request, two rows of one key, every web request, with a retry that reads now and flushes later, and one kill or error anywhere: `TypeOK`, `CapRespected`, `LateCommands`, `OwnedWhileExecuting`, `KeyExclusion`, and `LivesAsPromised`: the queue refines `TaskLife` |
| `Tasks` | with fairness, two drains with the sweep that queues a row of the same key and may close the EntityManager, and one kill or error: `LeaseRecovered`, `RunningSettles`; beside a DELETE, see `MailTask` |

`TaskLife` is what a user of the queue relies on: a task waits, one holder
takes it, it settles; what a holder has lost nobody else takes: it is fenced
until somebody removes it, or settles late.  Two sentences of the repository
promise more than the code keeps, and `TaskLife` and the properties say what is
left of them:

* *"Publish terminal ORM state only while the task still names this live
  lease"* (`Repositories/MailboxTask.php:89`).  `drain` sets the status before
  it renews the lease; if the lease is gone the renewal throws, `publishIfOwned`
  is skipped, and the flush of `release` writes the status all the same: a
  lost task may settle late, and a fenced one may change from FAILED to DONE
  while it stays fenced.
* *"two concurrent runners never process the same task"*
  (`Repositories/MailboxTask.php:12-14`).  True of `claim`; not of `claim`
  together with `retryAction`, which flushes PENDING over a row it read as
  FAILED.  The rows such a retry has written over are `forced`; of them
  `OwnedWhileExecuting`, `KeyExclusion` and `TaskLife` say nothing.

A third one: *"heartbeats it, and deletes it on exit"*
(`QueueRunner.php:14-18`).  After `em->clear()` in `drain`, or after the
sweep's swallowed unique violation, the lease entity can no longer be removed;
the slot is lost until the TTL, which is why `LeaseRecovered` is about time.

### Bounds

`TTL` = 2 ticks and `HeartbeatInterval` = 1 keep the order of the constants of
the code (1800 s and 60 s): a heartbeat is due before a lease expires.  Ages
saturate at `MaxAge` > `TTL + MaxWait`: every comparison in the code is with
`TTL` or the interval, relative to a `$now` at most `MaxWait` old, so larger
ages behave alike.  Two tasks suffice for a stale row beside its replacement.
In `Tasks` there is one task id, so the sweep and the drains are about that
row; nobody enqueues, retries or clears it there, which no fairness would make
anybody do.  `MaxFaults` is 1: lease loss needs no fault, as a process may be stopped past
the TTL at any point, and one death or error comes on top of it.  The theorems
below hold for every number of processes, so that two are enough here.

### Fairness

`FairSpec` says that a drain is started again and again (cron or the trigger
endpoint), that a process which is not killed goes on, that the clock runs,
that a request is answered or fails (the client has deadlines), and that
`execute` ends if it is always again able to (a task makes finitely many
requests: strong fairness on `ExecDone`).  Web requests and faults are not fair.

### Proofs

`TaskQueueProofs` proves for all values of the constants, from the named
assumptions of `TaskQueue` (finitely many processes, `HeartbeatInterval < TTL`,
`TTL + MaxWait < MaxAge`, nulls distinct from values):

* `TypeCorrect`: `Spec => []TypeOK`.
* `CapIsRespected`: `Spec => CapRespected`.  The argument: between a count and
  its insert the process holds the mutex, and every insert needs the mutex, so
  the number of leases can only fall.
* `Inductive`: `Spec => []IInv`.  `KeyExclusion` is not inductive: it needs that
  the rows processes execute are open (RUNNING, or abandoned after a reap),
  that an `owner` is a live lease, that a lease older than its process's
  request has been noticed, and that at most one open row has a key.
* `Ownership`, `Fence`, `AtMostOneLateCommand`: `OwnedWhileExecuting`,
  `KeyExclusion` and `LateCommands` from it.

`QueueImplementsLife` is the refinement, `Spec => LivesAsPromised`.  The
argument: each action does to each row one of ten things, told by its columns
(`RowStep`: nothing, added, taken, settled, lost, fenced, dropped, again,
removed, late), and each of them is a step of `TaskLife` or a stutter, given
that `owner` is a live lease and that only a settled row is fenced
(`FencedInv`).

Only model-checked: the two liveness properties.

## MailTask

### Correspondence

`MailTask` is one account: what `execute` and the steps below it, the archive
pages and the queue pages do to its mail, its backup and its rows.

| variable | code |
|----------|------|
| `store`, `home` | mail Dovecot finds for the user, and the maildir home on disk |
| `dest` | mail in the account's directory under the backup root |
| `mailbox`, `arch` | the `mailbox` row; the `archive` row: autoprune, expiry, snapshot |
| `status`, `abandoned`, `mode`, `done` | columns of `mailbox_task`; the last two are `mode` and the number of `completed` steps in its delete progress |
| `job`, `pc`, `out` | the worker's task, the statement or request it is at, the outcome it will publish |
| `fresh`, `seen` | Doctrine's identity map: which actors hold an `Archive` entity that is the present row, and the autoprune flag in it |
| `staged` | what `persist`, `remove` and setters have left for the next `flush` |
| `boxes` | mail of the folders `mailboxDelete` listed and has still to delete |
| `rpc` | where a restore or delete request of the archive pages is |
| `sent`, `discarded`, `copied`, `dropped`, `audits`, `wasOn` | history, for the properties only |
| `errors`, `kills` | number of faults so far |

A drain is `Start` or `StartSweep`, then `Claim`, the task, `Publish`, and so
on until `Leave`.  ARCHIVE is `Copy`, `Record`, `List`, `Expunge`, `Expunged`,
`LogAudit`.  DELETE is `Plan`, then for each step of its plan the step and
`Checkpoint`, then `DeleteDone`; the steps are `Probe` and `Copy`, `Record`,
`List` to `Expunged`, `FindHome` and `RemoveHome`, `RemoveRow`, `StageAudit`.
PRUNE is `Inspect`, `RemoveDest`, `LogAudit`.  The pages are `Restore` to
`DropArchive`, `Toggle`, `Enqueue`, `Retry` and `Remove`.  `UnknownUser` is the
refusal of `doveadm` once the row it authenticates against is gone, `Conflicts`
a unique violation, `Fails` any other error, `Dies` and `RequestDies` deaths.

Choices worth knowing:

* A worker keeps its lease until it ends or dies, so a claim is one step and a
  task is reaped only after its worker's death.  What goes wrong with leases is
  the subject of `TaskQueue`.
* A flush writes everything staged, and an entity that was loaded earlier in
  the drain keeps its values: `findOneBy` does not refresh a managed entity.
  That is why `seen` and `fresh` are state.
* A failed `backup` may leave any part of either side in the destination
  (`Fails`); `mailboxDelete` removes folders one after the other (`Expunge`).
* `discarded` is mail destroyed because somebody asked for that: by an instant
  DELETE, by a PRUNE, or with its backup on the archive pages.
* `Retry`, `Toggle` and the tests of `Enqueue` are atomic here; their races
  with other writers of the same row are in `TaskQueue`.  `Remove` stands for
  cancel, delete and clear, and the prune of the Maintenance page is `Discard`
  of one archive after another.

### Runs

| run | shows |
|-----|-------|
| `Tasks` | a DELETE, backed up or instant, with two errors and a death anywhere, and fair retries: `TypeOK`, `MailKept`, `DoneIsAudited`, `DeleteCompletes` |
| `WebPages` | three scenes of an account.  "two runners": an ARCHIVE and a DELETE at once.  "archive pages": a DELETE of an account that may have been archived before, with mail arriving, beside a request that restores or deletes that archive.  "prune": a DELETE, then the autoprune of what it leaves, with toggles of the flag.  In all of them `Restorable`, `BackupStands`, `RecordedBeforeEmptied`, `PruneAfterToggle` |
| `Maintenance` | a PRUNE, toggles of the flag, and two requests that restore or delete the archive: `MailKept` |
| `ArchiveRetried` | violated: an ARCHIVE that failed while it emptied the store is retried and mirrors the half-empty store over its own backup |
| `DestinationProtected` | violated: what a DELETE's first attempt wrote is lost on a retry |
| `StoreEmptied` | violated: a DELETE copies a store that was emptied after it had been probed |

`Tasks`, `WebPages` and `Maintenance` check other modules as well; see there.

The three violated properties:

* `MailKept` with an ARCHIVE that is retried.  Its steps are not checkpointed,
  and `backup` mirrors: mail which the first attempt backed up and removed is
  removed from the backup too.  Nothing is left of it.
* *"a retry must archive and protect the exact location written by its first
  attempt"* (`Service/QueueRunner.php`).  A restore deletes the directory and the
  archive row without a look at open tasks: between a DELETE's backup and its
  mailbox-delete, or between its failure and its retry, the only copy goes, and
  the DELETE, whose backup is checkpointed, destroys the store.
* *"never let an empty live store replace it"* (`Service/QueueRunner.php:530-532`).
  The probe and the copy of a DELETE are two requests.  ARCHIVE and DELETE are
  different keys of the queue, so two runners may hold them: the ARCHIVE, which
  has copied the store, empties it between the two, and the DELETE's copy, a
  mirror, empties the backup.  No fault is needed, and no mail is left.

`BackupStands` and `Restorable` therefore say nothing of an account of which an
ARCHIVE was queued beside the DELETE (`ArchiveQueued`): both runs above are ways
to lose a backup then.  `RecordedBeforeEmptied`, which is about rows and not
about what the backup holds, is claimed and proved for such accounts too.

Reading the model closely shows more that has no run:

* Archiving or deleting an account a second time mirrors the new store over the
  old backup: earlier archived mail is lost.  `MailKept` is therefore claimed
  for accounts whose DELETE starts without a backup, and without deliveries.
* Mail delivered between the backup and `mailbox-delete` is deleted with the
  folders, and mail delivered after it makes `maildir-home` fail until somebody
  removes it by hand.
* DELETE of an account that ARCHIVE has emptied is refused (`Probe`) until the
  backup is dropped.
* When `ensureDatabaseConnection` fails (line 518) after `stageAudit`, the audit
  row is committed together with FAILED, without its checkpoint, and the retry
  writes a second one: `DoneIsAudited` says at least one, not exactly one.
* A PRUNE in the drain that swept uses the autoprune flag the sweep loaded
  (lines 372-378): a flag cleared meanwhile is not seen.  `PruneAfterToggle`
  says what is left.
* A DELETE of a killed worker is abandoned and cannot be retried; only a new
  task, which plans anew, continues it.

### Bounds

Two messages: both in the store or not, or one that is delivered, or one that
is in an old backup, so that each of store, backup and neither can hold
different mail, and a folder can be half deleted.  One task of each type, as
`open_task` allows one open row of each; a failed one is retried any number of
times, so the first and the later attempts are both met.  An account starts
without a backup, or with that of an earlier archive.  Two errors and a death in
`Tasks` reach every checkpoint with a failure before and after it, and a second
failure on the retry; the larger instances have fewer faults.

A scene of `WebPages` leaves out what its question does not need.  Two workers
drain at once in "two runners", where ARCHIVE and DELETE, which have different
keys and so may overlap, meet; it has no errors, and starts without a backup.
The others have one drain at a time and one error.  Requests and deliveries are
in "archive pages" only.  Toggling the flag and expiry matter to who prunes, so
they are in "prune".  Each has one death.

`StoreEmptied` has the two runners and no faults.  It does without the pages,
so the operator does nothing to bring it about.

`Maintenance` does not check deadlock: when the archive of an account without
a mailbox row is gone and its task is settled, nothing is left to do.

### Fairness

`FairSpec`: drains are started again and again, a worker that is not killed
goes on, and a pending task is claimed if it is again and again possible (a
drain fetches all pending tasks, so strong fairness).  `Retry` and `Reap` are
fair too: the latter is part of each drain, the former is an operator who does
not give up.  `DeleteCompletes` is about that operator: errors are bounded, so
some attempt meets none, and what could still go wrong is that a checkpoint is
lost or the plan has a step that can never succeed.

### Proofs

`MailTaskProofs` proves for all messages, workers, requests, tasks and numbers
of faults, from the named assumptions of `MailTask` (types of tasks, delivered
and archived mail apart, workers and requests apart):

* `Inductive`: `Spec => []IInv`.  Its parts: `TypeOK`; `JobInv`, a worker's task
  is RUNNING and its own, so that nobody else moves its plan; `PlanInv`, the
  place of a worker agrees with the checkpoints of its plan; `RowInv`, the
  archive row is there once its step is checkpointed, and what makes it is
  staged when it is about to be; `AuditInv`, the same for the audit row.
* `TypeCorrect`: `TypeOK`, which needs `PlanInv`: a checkpoint stays within the
  plan only because a step begins with steps left.
* `RecordedFirst`: `RecordedBeforeEmptied`.  The argument: after the archive
  step was checkpointed the row can only go by a flush or a request that also
  drops the backup, and a flush of that checkpoint cannot lose the row, since
  the entity it updates is the row that is there, or it inserts one.
* `Audited`: `DoneIsAudited`.  The last step of both plans is the audit, and
  its row is in the flush of its own checkpoint.

* `PrunesToggled`: `Spec => PruneAfterToggle`.  `FlagInv`: an entity is loaded
  in the drain that uses it, and its flag was on at the time when it says so.

What is said of the mail itself is not true of every account, as the notes above
explain: an ARCHIVE mirrors the store over the backup a DELETE has made, and so
does a second DELETE, which plans anew.  The theorems about it therefore assume
`LoneDelete`, no task of type ARCHIVE and at most one of type DELETE; prunes,
workers, requests, retries, failures and deaths are as many as there may be.

* `MailInductive`: `MailInv`, which adds to `IInv` who copies and empties
  (`PlaceInv`), that what a DELETE copied is in the backup unless somebody
  dropped it, and in the store too until the archive row is checkpointed
  (`CopyInv`), and that a snapshot is recorded while the mailbox row it is of
  is there (`SnapInv`).
* `BackupKept`, `CanRestore`: `BackupStands` and `Restorable` from it.
* `NoMailLost`: `MailKept`, if moreover the account is `Undisturbed`: it has no
  DELETE, or mail is neither delivered nor archived before it and no archive
  page is used meanwhile.  A DELETE finds all mail in the store until it has its
  backup; from then on all of it is there (`StageInv`).  Without a DELETE, who
  cleans up after a restore has restored all that the backup holds
  (`CleanInv`).

The runs check `MailKept` in instances that meet both hypotheses (`Tasks`,
`Maintenance`).  `WebPages` has an ARCHIVE: its scenes without one move as an
account with `LoneDelete` does.  `ArchiveRetried`, `StoreEmptied` and
`DestinationProtected` show what happens beyond the hypotheses.

Only model-checked: `DeleteCompletes` (liveness).

## The gates: SettingGate, McpRateLimit, Throttle

### Correspondence

`WindowGate` is what a gate over time promises: a clock, a set of grants, and
no grant that would make more than `Limit` of them lie in the last `Span`
ticks.  Two modules implement it; in both, a call reads `time()` first and is
let through later.

| variable | `SettingGate` (`Setting.php`) | `McpRateLimit` (`RateLimit.php`) |
|----------|-------------------------------|----------------------------------|
| `clock` | the wall clock | the same |
| `pc` | before, at and after the UPDATE and the INSERT IGNORE | before, under and after the `flock` |
| `stamp` | `$now` | `$now` |
| `value`, `hits` | `setting.value`, absent or a time | the calls whose times are in the file |
| `lock`, `kept` | | holder of the sidecar's lock, and what it read |
| `at` | history: when the call was let through | the same |

`SettingGate`: `Call`, `Update` or `UpdateMisses`, `Insert` or
`InsertIgnored`, and `Fails`, before a statement takes effect or after.
`McpRateLimit`: `Call`, `Lock`, `Refuse` or `Record`, `Return`, and `Fails`,
which is a denial (503) or a death; `lost` calls wrote their time and never
ran.

A call may wait for the lock, or between its statements, for any time, and then
judges by an old `$now`.  What can be promised is about the calls that are
`Prompt`, let through within `Delay` of their `time()`: at most `Max` of them
in any `Window - Delay` ticks for the limiter, and one in `Window - Delay + 1`
for the setting, whose comparison is strict.

`Throttle` is the throttle of failed logins: `file` is the record of each
prefix (attempts, age of the first and last failure, ticks left of the lock),
`Post`, `AssertNotLocked`, `Verify`, `Clear`, `Save` are the request, and
`StartSweep`, `JudgeStale`, `JudgeExcess`, `Unlink`, `EndStale`, `EndSweep` the
reaper, which runs inside a request that counts a failure.  The login page
counts before it looks at the password, the TOTP page neither asks whether the
source is locked nor counts before the code was wrong, and the password page
checks first and counts after.  Which directory shard, when a sweep is due and
in what order it evicts are left open; `over` is how many records it has still
to evict.

### Runs

`Gates` checks all three, each on its own:

* `GatesTypeOK`.
* `ImplementsGate`, `OnePerInterval`: `McpRateLimit` and `SettingGate` refine
  `WindowGate`.  `OnlyRefusedWhenFull`: a slot comes back; a refused call met
  `Max` times in the file, each of a call that ran or died after it wrote.
* `FewVerifiedUnderLock`: check and count are separate critical sections, so
  parallel attempts pass the check before any is counted.  There are never more
  of them than workers, however the lock is prolonged.
* `LockStands`: a lock ends before its time only when a login or code succeeds,
  or by a sweep that had judged the file before its last failure was counted:
  `_reapFile` and `_evictOverflow` unlink by name without the record's lock, so
  a record that was rewritten after the decision goes too.
* `LockEnds`: a source that keeps trying is let in again, because a refused
  login is not counted; only failing codes on the TOTP page, which has no check
  before it counts, can prolong a lock for ever.

### Bounds and fairness

Three calls with `Max` = 2: one too many for the window.  `Window` = 3 and
`Delay` = 1 leave `Span` = 2 and 3, both longer than one tick; `MaxClock` = 5
lets a first call fall out of the window of a last one.  Two attempts lock, three workers are
one more than that; the window is shorter than the lockout, so that a counter
can restart under a lock; one more record of another prefix and `MaxEntries` =
1 make the eviction happen.  Ages saturate at one past the reaper's cutoff.

The only fairness is that the clock runs.  The run does not check deadlock:
each call is made once and the clock of the two gates is bounded.

### Proofs

For all calls, windows, delays, limits, prefixes and workers, from the named
assumptions of `GateBounds`, `McpRateLimit` and `Throttle` (finitely many calls,
prefixes and workers; `Window`, `Max` and `MaxAttempts` positive).  `GateProofs` has the two
gates over the clock:

* `SettingInductive` (a claim is never ahead of the row), `SettingGateHolds` for
  the instance alone and `OncePerInterval`: `GatesSpec => OnePerInterval`.  A
  claim needs the row older than its cutoff, every earlier claim is at or before
  the row, and a prompt one was made at most `Delay` after its `$now`.
* `McpInductive` (what the holder read is what the file still has; a time that
  was dropped is older than the window), `McpGateHolds`: `Spec =>
  ImplementsGate`, and `RefusedWhenFull`: `Spec => OnlyRefusedWhenFull`.  The
  prompt grants of the last `Span` ticks are all among what the holder kept, of
  which there are fewer than `Max`.
* `GatesTyped`: the types of all three.

`ThrottleProofs` has the throttle:

* `LockCounted`: while a prefix is locked, the attempts verified under this lock
  and those that have passed the check and not been verified yet are together no
  more than the workers (`LockCount`): a lock begins with none verified, each
  attempt that is verified moves from the one to the other, and nobody passes
  the check under a lock.  `FewVerified`: `FewVerifiedUnderLock` from it.
* `LockLasts`: `ThrottleSpec => LockStands`.  A record which a sweep has judged,
  and in which no failure was counted since, is not locked (`JudgedUnlocked`);
  so that what a sweep unlinks is a lock only if it was written after the
  judgement.

Only model-checked: `LockEnds` (liveness).

## Accounts

### Correspondence

| variable | code |
|----------|------|
| `rows`, `active`, `super`, `born` | the rows of `admin` and their flags; a purged id is not used again |
| `pw` | `admin.password`: which password it is of, and whether the hash is current |
| `pref` | the `admin_pref` rows of the second factor: secret, backup codes, last slice, `force` |
| `identity`, `pending`, `verified` | the session: logged-in admin, `totp_pending_admin_id`, `totp_verified` |
| `req` | the request a browser runs: what it is, and what it has read |
| `slice` | the TOTP time slice |
| `minted`, `calls` | bounds: sets of secrets and codes made, requests made |
| `used`, `enrolledBy`, `shown`, `adrift` | history, for the properties only: `used` what the stored secret's codes were accepted for, `enrolledBy` the code that stored the secret |

A request begins (`BeginLogin`, `BeginSecond`, `BeginOwn`, `BeginOther`,
`BeginAdd`, `BeginSetup`), reads its target's row and preferences (`Read`),
verifies a code where it asks for one and ends in one flush: `Park`
or `Grant` for a password login, `PassTotp`, `PassTotpUnsaved` and `PassEnrol`
for a parked one, and one action per page for the rest.  `Verify` is a code of
the secret the request has read, newer than the last accepted one, or a backup
code; `VerifyNew` is the code that completes an enrolment, of the secret in the
session, with no look at any last slice.  `Rehash` is the
compare-and-swap of a login, `Recover` what `twofactor.force_disable` wipes,
`Abandon` and `Logout` end sessions, `Fails` is every other end.  Two requests
of one browser do not overlap: PHP locks the session.

Choices worth knowing:

* A flush writes what differs from what was read, by the id of the row, and
  violates the unique index when it inserts what another has inserted
  (`Changed`, `Merged`, `Accepted`).  A row that was overwritten is noted in
  `stale`, one that was deleted in `gone`.
* `completeLogin` puts the identity into the session before the flush, so a
  login outlives a flush that fails (`PassTotpUnsaved`).

### Runs

| run | shows |
|-----|-------|
| `Accounts` | `TypeOK`; `OneUse`, what a login or a page has accepted as a code of the stored secret is not accepted again, and `CodesStand`, the backup codes shown last are those that work, both unless a request wrote over what it had not read; `PasswordIsNotEnough`, a password alone logs in nobody with a second factor or a forced one, whatever an earlier login left in the session; `LastSuperStays`; `PasswordStands` |
| `SetupOnce` | violated: two setups make two super admins |
| `FactorSkipped` | violated: an administrator with a secret is logged in by enrolling another |
| `EnrolmentCode` | violated: the code that completed an enrolment is accepted a second time |

The reservations of `OneUse` and `CodesStand` are the code's: nothing locks the
preferences of an administrator, so two requests that read the same list accept
the same code twice and the second writes back what the first had taken out.
Backup codes are otherwise used once; a TOTP code is, from its first use at the
login or a page on.

The three violated properties are sentences of the repository:

* `SetupOnce`: the setup page *"only runs when there are zero admins and nobody
  is logged in"* (`AuthController.php:298-299`).  It counts, and inserts in a
  later flush; two of them that overlap both insert.
* `NoFactorSkipped`: the login of *"an enabled 2FA admin"* is completed *"only
  once a valid TOTP (or a one-time backup) code is supplied"*
  (`AuthController.php:385-387`), and `totpSetupAction` is the *"forced first-time
  2FA enrolment"* (`AuthController.php:439`).  The action takes any parked
  login and never asks `isEnabled` (447-509): whoever has given the password of
  an administrator with a secret may open it instead of the page that asks for
  a code, enrol a new secret, and be logged in.  `PasswordIsNotEnough` is what
  is left: some code of the parked administrator was given, of the secret there
  was or of one just made.
* `SliceOnce`: *"a given time-slice can only be used once"*
  (`TwoFactor.php:229-230`).  An enrolment is completed by `verifyCode`
  (`AuthController.php:485-492`, `AdminController.php:253-265`), and `enable`
  writes no last slice (`TwoFactor.php:151-155`): the code is accepted once more
  while its window is open, with no write lost and no request overlapping.

Noted without a run: the comment at `AuthController.php:493-496` expects that a
deactivation between the two factors is seen, which is true of one before the
request begins, as the entity is not read again.

### Bounds

Two administrators and two browsers, three requests: a request that reads, one
that overtakes it, and one before or after.  Two slices, so that a code is
replayed in its slice and in the next.  One backup code per set, two sets.  One
new password.  Both administrators start with a second factor or neither exists
(setup); one is named by `twofactor.force_disable`.  Deadlock is not checked:
requests are bounded.

### Proofs

`AccountsProofs`, for all administrators, browsers and bounds, from
`NoAdminIsFresh`, `NullIsFresh` (no row is told apart from every value a row may
hold) and `BoundsAreNumbers`: `TypeCorrect`, `CodesUsedOnce` (`Spec =>
[]OneUse`), `ShownCodesWork` (`CodesStand`), `MoreThanAPassword`
(`PasswordIsNotEnough`), `SuperStays` (`LastSuperStays`) and `PasswordsStand` (`PasswordStands`).

None of the two invariants is inductive, because a request acts on what it has
read earlier.  `IInv` says of each request that has read: what it has read is
what there is, save for the attributes in `stale` (`Aware`); what was used since
is not in it, unless it is stale (`Unused`); and the code it was given fits what
it has read (`Given`).  Of each record that nobody wrote over (`AdminOK`), the
codes are those shown less those used, and the last slice stands above all used
ones.  The argument has two halves.  `OthersKeep`: a flush that uses up a code
changes the attribute the code was in, so every other request that has read it
learns that it is stale.  `FlushKeeps`: a flush that writes nothing over
(`FlushIsSound`) does what its request wanted; per action it remains to show
that this leaves the record consistent (`Fits`).

Only model-checked: nothing of the run `Accounts`.  That setup runs once, that
an enrolment skips nobody's second factor and that its code is used up are
refuted, not proved.

## Directory

### Correspondence

| variable | code |
|----------|------|
| `mailboxes` | the rows of `mailbox` of one domain |
| `goto`, `on` | `alias.goto` of each address, empty when there is no alias; the active ones |
| `mcount`, `acount` | `domain.mailbox_count`, `domain.alias_count` |
| `req` | each request: what it is about, what it has read, its unit of work |
| `calls`, `lost` | bound; history: counters written over, and miscounts |

`Begin*` reads the row a request is about, or the domain when it creates one;
`AddMailbox`, `RemoveMailbox`, `AddAlias`, `EditAlias`, `ToggleAlias`,
`RemoveAlias` and `Detach` read the rest and decide on a unit of work;
`FlushWork` carries it out; `Required` is the plugin's `addPostflush`, which
inserts the missing automatic aliases in a second unit; `RequestFails` is every
other end.  `EditMailbox` changes nothing that is modelled, but the page fires
the same `addPostflush` as the one that adds (`MailboxController.php:878-884`),
so it may insert automatic aliases.  The operations differ by their source:
`box-add`, `box-edit`, `alias-add`, `alias-edit`, `alias-toggle`,
`alias-delete`, `detach` and `box-purge` are web pages,
`box-create`, `alias-create`, `alias-drop` are MCP's, `box-delete` is MCP's and
the DELETE task's, `restore` the archive page's.

Choices worth knowing: a counter is written as the request computed it, and
only if it changed (Doctrine's change set), so an update is lost when two
requests read the same value.  A row is updated and deleted by its id: one that
is gone stays gone (`gone`, `boxGone`), though another may have its address.

### Runs

The scene "directory" of `WebPages`: `DirectoryTypeOK`; `MailboxCountRight` and
`AliasCountRight`, a counter is the number of rows until an update of it is
lost (`lost`); `LimitKept`, an admin who is held to the allowance gets past it
only by a lost update; `GuardStands`, deleting, disabling or purging on the web
leaves every automatic alias answered that was.

What the reservations stand for, none of it contradicted by a property:

* MCP counts the self-alias of a mailbox it creates (`McpController.php:352`),
  which the web pages do not (`Service/Alias.php:145`: a self-alias *"does not
  count"*); MCP's delete takes it off again whatever it was.  An edit that
  makes an ordinary alias a self-alias, or the reverse, leaves the count.
* `GuardStands`: an active domain alias excuses the purge of any mailbox, also
  of the one it leads to, which takes the domain alias with it.  `detach` and
  MCP have no hook at all.

### Bounds

One user, one required alias, the domain's alias; two requests that overlap in
any way, each with every operation on every address; allowances of one.  Two
requests suffice for a lost update, and the initial states hold every small
set of rows, so that a longer history would lead to states which are initial
ones, or have wrong counters.  The exception are aliases that lead to an
automatic address: there are none at first, and a request has to make them.
Deadlock is not checked: requests are bounded.

### Proofs

`DirectoryProofs`, for all users, requests and limits, from
`AutomaticAreUsers` and `FinitelyMany`: `Inductive`, `CountRight` (`Spec =>
[]MailboxCountRight`) and `AllowanceHolds` (`Spec => LimitKept`).  The
strengthening is `Sound`, request by request: what its unit of work does to the
counter is what it does to the rows, the mailbox it is about to delete is there
or known to be gone, and who is held to the allowance has read a count below
it.  A flush that is no lost update then changes both alike.

The aliases need more, as a unit of work inserts, updates and deletes several of
them, and those with the mailbox's own address are not counted.
`AliasInductive` is `Fits`, request by request: the alias a request has read
(`RowStands`) and the rows its unit of work deletes or updates (`WorkFits`) are
there or known to be gone, those it updates stay self-aliases or not, and the
counter it will write differs from the one it read as the ordinary aliases will,
unless the request slips or loses an update.  A flush of another request keeps
this because the rows it deletes become known to be gone.  `AliasesCounted`
(`AliasCountRight`) and `DirectoryTyped` (`DirectoryTypeOK`) follow.

`AutomaticStayAnswered` (`Spec => GuardStands`) uses a further part of `Fits`:
the condition the hook has asked for stands until another request changes an
alias (`Guarded`), since nothing else changes `goto` or `on`.

Only model-checked: nothing of `Directory`.

## OrphanBackup

### Correspondence

| variable | code |
|----------|------|
| `store`, `home` | mail left in each maildir; the maildirs there are |
| `row` | the mailbox row: none, an account's, or the task a temporary one names |
| `dom`, `doms`, `domLog` | the domain row by its id, the last id given, whether a `log` row refers to it |
| `arch`, `st` | users with an archive row; the status of each task |
| `batch`, `task`, `pc` | each runner: tasks fetched, the one in hand, where it is |
| `own`, `ref`, `made` | `$tempId` is known; the domain in the task; `$tempDomainId` |
| `staged`, `closed`, `bad` | the archive row to flush; EntityManager closed; the task has failed |
| `had`, `taken`, `lost` | history, for the properties only |

`Start` is the sweep of leftovers and the fetch, `Claim` to `Leave` the drain,
`Check`, `FindDomain`, `MakeDomain`, `InsertRow`, `Probe`, `Copy`, `Empty`,
`RemoveHome`, `Audit` the backup, `Tidy` and `Undomain` its `finally`,
`Publish` and `Unpublished` the end.  `Create`, `Take` and `AddDomain` are an
operator who makes an account, one out of a temporary row, or the domain.  Raw
SQL takes effect at once, what is persisted waits for a flush: the order of the
two is what this module is about.

### Runs

`Maintenance` checks it beside the PRUNE of `MailTask`: `Findable`,
`AccountStands`, and with fairness `TempGoes`.  `Findable` names what may
leave mail in the backup without an archive row that leads to it (`lost`):

* the row is only persisted when the store is emptied, and flushed in
  `logAudit`: a death or a failed flush in between;
* another task's end drops the domain under a row that is staged.

Noted without a run: `logAudit`'s own row refers to the transient domain, so
that `$conn->delete('domain')` fails in the path of an empty skeleton, where
the comment says *"only the empty-skeleton path (no archive) drops it again"*;
a retry after a swallowed, partial `mailboxDelete` mirrors the half-empty store
over the backup; a transient domain stays after a death.

### Bounds and fairness

One user, two tasks (one after the other, or a retry), two drains, two
messages so that a store may be half empty, ids for three domains, one failure
and one death.  Fair are the start of drains, their steps and the reaper.

### Proofs

`OrphanBackupProofs`, for all users, tasks, runners and bounds, from
`TasksOfUsers` (each task has a user), `NoneIsTask` (`NoTask`, `NoRow` and
`Real` are no tasks) and `OrphanBounds`: `MailIsFound` (`Spec => []Findable`),
`AccountsStand` (`Spec => AccountStands`) and `OrphanTyped` (`TypeOK`).  The
strengthening is `RunnerOK`: a runner that knows of a temporary row holds a
RUNNING task, so that no sweep takes the row (`Swept`); from its insertion to
`Tidy` the row names its task, or an operator has made an account of it
(`RowStands`); a row keeps its domain from being dropped (`RowsNeedDomain`); and
an archive row that can no longer be flushed is one counted as `lost`.  Tasks
are held by one runner each (`Distinct`), so that `Tidy` of one takes no row of
another.

`MailKeptBeside` (`BothSpec => []MailKept`) is `NoMailLost` for the account
beside it, whose tasks are prunes (`PrunesOnly`), in the very composition that
the run checks.

Only model-checked: `TempGoes` (liveness).

## ListPage

### Correspondence

| variable | code |
|----------|------|
| `active`, `foreign` | the row's column on the server; toggles by others (bound) |
| `iDraw`, `search`, `lists` | DataTables' `iDraw`, its search, its request for each draw |
| `drawn`, `shown` | the draw the rows on the page are of, and its search |
| `cls`, `disabled`, `handlers` | the toggle: `btn-success`, `btn-danger` or neither; its property; the handlers bound to the element |
| `posts` | the toggle requests: the element they are of, what was asked for, whether an answer is awaited |
| `unseen` | history: the row was changed and the page was not told |

`Search`, `Redraw`, `Answer` and `ListFails` are the table; `Click`,
`ToggleAnswered` and `Timeout` are `ossToggle` and its handlers; `ServeList`, `Serve`, `Flip`
and `Refuse` the server, which handles one request of a session at a time;
`Foreign` somebody else, `Reload` the page anew.  A click runs the handlers of
the element before the delegated one; jQuery runs no delegated handler on a
disabled element, which is what keeps a button that has gathered handlers from
posting twice.

### Runs

`WebPages` checks it beside `MailTask` and `Directory`: `PageTrue`, that is
its type, `OneRequestEach` (one request under way per element), `SearchShown`
(the search that was answered last is shown) and `LabelTrue` (a label at rest is
what the server has, unless the page was not told).

Noted without a run: the admin list uses the value `ossToggle` returns at once
(`admin/js/list.js:34`), so the link to the domains follows what was asked for,
also when it is refused.

### Bounds

Two searches, one of them too short to be sent; three draws, so that an answer
is overtaken twice; two toggles per page, which `Reload` starts again; one by
somebody else.  The same holds with four searches and three toggles, an
instance too large for a run that is repeated.

### Proofs

`ListPageProofs`, for all searches, draws, clicks and toggles by others, from
`KindsOfSearch` (`All` is a search; one too short to be sent is
none that matches the row) and `PageBounds`: `PageIsTrue`, `PageSpec => []PageTrue`.  The
inductive invariant `PageInv` has four parts:

* the types (`PageTyped`);
* `TableOK`: the last draw is of the search that was entered last, none later
  was asked for, and the rows shown were answered; so that an answer which is
  taken is newer than all taken before it;
* `AnswersTrue`: a list on its way that no change of the row has outdated says
  what the row is;
* `Truthful`, of the toggle: a request for the element on the page leaves it
  disabled, without label and without handlers of its own (`ToggleOK`), which is
  why there is no second one; until it is served it asks for what the row is
  not, and its answer then says what the row is (`RequestsTrue`), unless the row
  was changed and the page not told.

A request for an element that a redraw has replaced touches nothing of the new
one, as its own is of an earlier draw.

Only model-checked: nothing of `ListPage`.

## Not modelled

* Of the queue: the remote trigger endpoint's key and address checks, the log
  text of a task, and the `started_at`/`finished_at` times.  The order of equal
  priorities (by id) is left open, and so is the 8 h gate of the sweep:
  `TaskQueue` and `MailTask` may sweep at every drain; `SettingGate` is that
  gate.
* Of task execution: MEASURE_SIZE, REPAIR, optimize and quota tasks, which
  change sizes and indexes only.
* Of archives: the repair a restore queues; of logins: the captcha, the mailing
  of reset tokens, and remember-me tokens, which nothing in this code issues.
  Of administrators: the assignment of domains.
* Of the directory: what edits change of quotas, names and passwords, and the purge of a
  whole domain.  Of MCP: tokens and scopes, checks within one request.
* The other plugins, which add form fields to the rows of a flush; the schema
  upgrade; the kernel; logs, version check, Dovecot helpers and demo data.
* The vendored browser libraries (jQuery, DataTables, Bootstrap, validation,
  dialogs and the minified bundle), except for the functions that `ListPage`
  runs through.  They are most of the repository's JavaScript and none of its
  logic, which is PHP: that is where the definitions of the modules point.
