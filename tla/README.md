# Verification of go-gaze

TLA+ models of the file watcher in this repository, the TLC runs that check
them on small instances, and the theorems about them that TLAPS proves.

Paths are relative to the repository's source (`src/`).  The code is the
reference: where a comment or a page of the documentation says something else,
the model follows the code and section 6 lists the difference.

Contents: 1 the system and its parts, 2 the modules, 3 the correspondence to the
code, 4 the runs, 5 fairness, 6 disagreements between code and documentation,
7 the proofs, 8 what is not modelled, 9 the plan.

## 1. The system

go-gaze watches files and directories.  A program makes a `Watcher`, adds roots
and gets events through the callback `OnEvent` and errors through `OnError`.

```
 callers            runBackend goroutine                 runEvents goroutine
 Add Remove Close   +----------------------------+       +-------------------+
   |     |     |    | select events / errors     |       | queue.Pop         |
   v     v     |    |  rename: index.MovePrefix  |       |  OnEvent(evt)     |
 +-----------+ |    |  index.Matches, filters ---+-Push->|  recover a panic  |
 | tree.Index|<-----+  OnError(err)              | queue |                   |
 +-----------+ |    +----^-----------------^-----+       +-------------------+
   |     |     v         | events channel  | errors channel
 +----------------------------------------------+
 | backend.Watcher: roots, watches, run() <--- kernel
 +----------------------------------------------+
```

| Component | State it keeps | Operations | Who calls it |
|---|---|---|---|
| Watcher (`watcher.go`) | `closed`, `closeOnce`, `closeErr`, `backendDone`, `done` | `Add`, `Remove`, `Close`, `runBackend`, `runEvents` | any goroutine of the program; the callbacks too |
| Root index (`internal/tree/index.go`) | the map of roots, three lookup sets derived from it | `Add`, `Remove`, `MovePrefix`, `Matches`, each under one mutex | callers write it, `runBackend` moves and reads it |
| Event queue (`internal/queue/queue.go`) | a bounded channel, the atomic flag, the `done` channel | `Push`, `Pop`, `Close` | `runBackend` pushes and closes, `runEvents` pops |
| Path arithmetic (`internal/utils/path.go`) | none | `HasPathPrefix`, `JoinMovedPath`, `ParentDir` | index and backends |
| Backend interface (`internal/backend/backend.go`) | a registry of roots, two channels | `Add`, `Remove`, `Close`, `Events`, `Errors` | the watcher |
| Linux backend (`backend_linux.go`, `helpers.go`) | `roots`, `rootDirs`, `watched`, `wdToPath`, pending renames, the inotify descriptor | `Add`, `Remove`, `Close`, `run()` | the watcher; the kernel through inotify |
| macOS backend (`backend_darwin.go`) | `roots`, `rootNodes`, `watched`, `fdToPath`, `snapshots`, pooled maps, the kqueue | the same, with `run()` on kqueue; `rescanDir` compares directories with their snapshots | the watcher |
| Windows backend (`backend_windows.go`) | `roots`, a handle and a goroutine `runRoot` per root | the same, with ReadDirectoryChangesW | the watcher |
| Exclude matcher (`internal/filter/matcher.go`) | the prepared patterns | `Match` | `Add`, the walks, `runBackend` |
| Configuration and types (`config.go`, `types.go`) | none after construction | `resolveConfig`, the operation mask | the constructors |

How they interact.  A caller's `Add` writes the index and then the backend, in two
critical sections, and takes the index entry back if the backend refuses.
`Remove` takes the root from the index and then from the backend.  The backend's
goroutine sends what it observes on a buffered channel and blocks when it is
full; `runBackend` lets the index follow a rename, asks it whether anyone watches
the path, applies the operation mask and the filters, and pushes to the queue,
where it blocks when the queue is full; `runEvents` pops and calls `OnEvent`.
`Close` stops the stages in the order of the arrows and waits for each.

What is hard here, and what has to hold:

- **Shutdown.**  Four goroutines and three bounded channels have to end in order,
  each possibly blocked on the next, with overlapping `Close` calls.  A returned
  `Close` means that nothing runs or waits any more; all of them return the
  same error; all of them return.
- **Delivery.**  Backpressure from a slow `OnEvent` reaches the kernel.  On the way no
  accepted event may be lost, doubled or reordered, and no overflow dropped.
- **Two registries of roots**, the index and the backend's, written separately by calls
  that overlap and by renames.  At rest they agree.
- **The index** answers from derived sets and rewrites itself on renames, in
  the random order of Go's maps.  It must answer what its roots mean.
- **The Linux backend** has three tables over the same facts, walks that enrol
  directories one lock at a time while roots come and go, and a kernel queue that
  tells of the disk as it was some time ago.  The tables agree, no watch leaks,
  and at rest the watches and the reports are true.
- **The macOS backend** learns of what was made and removed only by comparing a directory with
  its snapshot, outside the lock, while callers remove the very nodes and snapshots it compares.
  No descriptor leaks, no node is left that no root can release, nobody else touches a snapshot in
  use, and at rest watches and reports are true.
- **The Windows backend** closes handles, which are numbers that are used again, while their
  goroutines may be about to read.  Every handle is closed once, nothing is sent on a closed
  channel, what is sent is the history of the directory or an overflow, and `Close` returns.
- **Stale knowledge**: an event's descriptor is looked up after the directory was
  renamed, removed, or removed and made again.

`PROJECT.json` lists each hazard at its line with the properties that would catch it.

## 2. The modules

| Module | What it is |
|---|---|
| `Paths` | clean absolute paths as sequences of components, and `utils/path.go` on them |
| `RootIndex` | the index; each operation an operator from index to index |
| `IndexChecks` | every sequence of Add, Remove and renames over a bounded tree |
| `EventQueue` | the queue, split where another goroutine can step in |
| `QueueClients` | pushers, poppers and closers of one queue |
| `Driver` | the backend as the watcher sees it; what it observes is left open |
| `Watcher` | **the composition**: callers, callbacks, `runBackend`, `runEvents` over `RootIndex`, `EventQueue` and `Driver` |
| `EventDelivery` | abstract specification of what the watcher promises about events |
| `WatcherProperties`, `MCWatcher` | what must hold of the watcher; its instances for TLC |
| `Inotify` | the disk and the inotify instance (external: the kernel) |
| `LinuxBackend` | `backend_linux.go` and the walk of `helpers.go` over `Inotify` |
| `LinuxProperties`, `MCLinux` | what must hold of the Linux backend; its instances |
| `BackendContract` | abstract specification of `backend.Watcher`: registration, the channel, its end |
| `DirectoryChanges` | the disk, handles and ReadDirectoryChangesW (external: Windows) |
| `WindowsBackend` | `backend_windows.go` over `DirectoryChanges` |
| `WindowsProperties`, `MCWindows` | what must hold of the Windows backend; its instances |
| `Kqueue` | the disk, descriptors and the kqueue (external: macOS) |
| `DarwinBackend` | `backend_darwin.go` and the walk of `helpers.go` over `Kqueue` |
| `DarwinProperties`, `MCDarwin` | what must hold of the macOS backend; its instances |
| `RootIndexProofs` | lemmas on paths and on the operators of the index |
| `IndexProofs`, `QueueProofs` | theorems about `IndexChecks` and `QueueClients` |
| `WatcherProofs` | theorems about `Watcher`: shutdown, and the refinement of `EventDelivery` |
| `DriverProofs` | theorems about `Watcher`: types, and that the backend in it keeps `BackendContract` |
| `WindowsProofs`, `LinuxProofs`, `DarwinProofs` | theorems about the three backends: types, tables, handles and descriptors; for Windows also the contract, losses and reports |

`BackendContract` stands between the two levels: `Watcher` is checked and proved over `Driver`, which
leaves open what a backend observes, and `Driver` in it keeps the contract; so does the real
Windows backend.  The contract says what a user of the interface may rely on: registration ends with `Close`, the
channel stays within its capacity and is closed once, after the last send.

A mutant, a definition named `Mutant...`, stands before the definition it alters: a
plausible mistake in that code, used to make sure a property can fail.  No specification
reaches one.

## 3. Correspondence to the code

**What a step is.**  As a rule one critical section, one atomic access, one channel operation or
one system call, with the computation up to the next one.  Code between two such points touches
only the goroutine's own variables, so nobody can see it half done.  Where `handle()` of the Linux backend looks a
descriptor up, unlocks, and goes on with nothing that another goroutine reads or writes (the map of pending renames, the
event it is about to send), lookup and continuation are one step; where it goes on with the tables (a walk, a removed
prefix, a dropped watch) they are two or more.  `Inotify` makes a change on disk, with its effect on watches and queue, one
step, and `AddDirWatch` the system call made under the lock part of that critical section.

**Paths** are sequences of components, `/` the empty one, because every path the
code compares is clean and absolute (`normalizePath`).  `HasPathPrefix` keeps the
code's oddity that `/` has nothing below it, `ParentDir` that the parent of `/` is `/`.

**RootIndex.**  An index is a record of `roots` and the three lookup sets of `rebuild()`.
`Matches` reads only the sets.  `MovePrefix` is a *set* of results: where two
moved roots land on one path the code keeps the one its map iteration visits last.

**EventQueue.**  `Push` is the load of the flag (`PushRefusedByFlag`) and the select
(`PushSend` or `PushAbort`, whichever is ready, either if both are).  `Pop` is
`PopValue` or `PopEnd`, the latter only with the channel drained and `done`
closed.  `Close` is `CloseSetFlag` and then `CloseDone`.  A capacity of zero gives
a buffer of one, as `queue.New` does.

**Driver.**  `drvPc` is the control of `run()`: reading, holding an observed event
(`emit`), and the three closes of its deferred function one by one.  It may
observe any event of `Events` at any time; it blocks on a full events channel
and drops errors beyond the buffer, as `emitError` does.  `Add` has the two phases
it has in the code, registration and enrolment, with the cleanup of a failed
enrolment as a step of its own.

**Watcher.**  `pc[t]` names the next point of thread `t`.

| Code | Actions |
|---|---|
| `Add` up to `index.Add`, with `prepareTarget` | `AddRejected`, `AddBegin` (what `lstat` and the symlink give is chosen from `Lookups`) |
| `index.Add`, `driver.Add`, rollback | `AddToIndex`; `AddRegister`, `AddDuplicate`, `AddClosed`, `AddEnrolled`, `AddEnrollFails`, `AddCleanup`; `AddRollback` |
| `Remove` | `RemoveRejected`, `RemoveBegin`, `RemoveFromIndex`, `RemoveNotIndexed`, `RemoveFromDriver`, `RemoveNotRegistered` |
| `Close` | `CloseBegin` (who gets `closeOnce`), `CloseFlag`, `CloseDriver`, `CloseStopped`, `CloseBackend`, `CloseEvents`, `CloseReturn` |
| `runBackend` | `SelectEvent`, `SelectEventsEnd`, `SelectError`, `SelectErrorsEnd`, `OnErrorReturns`, `BackendLoopEnds`, `BackendQueueFlag`, `BackendQueueDone`, `BackendExits` |
| `handleBackendEvent` | `HandleMove`, `HandleMatch`, `HandleMatchOld`, `HandlePush`, `HandlePushSelect` |
| `runEvents`, `dispatchEvent` | `EventsPop`, `OnEventReturns`, `OnEventPanics`, `ReportReturns`, `EventsEnd`, `EventsExit` |

A callback may call `Add`, `Remove` or `Close` once (`MayCall`), in its own goroutine.
`delivered`, `emitted`, `closeRes`, `granted` and `missed` record what has happened;
no guard reads them except the bound on `emitted`.

**LinuxBackend.**  Variables carry the names of `linuxWatcher`'s fields.

| Code | Actions |
|---|---|
| `Add` | `AddRegister` (with the start of the walk), `AddDone`, `AddCleanup` |
| `walkPath`, `addDir` | `WalkExcluded`, `AddDirOrphan`, `AddDirShared`, `AddDirWatch`, `AddDirFails`, `ReadDir`, `ReadDirFails`, for a caller and for `run()` alike |
| `Remove` | `RemoveRoot` (`ForgetRoot` is its body) |
| `Close` | `CloseFlag`, `CloseDescriptor` |
| `run`, `flushPending` | `FlushPending`, `Read`, `BufferDone`, `RunExits`, `Emit` |
| `handle` | `HandleUnknown`, `HandleOverflow`, `HandleMovedFrom`, `HandleContent`, `HandleAppeared` with `SnapshotRoots`, `WalkNextRoot`, `WalksDone`, `RenameWatched`, `Report`; `HandleGone` with `UnwatchGone` (`removeWatchedPrefix`), `ReportGone`; `HandleIgnored` with `DropWatch` (`dropWatch`) |

`HandleAppeared` is `IN_CREATE` and `IN_MOVED_TO`.  Which pending renames are older than
the 250 ms of the code is left open: `FlushPending` may take any of them.  `said`, `astray` and `lost` record what has
happened: the last report about each path; the descriptors that `dropWatch` has left without a node; the directories that a
root has lost, with the cause.  No guard reads them.

**Inotify** is the kernel as far as the backend sees it: a watch belongs to an inode and
keeps its descriptor, descriptors are not reused, the queue is bounded and ends in
one overflow, an event equal to the last one is merged.  The disk changes between
any two steps of the backend.

**WindowsBackend.**  Variables carry the names of `windowsWatcher`'s fields; `runPc[k]`, `buf[k]` and
`pendingOld[k]` are the locals of the `runRoot` of the k-th root.

| Code | Actions |
|---|---|
| `Add` | `AddOpen` (the handle, the root and its goroutine, under the lock), `AddReturns` (`<-root.ready`; `mu` is held until then) |
| `Remove` | `RemoveTake` under the lock, `HandleClosed` after it |
| `Close` | `CloseTake`, `HandleClosed` for one handle after the other, `CloseEnds` (`wg.Wait` and the closes of the channels) |
| `runRoot` | `RunStarts`, `ReadBegins`, `ReadRefused`, `ReadReturns`, `ReadFails`, `RunEnds`, `EmitOverflow`, `KeepOldName`, `EmitRecord` |

**DirectoryChanges.**  A handle is a number, an open file object what it names; `CreateFile` may give a
closed number again.  An object records from its first read on, in a buffer that, once full, loses all.  A
rename is two records with anything between them.

**DarwinBackend.**  Variables carry the names of `darwinWatcher`'s fields; those of a walk, of `addPath` and of
`rescanDir` are their locals.

| Code | Actions |
|---|---|
| `Add`, `enrollDirectoryTarget` | `AddRegister` (with the start of the walk), `AddReturns`, `AddCleanup` |
| `walkPath`, `os.ReadDir` | `Lstat`, `WalkExcluded`, `ReadDir`, for a caller and for `run()` alike |
| `addPath` | `AddNothing`, `AddShared`, `AddOpens` (open), `AddArm` (EV_ADD), `AddFails`, and its second critical section `EnterOrphan`, `EnterShared`, `EnterNew` |
| `Remove`, `Close` | `RemoveRoot`; `CloseBegins`, `CloseReturns` |
| `run`, `handle` | `Wait` (a batch), `Exit`, `HandleUnknown`, `HandleChanged`, `HandleGone` and then `RemoveGone` |
| `rescanDir` | `RescanSkips`, `RescanBegins` (under the lock), `RescanReads`, `RescanRename`, `RescanRemove`, `RescanCreate` with `EnrollFor` and `Enrolled`, `RescanEnds` |

The pool of maps is not a variable: that a snapshot in use was cleared and pooled is the mishap "torn", after
which what `rescanDir` reads of it is either the old snapshot or nothing.  Snapshots are
keyed by the entry's name and not by its path, as in the code: a snapshot that `renamePrefix` carries along stays true.  `said`, `mishaps`
and `blurred` record what has happened; only "torn" is read by an action, `RescanReads`.

**Kqueue.**  A descriptor is the lowest free number, as POSIX says, and holds an inode.  Notes add up on a descriptor until
`kevent` returns them all as a batch; closing a descriptor takes its notes along, but not what is in the batch.

## 4. The runs

Each passing run is complete: TLC exhausts the instance.

| Run | Instance | What it shows |
|---|---|---|
| `IndexChecks` | two names, depth two, up to three roots of three kinds, every rename in the tree | `MatchesIsCoverage`, `KeysArePaths`, `RenameCarriesCoverage`, after every sequence of operations |
| `QueueClients` | capacity two, two pushers of two values, two poppers, two closers | `DrainedBeforeEnd`; `CloseReleasesWaiters` |
| `WatcherClose` | `c1` adds and removes a directory and closes, `c2` closes, `OnEvent` adds and removes a file in it; two events out of four kinds; all buffers one; 1.2 million states | `TypeOK`, `CloseMeansDrained`, `CloseErrorStable`, `QueueOpenWhileHandling`, `RegistriesAgree`, `AddedCanBeRemoved`; that `Watcher` implements `EventDelivery` and its backend `BackendContract` |
| `WatcherLive` | one caller closes, `OnError` adds the directory that `OnEvent` removes; five events that pass to `OnEvent` (overflows, which no root has to match), failures of the backend; all buffers one; 0.23 million states | `CloseReturns`, `AcceptedReachHandler` |
| `LinuxTables` | two nested recursive roots, `/r` and `/r/a`; three calls of `Add` and `Remove` in total by two callers; two of make, delete, unmount; one excluded directory; 1.7 million states | `TypeOK`, `TablesAgree`, `NothingLeftBehind`, `WatchesAreTrue`, `TreeIsWatchedUnlessLost` |
| `LinuxReports` | one `Add`, of a recursive root or of a file in it; four of make, delete, write, chmod, on directories with siblings and files; 1.0 million states | `ReportsAreTrue`, `TreeIsWatchedUnlessCut` |
| `LinuxRenames` | a recursive root, two calls by two callers and `Close`; three of make, delete, move; a kernel queue of two that overflows; 3.4 million states | `NodesAreReleasable` |
| `WindowsRoots` | two roots, three calls of `Add`, `Remove`, `Close` by two callers, two changes of make, write, rename, delete, buffers of two records, a channel of one; 0.76 million states | `TypeOK`, `HandlesHaveOneOwner`, `ChannelsOutliveRuns`, `ReportsAreTheHistory`, `LossIsReported`, `RootsAreServed`, `CloseReturns`, `RemovedRunsEnd`, and that it implements `BackendContract` |
| `DarwinTables` | a directory with a file and a second name for it, and a place where the directory can be moved to; recursive, flat and file roots; two calls; two of make, delete, move, write, chmod; one excluded file; 1.7 million states | `TypeOK`, `DescriptorsAreHeld`, `NodesAreReleasable`, `TablesAgree`, `WatchesAreTrue`, `ReportsAreTrueUnlessSpoilt`, `TreeIsWatchedUnlessSpoilt`, `CloseReleasesAll` |
| `ConcurrentAddRemove`, `MacSnapshots`, `RenamedDirectory` | the smallest instance of each | the disagreements of section 6 |

**Bounds, and why they are enough for the cases that matter.**

- *Buffers of one* make a channel full after one event.  In `WatcherClose` two events fill the channel that either stage
  sends to, one stage at a time, together with every kind of event and call.
- *Five events* in `WatcherLive` fill the pipeline from end to end: one is in `OnEvent`, one in the queue, one waits in
  `runBackend`'s hand for room in the queue, one in the events channel, one in the backend's hand for room there.  So `Close`
  comes while both senders are blocked, and at every other filling.  Its events are overflows because they need no root to pass.
  The callbacks call `Add` and `Remove` of one path, the race that `WatcherClose` keeps out for the sake of its registries; that
  `Close` ends does not depend on how it comes out.
- *Two closers* in `WatcherClose` are the least that overlap; a third would wait where the second waits.  That overlapping
  Closes return was confirmed apart from the runs (`WatcherLive` with `MayCall <- OverlappingCloses`; 50 thousand states): both
  together with the `Add` are more than five minutes of liveness checking.
- *Two events of four kinds* (`MixedEvents`): one that passes, one the filter
  rejects, a rename that leaves the watched tree, and an overflow, in every order.
- *Capacity two in `QueueClients`*: `Close` meets a buffer that is empty, half full or full, and after the end that one popper
  reports two pushers past the flag may still send.  That the exception of `DrainedBeforeEnd` is needed, TLC shows by leaving it out.
- *Depth two, two names, three roots* in `IndexChecks`: a root above, at and below a
  renamed path, a root on the path it is renamed to, and two roots that land on
  one path all occur.
- *Two changes on disk* in `LinuxTables`, which starts with `/r/a` there: delete it and make it again, make one in it, unmount
  it and make another.  *Three calls by two callers*: a root is added, removed and added again while a handler holds a path it has
  looked up before; one caller's walk overlaps the other's `Remove`; a root joins the nodes of the other.  TLC confirms that a
  descriptor goes astray, that a root loses a directory after a second `Add`, and that nodes are shared.
- *Four changes* in `LinuxReports`: make, delete and make again; a directory, one in it and a sibling, and a delete that cuts
  the walk of `run()` short, so that the sibling is not visited.  *One `Add`*, because `ReportsAreTrue` is about one watching: a
  removed root's reports are out of date, and an `Add` repeats none of them.
- *Three changes* in `LinuxRenames`: make, move, move onto the place of what was removed.
  The queue of two overflows after three events unread.
- *Two changes, three calls* in `WindowsRoots`: the halves of a rename fall into one read or two; with a buffer of
  two records, two changes of which one is a rename overflow it; three calls let a number be closed, given to another
  root and closed again, and `Close` race with either.
- *Two changes, two calls* in `DarwinTables`: make and delete, delete and make, a file renamed or moved onto another, a
  directory moved with a watched file in it, each of them between any two steps of a walk, of `addPath` or of a rescan; two
  calls let roots share nodes, a root go while a walk or a rescan for it is under way, or everything be closed then.  That one
  of two sharing roots goes takes a third call, which this disk makes too large for a run; what the tables owe the other is proved.
- *Two calls* in `LinuxRenames` let the root be removed under every walk and handler, or be added by one caller while the
  other's `Add` is under way; `Close` races either.

`CHECK_DEADLOCK FALSE` stands where the system really may stop: every pusher and popper of
a closed queue has ended, or the backend is closed and the bounds on calls and changes are
used up.  The watcher runs check for deadlock: a caller can always call once more.

## 5. Fairness

`WatcherLive` and `WindowsRoots` use the `FairSpec` of their modules; `QueueClients` states its own fairness.

- Weak fairness of every goroutine that is inside a call or a loop: the Go scheduler runs
  each runnable goroutine.  Nobody has to *start* a call, no event has to happen.
- `OnEvent` and `OnError` return or panic: weak fairness covers `OnEventReturns` and
  `OnErrorReturns`.  That is the caller's obligation; a callback that blocks for ever
  blocks `Close`, by design (`Close` waits for it).
- Strong fairness of `SelectEvent` and `SelectEventsEnd`: Go's `select` picks among
  ready cases at random with equal chance, so a case that is ready again and again is taken.
  Without it a backend that keeps failing could keep the errors case ready and starve events.
  Errors need no such assumption for the properties stated.
- Failures of the backend and changes on disk are not fair: they may happen or not.

- `WindowsRoots`: weak fairness of each caller inside a call, of each goroutine `runRoot` except for a failing read, and of
  the receiver of the channel.  A read that waits is not fair to return: nothing need happen on disk.  That it ends when
  its handle is closed is `CancelIoEx`, modelled in `HandleClosed`.

The Linux and macOS runs check safety only: what a run of `run()` does ends by itself, and nothing there waits
for another goroutine except `Close`, which waits for `run()`.

## 6. Where the code and its documentation differ

The first three are runs that TLC ends with the counterexample.

- **Overlapping Add and Remove of one path** (`ConcurrentAddRemove`).  Methods are "safe to
  call from multiple goroutines" (`watcher.go:27-28`).  A `Remove` between the two halves of an
  `Add` that then returns nil leaves the root watched by the backend and unknown to the index:
  its events are dropped and `Remove` cannot find it.
- **A renamed directory** (`RenamedDirectory`).  `platforms.md:17` promises one watch per directory
  of a recursive tree.  After a rename inside the tree `IN_MOVE_SELF`, handled last,
  drops the watch under the new name and the directory is reported as removed.
- **Snapshots on macOS** (`MacSnapshots`).  A comment in `Close` (`backend_darwin.go:169`) says snapshots are cleared "under the lock
  to avoid racing with rescanDir".  `rescanDir` takes a snapshot under the lock and compares it after, and `Remove`
  clears that map and puts it into the pool meanwhile (`unregisterLocked`): the maps race, everything may be reported as
  created, and the map is put into the pool twice.

Others were met on the way.  They have no run; each shows with the instance given:

- Close from a callback: `watcher.go:274-275` calls `Close` "safe to call multiple times and from multiple
  goroutines" without exception.  Called from `OnEvent` it waits for the goroutine it runs on, for ever, and so does
  every later `Close` (`CloseReturns` under `FairSpec`, with `MayCall <- OnEventCloses`, `Inputs <- SameRoot`).
- Remove of a symlink: `watcher.go:243-245` says `Remove` normalizes its path "the same way as Add".  With `FollowSymlinks`,
  `Add` resolves the link and `Remove` does not: it returns `os.ErrNotExist` and the watch stays
  (`AddedCanBeRemoved`, with `MayCall <- Solo`, `Inputs <- LinkedRoot`, `FollowSymlinks = TRUE`).
- A *root* that is renamed below another root: the index follows, the backend keeps the
  old key, and `Remove` of the new path asks the backend for what it does not know
  (`AddedCanBeRemoved`, with a rename event in `Events` that moves a root).
- A root that is deleted and made again stays registered and unwatched
  (`TreeIsWatched`, with `Lasting` smaller and `"delete"`); no page says what should happen.
- An `IN_IGNORED` handled late.  `handle()` looks the path of the descriptor up (`backend_linux.go:249-251`) and unlocks; `dropWatch`
  (`backend_linux.go:387-400`) finds the node by that path and does not compare its descriptor.  If a `Remove` and an `Add` of the root come in
  between, `dropWatch` takes the node of the new watch: the directory is there and in no table, against "one watch per
  directory" of `platforms.md:17`, and its descriptor stays in `wdToPath` and in the kernel, where no `Remove` finds it
  (`astray`; `DOMAIN wdToPath = WatchedWds` in the instance of `LinuxTables`).
- The same with `IN_DELETE` or `IN_DELETE_SELF`: the path is looked up, the directory is made again and a `Remove` and an `Add` of the root
  enrol it, and `removeWatchedPrefix` then drops its new watch, which nothing puts back (`TreeIsWatchedUnlessCut` in the
  instance of `LinuxTables`).
- A root that joins a node whose directory has been deleted and made again with the events unread stays out of that directory: `addDir` finds
  the path watched and the descriptor is not looked at, the unread `IN_DELETE_SELF` then drops the node with both roots, and
  nothing enrols it again (`TreeIsWatchedUnlessCut`, with a file root `/r/a/f`, `/r/a` deleted and made, and then a recursive root `/r`).
- A directory that is unmounted and whose mount point is still there is watched no more: `IN_IGNORED` takes its node and nothing
  enrols what is under the mount (`TreeIsWatchedUnlessCut`, with `"unmount"`).
- A walk of `run()` that meets a directory that has just vanished ends with an error that
  is ignored, and the siblings not yet visited stay unwatched (`TreeIsWatched` fails,
  `TreeIsWatchedUnlessCut` holds).
- A rename during the walk of `Add` can give one inode two nodes: the later unwatch of one
  drops the watch of both and reports a directory as removed that is there
  (`ReportsAreTrue`, with `"move"`).
- A rename onto a path whose old node is still stored displaces the node and leaves its
  watch in the kernel (`NothingLeftBehind`, with `"move"`).
- Windows: a false rename.  `platforms.md:26` says that rename pairs are normalized into `OldPath` and `Path`.  `pendingOld` survives an
  overflow, so a first half read before it is paired with a second half of another rename read after it
  (`WindowsProperties!RenamesAreReal`, with `NotesLimit = 1`, `MaxChanges = 3`).
- Windows: a removed root reads on.  `Remove` closes the handle by its number; if the root's goroutine is between two
  reads and an `Add` is given the number, it reads the other root's directory, and sends what it finds there under its
  own root's path (`strayed`; `RemovedRunsEnd` fails without its exception).
- Windows: a root whose read failed (its directory is gone, say) stays registered, is read by nobody, and a second
  `Add` of it returns nil (`RootsAreServed` without its exception).  Changes between the return of `Add` and the first read
  are not recorded: `ready` is closed before it.
- macOS: a directory in a root that is not recursive is reported when it is made and never when it is removed
  (`ReportsAreTrue`; `types.go:30` says that `OpRemove` reports a removed file or directory).
- macOS: the orders of steps after which the backend loses track, each an exception of a property in
  `DarwinProperties` found by checking it without: a note of a batch is handled when its descriptor's number or its path
  already stands for another file ("stale"); a rename overwrites the node of its new path, whose descriptor then
  leaks ("displaced"); what a rescan takes for a renamed file is a directory that a walk has enrolled under the old name
  meanwhile, and moves without its snapshot ("mistaken"); a root joins a directory whose roots a rescan has already copied ("joined"); a walk of
  `run()` fails half-way and is not taken up again ("cut"); an entry is deleted and made again before it is handled, or
  goes between the read of a rescan and its enrolment, or a watched file is renamed, whose `NOTE_RENAME`, handled after
  the rescan, removes it under its new name (`blurred`).
- macOS: the `Add` of a tree fails if a file in it vanishes during the walk (`AddFails`).

## 7. The proofs

All theorems hold for every value of the constants that satisfies the named
assumptions, which only say what type each constant has and

- `CapacityAssumption`, `BufferAssumption`: capacities are naturals;
- `WatcherAssumption`: callers are distinct from the two goroutines, the "no path" and "no
  root" values are neither, and lookups and events are well-typed;
- `OverflowAssumption`: an overflow carries no path, as no backend gives it one;
- `InotifyAssumption`, `KqueueAssumption`, `DirectoryChangesAssumption`: `Tree` is a set of paths and the root directory is
  there; it need not be finite.  `LinuxAssumption`, `DarwinAssumption`, `WindowsAssumption` type callers and targets, and the "no
  path" value of macOS is no path.

Five theorems of `LinuxProofs` have the hypothesis `NoRenames` (`"move" \notin Changes`), one of them also that the kernel's queue does
not overflow (`QueueHolds`), and three of `DriverProofs` say that the
registries agree under hypotheses on the calls and the events (below), all named in the theorems.

| Theorem | Says | Checked by |
|---|---|---|
| `WatcherProofs!CloseDrains` | `Spec => []CloseMeansDrained` | `WatcherClose` |
| `WatcherProofs!CloseAgrees` | `Spec => []CloseErrorStable` | `WatcherClose` |
| `WatcherProofs!PushIsNeverRefused` | `Spec => []QueueOpenWhileHandling` | `WatcherClose` |
| `WatcherProofs!ShutdownInvariant` | the inductive invariant of the three above | |
| `WatcherProofs!WatcherDelivers` | `Spec => ImplementsDelivery` | `WatcherClose` |
| `DriverProofs!TypeCorrect` | `Spec => []TypeOK` | `WatcherClose` |
| `DriverProofs!RegistriesAgreeApart` | `Spec /\ [](WorkApart /\ RootsStay) => []RegistriesAgree` | `WatcherClose` |
| `DriverProofs!GrantedIsRemovable` | `Spec /\ [](WorkApart /\ RootsStay /\ NoLinks) => []AddedCanBeRemoved` | `WatcherClose` |
| `DriverProofs!OwnPathsAgree` | both, for a program of which the constants say that it keeps to the rules | `WatcherClose` |
| `QueueProofs!QueueDrains` | `Spec => []DrainedBeforeEnd` | `QueueClients` |
| `DriverProofs!BackendKeepsContract` | `Spec => DriverKeepsContract` | `WatcherClose` |
| `WindowsProofs!NothingIsSentLate` | `Spec => []ChannelsOutliveRuns` | `WindowsRoots` |
| `WindowsProofs!WindowsKeepsContract` | `Spec => ImplementsContract` | `WindowsRoots` |
| `WindowsProofs!TypeInvariant`, `HandlesAreOwned`, `RootsStayServed` | `TypeOK`, `HandlesHaveOneOwner`, `RootsAreServed` | `WindowsRoots` |
| `WindowsProofs!NoSilentLoss`, `ReportsFollowHistory` | `LossIsReported`, `ReportsAreTheHistory` | `WindowsRoots` |
| `LinuxProofs!NodesStayReleasable` | `Spec => []NodesAreReleasable`, renames included | `LinuxRenames` |
| `LinuxProofs!TypeInvariant`, `TablesStayAgreed`, `NothingStaysBehind` | under `NoRenames`: `TypeOK`, `TablesAgree`, `NothingLeftBehind` | `LinuxTables` |
| `LinuxProofs!WatchesStayTrue` | under `NoRenames`: `Spec /\ []QueueHolds => []WatchesAreTrue` | `LinuxTables` |
| `DarwinProofs!TypeInvariant`, `NodesStayReleasable`, `DescriptorsStayHeld`, `TablesStayAgreed` | `TypeOK`, `NodesAreReleasable`, `DescriptorsAreHeld`, `TablesAgree`, renames included | `DarwinTables` |
| `DarwinProofs!NothingIsLeftOpen` | `Spec => []CloseReleasesAll` | `DarwinTables` |
| `DarwinProofs!WatchesStayTrue` | `Spec => []WatchesAreTrue`, renames included | `DarwinTables` |
| `IndexProofs!MatchesCovers`, `KeysStayPaths`, `RenamesCarryCoverage` | the three properties of the index | `IndexChecks` |

**Shutdown.**  `CloseMeansDrained` is not inductive: that a returned `Close` leaves nothing behind
rests on what each goroutine had waited for before it ended.  `Shutdown` says it stage by stage.
`ChannelsGivenUp`: `runBackend` gives a channel up only when it is closed and drained, and a channel that
is closed stays drained because its only sender has ended (`DriverHand`).
`BackendEnding`: it ends only having given up both and with an empty hand.  `QueueClosed`: only its end closes
the queue, which is why `Push` is never refused.  `EventsEnding`: `runEvents` ends only on a
closed and drained queue, which can get no more.  `OneCloser` and `CloserWaited`: one thread is
inside `closeOnce`, and what it has waited for stays true.  `Results`: nobody returns before.
The theorem needs all of them: the wait of each stage is justified by the end of the one before.

**Delivery.**  The refinement maps the backlog to `hand \o events`, the accepted events to the queue's channel and
the phase to `closeOnce`.  A step of the select or of the backend's send is a report or a stutter, `HandlePushSelect` an
acceptance, the drops a drop, a pop a delivery, the end of `closeOnce` a shutdown.  Besides
`Shutdown`, `Carried` needs that the hand is full while an event is handled
(`HandIsFull`) and what has been established of it at each point (`HandIsChecked`): an
overflow never reaches the second lookup, so it is never dropped, and what is pushed has passed mask and filters.

**Types.**  `Typed` adds to `Carried` that a call at a point that reads `root[t]` or
`input[t]` has one (`CallsTyped`), and that the index stays the one its roots determine
(`IsIndex`, kept by Add, Remove and every result of MovePrefix).

**The two registries.**  `Add` writes the index first and the backend second, `Remove` does the same, and neither holds a lock across the two.
Three hypotheses are needed for what `RegistriesAgree` and `AddedCanBeRemoved` say, and each has its counterexample:
`WorkApart`, no two calls work on one path at a time (`ConcurrentAddRemove` shows two that do); `RootsStay`, no rename
that `runBackend` follows moves a root; and, for what `Add` has granted, `NoLinks`, no root is added through a symlink (both in section 6).
Calls of one path in turn, calls of different paths at once, failed enrolments, second `Add`s, callbacks and a `Close` at any step are covered.
The invariant is `Settled`: every path agrees or a call works on it (`Owned`), and how far the two agree there is a matter of
where the call is (`Halfway`).  One lemma, `OthersStay`, says that a step that touches the registries at its own path only
leaves what every other call is half-way through.  The events that `runBackend` follows in between leave the roots
alone because the new index has the same keys (`StayingRootsKeepKeys`).  `GrantsHeld` adds that what has been granted is in both,
or a `Remove` of it is on its way, or the watcher is closing.  `OwnPathsAgree` turns the hypotheses into rules for a program, which constants
express: each goroutine and callback adds and removes paths of its own (`OwnPaths`), no event moves what was added (`StillRoots`), and, for the
grants, no path that is added is a symlink (`DirectInputs`).  The instance of `WatcherClose` meets all three, and its calls do
overlap.

**Queue.**  That a Pop reports the end only with the channel empty is the code of `Pop`; that nothing but an overlapping `Push` can
fill it afterwards is not.  `LateOnesKnown`, the heart of it: once the flag is set, a `Push` in its select is one that was there
when it was set.  With `FlagBeforeDone` (Close sets the flag before it closes `done`, so an end comes after the flag)
`EndFoundEmpty` follows: after the end only such values are in the channel.  `NothingVanishes` makes every accepted value popped or
in the channel.

**Index.**  `RootIndexProofs` proves the facts about paths that the code's string handling relies on,
among them that walking up with `ParentDir` meets exactly the prefixes of a path, and that
`JoinMovedPath` carries a prefix along.  `IsIndex` (every root under its own path, the sets
those of `rebuild`) is inductive, and `MatchesIsCoverage` follows from it at any depth.

**The backends' contract.**  For the backend in `Watcher`, two facts beyond `Typed` are needed: `LeavesClosed` (`run()` leaves its
loop only after `Close`), so that registration meets an open channel and the end comes after `Close`; and `Looked` (what an
`Add` is about to register was looked up), so that every registered key is one of the contract's paths.  A second `Close`, a
removal of what is not there and the ends of the errors channel are stutters.  For Windows, `Lifetimes`: who waits
for the goroutines has closed registration before (`ClosersClosed`), so none is started once all have ended, and `HandsTaken`
ties the handles a call holds to the point it is at.

**Windows: handles, losses, history.**  `Typed` makes the objects of the kernel, the roots made and the locals of their goroutines
sequences of one length.  `Handles` says what `HandlesHaveOneOwner` does not: the handle of a registered root is open and still
names its own object, the hands of two calls are disjoint, and no object has two handles; only so can the next `CreateFile` give a
closed number away without making two owners.  `ReadersKnown`: a goroutine that waits on another root's object has strayed, and is
excepted.  With it a registered root's goroutine waits on its own object, which gives `RootsAreServed`, and what the kernel has lost is
in the object, warned of, or at the label "overflow" (`LossKept`).  For the history, `Replays` reads the goroutine's buffer
and the records still in the kernel through the rename pairing of `runRoot`, and says that what comes out is the rest of what
happened.  It is stated with the functions that replaying would compute, one value per record, because a recursive definition
could not be used; that these exist is carried from step to step as a record is added in the kernel, read, or sent.

**Linux.**  `Typed` and `NodesAreReleasable` are inductive together with all renames, overflows and calls.
The rest is `Steady`, which holds where nothing is renamed: an inode is named by its path for good (`InodesNamed`), the kernel and the
table agree on the path of a descriptor both know (`WatchesNamed`), every event in the queue and in the buffer was true when it was put there
(`Heard`: a name in a watched directory is in the tree, an `IN_IGNORED` means that the kernel's watch is gone), and no half of a rename
is pending (`NoHalves`).  `TablesAgree` needs all of this, and one thing more, `Dropping`: while a dropped watch is between its lookup and
`DropWatch`, the descriptor of the event is gone from the kernel for good, as descriptors are not given again (`SoundLasts`), and stands for
no other path than the one that was looked up.  What `DropWatch` takes is therefore the node of this descriptor, or that of a later one,
which then is `astray`.
`WatchesAreTrue` relates the tables to the disk at rest.  `Followed` is its invariant: what the kernel watches is a directory that is
there, the very one (`WatchesStand`), and of every descriptor that the tables know and the kernel has dropped the `IN_IGNORED` is
still in the queue, in the buffer or being handled (`LossesAnnounced`).  A change on disk that takes a watch away therefore owes its
`IN_IGNORED`, and `NothingIsLost` says that the kernel's queue takes all of a change's events or ends in an overflow; no handler
of an earlier event may eat it, and what a handler unwatches itself it drops from the tables.  The hypothesis `QueueHolds` is needed:
TLC shows that an overflow can swallow the only `IN_IGNORED` of a deleted directory, whose node then stays with a dead
descriptor (`QueueLimit = 4` in `LinuxTables`).  Unmounts are included.

**macOS.**  Here renames are included.  The induction is over what a step does to the tables and not over the actions: every step frees
or strips nodes, opens a descriptor, drops one, enters a node, renames, closes or ends (`StepEffect`, with one lemma per action),
and each property is proved once per effect.  A rename carries nodes along an injective function `go` (`RenameIsCarrying`, which rests on
`JoinMovedPath` being injective below a prefix), and the mishap it records is what the properties except.  `DescriptorsAreHeld` is
inductive with the types; for `CloseReleasesAll` it needs that a closed backend watches nothing (`ClosedEmpty`: an `addPath`
that `Close` overtakes is an orphan).  `TablesAgree` is not inductive: the snapshot that `rescanDir` puts back after its work is one
of a watched directory only if that directory is still watched, which `HereStays` says (while a rescan is at a directory, it
is watched unless its snapshot was torn), and a node that is renamed as a file has no snapshot (`SnapshotsOfDirs`).  TLC checked these two
on `DarwinTables` before they were proved.
`WatchesAreTrue` relates the tables to the disk at rest, for the paths nothing has spoilt.  `WatchesFollowed` is its invariant: a watched path that is
not blurry has a descriptor, registered with the kqueue, of the very inode that is there, or that this inode is gone is `Announced`.  An announcement is
a note that waits with its descriptor, then stands in the batch, then is being handled; each handler passes it on until it unregisters
the path (`AnnouncementStays`, for which `TablesAgree` says that the note is looked up under that path, and `NotesQueued` that the next `kevent` takes it).
Two more invariants are needed.  `FlightsFollowed` says the same of an `addPath` between its open and its second critical section, where no note can come
before `EV_ADD`: that such a path goes is why `Coming` blurs it.  `InodesAtHome` says that an inode, on disk, in a snapshot or in the hands of
`rescanDir`, is under the path where it was made unless both paths are blurred; so what `rescanDir` takes for a rename has been one (`RenamesAreBlurry`), and a
node carried to a new path is excepted by the property.  No property of the disk is assumed: a change keeps a path, blurs it, or deletes it with
a note to every descriptor of it (`DiskTells`, which rests on what the kernel's fold over its notes adds, `PostTells`).  TLC checked all
four on `DarwinTables` first.

**Induction.**  Nothing is assumed of folds or of numbers: `RootIndexProofs` proves by an explicit set of naturals what it needs
(`NatSetInduction`, `Folds`, `FoldStays`), and what `CloseFds` of `Kqueue` does to many descriptors follows from it.

**What the attempts to prove have shown**, each confirmed by TLC before the model or the property was changed.

- `TablesAgree` of Linux had been stated for every step and is false as soon as a rename displaces a node, so it is checked and
  proved without renames, and the rename is in section 6.
- `strayed` of Windows did not say *which* root's object was read: a history that another root's goroutine had taken records
  from passed for undisturbed.  It is a set of pairs now.
- The snapshots of macOS had been kept under paths; the code keeps them under names, so that they survive a rename.
- `renamePath` can carry a directory for a file: the mishap "mistaken" of section 6, which no run had met.
- No run had renamed a directory with a watched file in it on macOS, nor moved a file onto another: `DarwinTables` does now,
  from a disk that has files at the start, and catches a `JoinMovedPath` that drops what is below the directory.
- `ReportsAreTrueUnlessSpoilt` of macOS and `ReportsAreTrue` of Linux say too much where a report was made before the directory of its path
  was watched: two nested roots of which the inner is not recursive, say; the walk of the outer `Add` finds the path there
  again and, as it should, reports nothing.  The runs have no such roots.
- A late `IN_IGNORED` had been one step from lookup to drop, which hid that `dropWatch` may take another watch's node; `TablesAgree`
  and `NothingLeftBehind` now name the descriptor that is left behind.
- `DescriptorsAreHeld`, `TablesAgree` and `TypeOK` of macOS said less than is true; they are stated in full.

**Model-checked only**, and why:

- liveness (`CloseReturns`, `AcceptedReachHandler`, `RemovedRunsEnd`, `CloseReleasesWaiters`): fairness is out of the prover's reach;
- what else relates the tables to the disk at rest: `ReportsAreTrue`, `TreeIsWatchedUnlessCut` and `TreeIsWatchedUnlessLost` of Linux, and
  `ReportsAreTrueUnlessSpoilt` and `TreeIsWatchedUnlessSpoilt` of macOS.  The two about reports hold only of instances like those
  of the runs (above); the invariants of the other two must say, for every path and at every step, which event or walk under
  way will still put it into the tables.

## 8. What is not modelled

- *How a pattern decides* (prefixes, globs, separators): the exclude matcher is a predicate on paths, asked where
  the code asks it.  What it computes is string matching, character by character, and most of it is
  `filepath.Match` and `filepath.Clean` of Go's library; a model of it would be a copy.
- *The descriptor's number after Close*: another file of the process may get it while
  `run()` still holds it.
- *poll, read or kevent failing on an open descriptor*, and *backpressure of the events channel*, in
  `LinuxBackend` and `DarwinBackend`; both are in `Driver`.
- *macOS*: an open or an EV_ADD that fails although the path is there (permissions, too many descriptors), `NOTE_REVOKE`, an
  `lstat` that fails for an entry just read (its inode is then 0 and pairs with none), and the kqueue's own number after `Close`.
  `addPath` opens a file with `O_RDONLY`, which waits for a writer if it is a FIFO: no model has FIFOs.
- *Windows*: `IsDir` of an event (a `stat` when it is sent), malformed buffers, the errors channel; `CancelIoEx` and
  `CloseHandle` are one step, of which a read between them may end either way; no directory below a root is
  made or moved, only files.
- *Symbolic links inside the tree* (inotify does not follow them) and *hard links*.
- *More than one call per callback*, callbacks that do not return, and the calls `OnError` makes when it
  reports a panic of `OnEvent` (it can report; it makes no calls there).
- *Wording*: `String` methods, loggers, error texts.  *The stub backend* returns an error and has no state.
- *Examples, benchmarks, the site*: no state of their own.

## 9. Plan

In the order of what matters most to a user:

1. Done: `RootIndex`, `EventQueue`, `Driver`, `Watcher`, `EventDelivery`; `LinuxBackend`, `WindowsBackend`, `DarwinBackend` over
   models of their kernels; `BackendContract` and the refinements to it; the proofs of section 7.
2. `LinuxBackend` and `DarwinBackend` implement `BackendContract` (their events channel has to become a variable first),
   so that what is proved about `Watcher` over its backend holds over each of them; then the refinements as theorems.
3. Prefix exclusion of the matcher on the paths of `Paths`, where `/` as a prefix excludes nothing below it.
