# TLA+ models of DynamicAPK

DynamicAPK splits an Android application into a host APK and bundles that are loaded at run
time. The repository has two programs: the Java library that installs and loads bundles and hot
patches on the device (`bundle/`, driven by `sample/`), and `caapt`, a C++ variant of Android's
aapt that compiles the resources of a bundle with ids of their own, against the resources and
the `R.java` of the host. This directory holds TLA+ modules that model both, TLC configurations
that check them on small instances, and proofs that TLAPS checks.

Paths below are relative to the repository. `bundle/…` abbreviates
`bundle/src/ctrip/android/bundle/`; C++ files are those of `caapt/`.

## 1. Inventory

### On the device (Java)

| Component | State | Operations | Interacts with |
|---|---|---|---|
| Framework, BundleCore, BundleImpl (`bundle/…/framework`) | `Framework.bundles`, `nextBundleID`, `isOpt` of each bundle; on disk `storage/meta` and `storage/<id>/meta` | `startup` (purge or restore), `installBundle`, `updateBundle`, `uninstallBundle`, `run` | storage, class loader, resources, start-up |
| Storage (`bundle/…/framework/storage`) | `revisionSortedMap`, `currentRevision`; on disk `version_<n>/{meta,bundle.zip}` | constructor for new and for existing directories, `newRevision`, `purge`, `optDexFile` | `BundleImpl`, `APKUtil`, `BundlePathLoader` |
| Start-up (`sample/…/BundleBaseApplication.java`) | `last_bundle_key` in the shared preferences | compare the key, purge or run, the thread of the first run that installs the bundles of the APK and commits the key | all of the above |
| Hot patches (`bundle/…/hotpatch`) | `sortedMap`; on disk `hotpatch/<name>_<version>/hotfix.zip` | `purge`, `run`, `installHotPatch`, undo by a `_rst` file | start-up, class loader |
| Class loader patching (`bundle/…/loader`) | `pathList.dexElements` of the system class loader | `installBundleDexs` appends, or prepends for a hot fix | storage, hot patches |
| Runtime hooks (`bundle/…/runtime`) | `RuntimeArgs.delegateResources` | `newDelegateResources`, `InstrumentationHook.newActivity`, `execStartActivity` | start-up thread against main thread |
| Reflection (`bundle/…/hack`) | cached `ActivityThread`, `LoadedApk` | `getActivityThread` (posts to the main thread, waits) | runtime hooks |
| Logging, strings, sample and demo screens, Gradle files | none | | |

What is hard here: the process can die between any two file operations and the storage must be
usable afterwards; nearly every I/O error is caught and logged; the id counter, the bundle's
directory and its meta files are written one after the other; the new APK finds the storage of
the old one; updates take effect at the next start only; the class path is an ordered list that
is built differently in the process that installs a patch and after a restart; nothing but the
start-up order keeps the patches before the bundles.

### On the build machine (caapt, C++)

| Component | State | Operations | What is hard |
|---|---|---|---|
| Work queue (`WorkQueue.cpp`) | flags, idle counter, threads, pending units | `schedule`, `cancel`, `finish`, the thread loop | threads, two conditions, cancel and finish against posters, ownership of units |
| Image preprocessing (`Resource.cpp:324-372`) | `hasErrors`, shared by threads | `preProcessImages`, the unit | error paths and ownership, join against throttle |
| Zip archive (`ZipFile.cpp`, `ZipEntry.cpp`) | entries, end of the central directory, the file itself | open, add, remove, crunch, flush, destructor | a new entry overwrites the central directory, which only flush writes again; time stamps are rounded |
| Packaging (`Package.cpp`, `ApkBuilder.cpp`; add and remove of `Command.cpp`) | an output set per split | `writeAPK`, `processFile`, `doAdd`, `doRemove`; splits | an update keeps what nobody marked; which split a file goes to |
| Assets and filters (`AaptAssets.cpp`, `AaptConfig.cpp`, `ResourceFilter.cpp`) | groups of files by name and configuration | slurp, overlays, both passes of the filter | an overlay replaces by name and configuration, the density pass keeps a best match |
| Resource table (`ResourceTable.cpp`) | types, entries, bags, public ids | add, overlay, assign ids, flatten | ids are assigned when all is added and are then part of other APKs; public ids move entries |
| Id cache (`ResourceIdCache.cpp`) | a map by hash code | lookup, store | names of one hash code, a limit, no invalidation |
| String pool (`StringPool.cpp`) | entries, an array of positions | add, sort, write | clients keep positions that a sort moves |
| XML (`XMLNode.cpp`) | a tree | parse, ids, values, compatibility, flatten | the names with ids come first in the pool; attributes are removed by index |
| R.java and its merge (`Resource.cpp`, `RMerge.cpp`) | symbols | write, merge with the host's | which inner classes and fields there are |
| The build (`Command.cpp`, `Resource.cpp`) | `hasErrors`, status of each pass | `doPackage`, `buildResources`, the manifest | the order of the passes, errors noted in one and acted on in another |
| Crunch cache (`CrunchCache.cpp`, `FileFinder.cpp`) | time stamps | one pass over two listings | whole seconds |
| `Images`, `Main`, `SourcePos`, `pseudolocalize`, printing | none | | nothing a model checker reaches |

How the two programs meet: the host is built first, with ids of package 0x7f and an `R.java`; a
bundle is built with the APK of the host as an included package, with a package id of its own
(`--apk-module`), and its `R.java` is merged with the host's. What a bundle's APK refers to in the
host is an id, so a later host may replace the old one only if that id still means the same.

`PROJECT.json` lists every component with its status, and under `hazards` what in this code a
test would hardly reach, with the line and the properties that cover it.

## 2. Plan

In the order of their importance to the system; all but the last are written.

1. `BundleFramework`: the storage and the start-up protocol, the core of the system.
2. `BundleFrameworkProofs`: types, and that no code of an old APK is loaded.
3. `WorkQueue`, with the abstract `WorkBag` it implements; `WorkQueueProofs`.
4. `PreProcessImages`: composes the work queue with the one client caapt has.
5. `HotPatch`: patches, their order in the class path, and the part of start-up about them.
6. `ZipArchive`, and `ApkWriter` on top of it: entries, central directory, flush, kills between
   writes, and the commands that write an archive.
7. `AaptConfig`, `AaptAssets`, `StringPool`: configurations, files, overlays, filters, positions.
8. `ResourceTable`, `ValuesFile`, `XMLNode`, `RJava`: ids, bags, values, documents, R classes.
9. `ResourceBuild`, which composes 7 and 8 to builds of hosts and bundles after one another.
10. Proofs of the safety properties of 1, 3, 4, 5 and 6, see section 6: `BundleFrameworkProofs`,
    `WorkQueueProofs`, `PreProcessImagesProofs`, `HotPatchProofs`, `ApkWriterProofs`.
11. `ApkContentsProofs`: a package run writes what was asked, fresh, and the types of an archive after a
    killed flush.
12. `FoldFacts`, `ResourceBuildProofs`: induction over folds, and what it gives for 9.
13. Left out for good, see section 7: two threads that change bundles at once, the runtime hooks,
    the crunch cache.

## 3. Modules

| Module | What it is |
|---|---|
| `BundleFramework` | model and properties of framework, storage and start-up |
| `BundleFrameworkProofs` | its theorems: types and APK versions; ids, directories and restarts |
| `WorkBag` | what `WorkQueue.h` promises, abstractly |
| `WorkQueue` | model and properties of `WorkQueue.cpp` |
| `WorkQueueProofs` | its theorems: counters, pool and wakeups; ownership of units, `finish`, refinement |
| `PreProcessImages`, `PreProcessImagesProofs` | `preProcessImages` composed with `WorkQueue`, and its theorems |
| `HotPatch`, `HotPatchProofs` | hot patches and the order of dex elements, and their theorems |
| `ZipArchive` | the archive, one step per write to the file |
| `ApkWriter` | the commands that write an archive, composed with `ZipArchive` |
| `ApkWriterProofs`, `ApkContentsProofs` | theorems about both: where the bytes are; what is in the archive |
| `AaptConfig` | configurations, their parsing, masks, matching, filters |
| `AaptAssets` | directories, files, overlays, the two passes of the filter |
| `StringPool` | strings, styles, sorting, the block that is written |
| `ResourceTable` | the table and the id cache, whose key is a tuple where the code writes the names one after another (no type ends in another, so these say the same) |
| `ValuesFile` | the files under `res/values*`, tag by tag |
| `XMLNode` | documents: parsing, ids, values, compatibility, flattening |
| `RJava` | R classes, their merge, the rules for ProGuard |
| `ResourceBuild` | the package command as a state machine over the six modules above |
| `FoldFacts` | induction over a fold, for proofs: an instance per step that is folded |
| `ResourceBuildProofs` | theorems about the build and its operators |
| `MC…` | instances for TLC: sets, projects, orders, symmetry, a constraint |

A definition whose comment begins with "Mutant:" is a variant of the definition of the same
name with a plausible bug. No specification uses it; it is there to be put in the place of the
original, and then the property that `PROJECT.json` names must fail.

### BundleFramework

The storage is a function of ids and of slots (id, revision). A file is `Absent`, `Torn`
(opened, truncated, not complete) or has its value: the id counter for `storage/meta`, the
location for `storage/<id>/meta`, `Saved` for a revision's meta, and location and APK version for
`bundle.zip`. The process has a life (`proc`: down, booting, installing, running) and one thread
that mutates the storage, whose next file operation is `step` and whose bundle is `op`.

| Code | Actions |
|---|---|
| `onCreate`, key comparison | `Boot` |
| `Framework.startup` with `ctrip.bundle.init` | `PurgeBundleDir`, `PurgeFrameMeta`, `PurgeDone`, then `FrameMetaOpen/Write` |
| `restoreProfile`, `BundleImpl(File)`, `BundleAchive(File)` | `Restore` with `Restorable`, `Newest` |
| `BundleCore.run`, `optDexFile` | `Run`, `RunAgain` |
| thread of the first run | `OpenApk`, `InstallBegin` while installing, `CommitKey`, `Run` |
| `installNewBundle`, `BundleImpl(…stream)` | `InstallBegin` or `InstallRejected`; `OpenZip`, `CopyStream`, `RevMetaOpen/Write`; `BundleMetaOpen/Write/Fails` with `Register`; `FrameMetaOpen/Write/Fails` |
| a failed revision | `RevisionFails`; for an install `Delete…`, `CleanupDone` |
| `updateBundle`, `newRevision` | `UpdateBegin` and the revision's steps |
| `uninstallBundle`, `BundleAchive.purge` | `UninstallBegin`, `DeleteZip`, `DeleteRevMeta`, `UninstallDone` |
| process death, package installer | `Crash`, `UpgradeApk` |

Abstractions. The purge of the storage removes one bundle directory at a time, not one file: a
process that dies in the purge leaves the key of another APK, so the next one purges again
before it reads anything. `File.delete` and `mkdirs` do not fail. Crashes are deaths of the
process, so writes that returned are not lost and are not reordered. A restore and a
`run` are one step each: they only read the disk, and the main thread does nothing else
meanwhile. The stream of an install holds the bundle that the running APK was built with. Only
one thread mutates the storage at a time: the main thread until `onCreate` returns, the thread of
the first run, then the application's calls. The code does not enforce the last point; two threads
at once are not modelled (section 7). `reusedIds`, `ioErrors`, `ioFailed` and `uninstalled` are history that
no guard reads, except that `ioErrors` bounds the errors.

### WorkQueue, WorkBag, PreProcessImages

A stretch of code under `mLock` is one step. A thread that waits on a condition is in state
`waiting`; a broadcast makes it contend for the lock again (`ready`, `woken`), and so does a
spurious wakeup, at any time. `schedule` is split at its wait: `ScheduleBlocks` enters the loop,
`ScheduleWoken` is one more turn. `RunUnit` is `run()` and `delete`, outside the lock; `Account`
is the second critical section. The destructor is `Cancel` followed by `FinishBegin` and
`FinishReturn`; calls of one client after its destructor are the program's own mistake and are
refused by the closed queue in any case.

`WorkBag` states the contract of the header: a sequence of accepted units that start in order,
at most `MaxRunning` at a time, none after a cancel and none accepted after a close. The
refinement maps `running` to the units held by threads, `closed` to `mFinished \/ mCanceled`
and `dropped` to accepted units that are neither pending, held nor run.

`PreProcessImages` extends `WorkQueue`: `Post`, `PostGoesOn` and `PostReturns` are the loop around
`schedule`, `CallFinish` and `FinishDone` the join, `RunImage` the unit. `hasErrors` is a variable
of its own that the units set outside every lock. Only `true` is ever written while threads run,
so a write that races with another one has one outcome, and the join orders the read.

### HotPatch

A patch is a directory `<name>_<version>` with a `hotfix.zip` that is absent, not a zip file
(`Torn`), or made for one APK version. `dexElements` is the list of the class loader, with one
element for the APK, one for all bundles and one per patch. `Boot`, `PurgeDir`, `PurgeDone`, `Run`,
`CommitKey` and `RunBundles` are start-up; `InstallBegin`, `CopyOpen`, `CopyWrite`, `CopyFails` and
`LoadPatch` are `installHotPatch`; `UndoBegin` and `UndoDone` its undo form, which matches by
substring (`Contains`), newest first. Of two directories with the same version, any may be
the one that `File.listFiles` lists last (`Listings`). `CopyWrite` also writes something that
is not a zip file: the stream is whatever the caller passes. A patch is taken to be made for
the APK that installs it. Callers are sequential; the thread of the first run is not.

### ZipArchive, ApkWriter

The file is a sequence of cells: a local header, a piece of data, an entry of the central
directory, or its end. `RawLen` and `PackedLen` say how many cells a content takes, so that
deflating can save space or not. A method of `ZipFile` is a sequence of steps, a header, the data,
an entry that is moved, the directory, its end. A process can be killed between any two, and
any of them can fail half-way (`MaxFaults`), also where the code does not look at the result; one
step has one failure.

| Code | Actions |
|---|---|
| `open`, `readCentralDir`, `initFromCDE` | the definitions `Readable` and `ReadCentralDir`, in `Begin` |
| `addCommon`, `add`, `addGzip` | `AddBegin` or `AddRefused`; `AddStored`, `AddDeflated`, `AddGzip` and how they end: `AddEnd`, `AddBlank`, `AddLost`, `AddFails` |
| `remove`; `flush`, `crunchArchive` | a mark; `FlushBegin`, `CrunchDeleted`, `CrunchMove`, `CrunchDone`, `WriteCentralDir`, `WriteEocd` |
| `writeAPK` and `processAssets`, `processFile`, `processJarFile` | `Begin`, `ProcessFile`, `ProcessClass`, `Added`, `CruftAndFlush`, `Flushed` |
| `doAdd`, `doRemove` | `AddSpec`, `SpecAdded`; `RemoveSpecs`, `RemoveFlush` |
| the destructor of `ZipFile` | `DestructorFlush`, `Bail` |
| process death; an editor | `Kill`; `Edit` |

`before` is the archive as the command found it; together with `madeAt` and `unreported` it is history
that no guard reads. The next process finds what the last one left, whole or not. `Sound` asks more
of an archive than that every entry reads back: the entries lie in the order of the directory and
the file ends with its end record. `crunchArchive` relies on both, and every archive of `ZipFile`
has them.

Three assertions are guards: the list is as long as `addCommon` counted (`Counted`, `ZipFile.cpp:377`), and
in `crunchArchive` an entry that is not at offset zero has room for its header
(`HasRoom`, `ZipFile.cpp:992`), and what was counted as deleted is gone from the list
(`CrunchDone`, `ZipFile.cpp:1041`). A process that fails one of them dies, which `Kill` does at any
time. `Field` is what a cell is made of; the marker `NoFile` is no sequence of cells.

### The resource compiler

The modules under `ResourceBuild` have no variables: a table, a pool, a document or a set of
assets is a record, and an operation takes one and gives the next one. What a method returns and
what it prints are two fields (`ok`, `errors`), because the code often looks at only one of them.
A resource is named by package, type and name, an id is `<<package, type index, entry
index>>`. Loops over vectors are folds; sets are used where the code iterates over a sorted
container and the order is of no consequence.

`ResourceBuild` is the state machine. `pc` follows `doPackage` and `buildResources`:

| Code | Actions |
|---|---|
| `slurpFromArgs`, the splits of the command line | `Slurp` |
| `parsePackage`, `addIncludedResources`, `collect_files`, `applyFileOverlay` | `NewPackage` |
| `preProcessImages`, `makeFileResources`, a type at a time | `MakeFiles` |
| `compileResourceFile`, a file at a time | `ToValues`, `CompileValues` |
| colors and menus, `assignResourceIds` | `ToLate`, `AssignIds` |
| `compileXmlFile`, a file at a time; the work queue of the table | `CompileXml`, `WorkItem` |
| `massageManifest`, `modifyForCompat`, `validateLocalizations` | `Manifest` |
| `flatten` for the base and each split, `generateAndroidManifestForSplit` | `FlattenTables` |
| the checks of the manifest, `addSymbols` | `ValidateManifest` |
| `writeResourceSymbols`, the merge, ProGuard | `WriteSymbols` |
| `addResourcesToBuilder`, `writeAPK` | `WriteApks`, `WriteApksFails` |
| every `goto bail` | `Abort` in each of these |

One build follows another (`Plan`); `published` and `rfiles` are what the builds before left on
disk. `WriteApks` is one step: `ApkWriter` looks at what it does to the file.

Data that the properties do not tell apart is abstract. A directory name comes split at its
dashes (`<<"sw", 600, 0>>` for `sw600dp`). Values carry their kind, as the platform's
`ResTable::stringToValue` would find it. `Pseudolocalize` adds brackets, `ParentByName` and `LastPart`
stand for what a name has around its dots. The order in which `std::sort` and the sorted vectors
put names and configurations is given by the instance. The bytes of chunks are left
out, the lengths in front of strings are not (`EncodeLength`, `DecodeLength`).

## 4. Runs

Deadlock is not checked anywhere: the process may stay down with all bounds used up, a queue
whose clients are done stops, and so does a build machine at the end of its plan.

| Run | Bounds | Shows |
|---|---|---|
| `bundle_crash` | 3 bundles, 1 packed, 2 ids, 2 revisions, 1 APK, 1 I/O error | With crashes and a failure anywhere: types; code is loaded under its own name, ids and directories are not shared, no operation writes into another bundle's directory, the current revision is not rewritten, a restart finds what the table says. |
| `bundle_startup` | 2 packed bundles, 2 ids, 1 revision, 2 APKs, 2 I/O errors | No stale code; the key is stored over a complete storage only; start-up ends. |
| `bundle_uninstall` (violation) | 2 bundles, 2 revisions | An uninstalled bundle comes back. |
| `bundle_meta` (violation) | as `bundle_crash` | A live bundle's directory is handed out again. |
| `queue_shared` | 2 threads, 2 clients, 5 units, any of which may stop the queue, backlog 1 | Counters, throttle, wakeups, ownership, refinement of `WorkBag`; work is served, calls return. |
| `image_batch` | 2 threads, up to 4 images, 1 broken, backlog 1 | Result, ownership and end of `preProcessImages`. |
| `patch_order` | 2 names, 3 versions, 4 elements, 2 APKs, 1 failure | Order and freshness of patches, restart runs the map. |
| `apk_write` | 2 sources, 5 output sets, 2 lists of jars, 3 of file arguments, 2 processes, 1 edit of each source, clock to 3, 1 I/O error | A success leaves a whole archive with what was asked for, what is in it is fresh up to the rounding of a time stamp, no name is there twice. |
| `update_cruft` (violation) | as `apk_write`, without I/O errors | An update keeps a file that is no output any more. |
| `resource_build` | a plan of 3 builds, see below | What the APKs and R classes hold means what the sources say. |
| `r_merge` (violation) | host, then bundle | A type only the bundle has is not in the merged R class. |
| `compat_xml` (violation) | 1 project | An attribute of Android L in a layout for older platforms. |

What `resource_build` checks, by property: a value is found under the constant of its name, in the
APK of its split, with its text (`ValuesReadBack`); references in values and names of attributes
in XML are the ids of what they name (`ReferencesMean`); what a bundle refers to in its host is
still that after the host was rebuilt (`HostLinksHold`); a build that ends well has lost no value
and no file, and its APKs have the files their tables name (`NothingLost`); of several densities
the right one stays (`BestDensityKept`); no style for a platform before L has an attribute of L
(`OldStylesClean`).

Why the bounds are enough. Two ids are what it takes to confuse two bundles, and a third bundle
without an id meets the exhausted counter; two revisions are an update and the revision it
replaces; two APKs are the old and the new one; one failure, two in `bundle_startup`, is followed by any number of crashes,
which are not bounded. With one revision in `bundle_startup` an update still
happens: an uninstall takes the last key of the version map to zero. With two threads and five units at backlog 1 the queue is full (two
pending), blocked (two clients, woken by one dequeue), draining, closing and stopped by its units at once; what it shows of safety
the proofs show of any number. `InOrder` takes the units, which are alike, and the threads that were not
started in one order, as a symmetry set would, which liveness does not allow. Three versions of patches give
two to reorder and one to undo in between. Two processes over one archive are a build and an
update, an addition or a removal on top of it, or what a killed one left and the next; contents of
one to three cells, which grow or shrink with an edit, make deflating pay or not and let an overwritten entry be shorter or longer
than the new one; the clock reaches an odd second, which is the one that is rounded.

The plan of `resource_build` is first one of the host, 12 variants of it and 11 broken projects, then
the bundle or a changed host, then the other one. The host has one of each thing that
meets another in the compiler: public and other resources of a type, an attribute with constants,
a style with a parent, images in two densities, strings in a second language, a layout with an attribute of its own. A
variant adds one thing more: an overlay, one that adds what it does not declare, splits by density with icons for the
launcher, a language filter with required locales, a pseudolocale and a maximum version, two wanted densities, a manifest
that the command line rewrites, no output file, an empty project, private and Java symbols, and every
element that a values file can have. Each broken project fails at a place of its own, so that every
early return is taken. `MaxCacheEntries` is 2 and the hash code of a name its last part, so
the cache is full and has collisions within each build. `Ties = "kept"`: `qsort` is stable on
the strings of the instance.

`bundle_crash` has the constraint `BeforeReuse`. Its properties say nothing after a restore left
the id counter behind the ids in use (`reusedIds`), and with one APK version nothing resets
that: only a purge does, and no purge follows the stored key. So the states cut off, and
all their successors, satisfy the properties trivially. `bundle_meta` shows that such states
are reached, and what happens there.

`IdsDistinct`, `LoadedIsOwnCode`, `OthersUntouched` and `RestartMatchesTable` are stated for storages whose
counter was not left behind because the code has that hole (`Framework.java:226`); the
violation run is the evidence. `RestartMatchesTable` also excludes processes that saw an I/O error, as the
code logs those and goes on; it does cover the processes after that one.
`RestartRunsMap` ends with the first failed install for the same reason (`leftover`).

### Fairness

`BundleFramework`: weak fairness of what start-up does next and of what a begun operation does next,
as the threads of a process that is up are scheduled. `StartUpEnds` is about a process that
stays up and sees no I/O error, whatever earlier ones left; nothing makes the user start the application. `WorkQueue`: weak fairness of each work
thread, whose units return, and of a client that was woken or can return from a join. No
fairness for calls, and none for spurious wakeups. `PreProcessImages`: in addition the
loop goes on. The other modules have safety properties only: a command that is killed or fails is run
again by hand, and nothing in caapt waits but its queue.

## 5. Findings

* `bundle_uninstall`: `purge` removes the current revision only; with a newer one on disk the
  bundle is restored and loaded at the next start.
* `bundle_meta`: a crash before the id counter is saved makes two bundles share a directory.
* `update_cruft`: the usage text says that `-u` removes deleted files (`Main.cpp:116`), and the
  comment above the search for cruft that what is not "already slated for deletion" is removed now
  (`Package.cpp:139`). The condition is `!marked && deleted` (`Package.cpp:149`): it finds only what was
  slated already, and a file that is no output any more stays in the APK. `PackagesWhatWasAsked`
  therefore lets an update keep what was there, and does not ask for it.
* `r_merge`: the merge visits the inner classes of the host's R only, so a class that only the
  bundle has is missing from the merged file (`RMerge.cpp:172`; `README.md:190` promises both).
* `compat_xml`: attributes for newer platforms are noted by index and removed in ascending
  order, each removal moving those behind it. Of two adjacent ones the second stays
  (`ResourceTable.cpp:4604`).

Met while modelling, and kept in the models without a run of their own:

* `WorkQueue.cpp`: a unit that returns false after `finish` ends its thread and discards nothing. When
  units end every thread that way (`StoppedLate`), pending units are left neither run nor deleted, and blocked
  posters, which `finish` does not wake, sleep on. `FinishCompletes`, `UnitsServed` and `ScheduleReturns` make
  this one exception. caapt has one client, whose unit always returns true, so it does not happen there.
* `ZipFile.cpp:511`: `addCommon` counts the new entry before the seek back to its header; if that
  fails, the entry is counted and not in the list (`AddLost`). The commands that look at the result of `add`
  stop there, but `processJarFile` does not (`Package.cpp:420`): the next class reaches the assertion
  at `ZipFile.cpp:377` with a count that is off, and the process dies. If it was the last class, the flush
  meets the assertion of `crunchArchive`, which counts too. `TypeOK` claims the count where an add may follow, except after an I/O error in a run with classes.
* `HotPatchManager.java`: in the process that installs it a patch is put before the base APK, after a
  restart behind it.
* `ZipFile.cpp:933`: a truncation that fails is "not fatal", but an archive that got shorter then
  still has its old end record behind the new one, and a reader finds that one, with offsets that
  are no longer true. `SuccessIsSound` therefore counts this failure among those that are
  dropped (`unreported`).
* `ZipFile.cpp:1041`: when a crunch fails half-way the error is returned, the command notes it, and the
  destructor flushes again. This second crunch counts fewer deleted entries than the end record
  expects, and the process dies at the assertion before a package command removes the archive.
* `Package.cpp:285`: an update compares time stamps and nothing else. A name that is made of another
  source than before (another asset directory, a file that is compiled from now on) keeps its old content if the
  new source is not younger. `FreshUnlessRounded` is therefore stated for names with one source (`OneSource`).
* `Package.cpp:86`: a plain package on an existing archive prints an error and returns `NO_ERROR`.
* `modifyForCompat` of the table: the copy for L of an unqualified style hides the style that
  a directory `-v17` has, on a device with L.
* XML and table use different minimal versions: the command line's and the manifest's.
* `R.java` is written before the APKs: a failure in between leaves a new class with an old APK.
* The names of attributes in XML fall back to the host's attributes whether these are public or
  not; only what is public keeps its id. `HostLinksHold` covers references in values, which are
  resolved among public resources.
* An id that "@+id" makes while the table is flattened comes after the symbols were collected and
  is not in `R.java`.
* `string-array` is never pseudolocalized (`ResourceTable.cpp:1441`).

## 6. Proofs

TLAPS proves the following for all values of the constants that satisfy the named assumptions.
These say that numbers are naturals, that sets that are counted or searched are finite
(`IsFiniteSet(Names)` of `PatchAssumption`: names of files in a directory), that a packed bundle is a
location, that every version of a source is a content and has a size, that outputs are outputs and what
`add` and `remove` name are files (`WriterAssumption`, `ArchiveAssumption`), and that markers differ from values (`MarkerAssumption`, `RecordAssumption`).
`SourcesAssumption` says of the projects of a plan what the parsers and the platform give: lists are
lists, a configuration that a directory name stands for is in `ConfigOrder`, an order names nothing
twice, a tag that has children has a list of them, an event of a document is one of six kinds. Of
the framework it says that nothing is built under the package id of one of its attributes (what is built are
hosts and bundles, not the framework itself, of which `KindId` has the kind `System`) and that what has the id of such an attribute is an attribute.

Every state property is proved along the same line. It is not inductive; an invariant is, that adds
what the code knows where it is. Each conjunct of the invariant has its lemma (`…Step`), with
one step per action. TLC checked the invariants on the instances of section 4 before.

### Bundles

`BundleFrameworkProofs`: `ApkInvariance`, `TypeCorrect`, `NoStaleCode`. That no code of another APK
is loaded comes from what is in the storage. `StorageIsCurrentApk` says that
once the key of the installed APK is stored, or the purge of this process is over, every zip is
of this APK. To keep it, the purge has to find every zip (`ZipsInDirs`, since it looks for
directories), the copy must write into the directory it made (`OpInv`), and a process that is
down must run nothing (`DownInv`, so that replacing the APK is harmless). `MaxOfBounded` gives
the maximum of a set of revisions, by well-founded induction on naturals.

In its second part, `IdsApart`, `OwnCode`, `OthersKept` and `CurrentKept` follow from `StoreInv`. `IdsInv` has
the heart of it: no directory in use lies at or beyond the counter, so a new id is nobody's
(`NewDirInv` says so of the directory while it is filled), and a directory holds code
of one bundle (`ZipOwnerInv`). All of it is conditional on `~reusedIds`, the hole of section 5.
That it survives a restart needs `OneDirInv`: two directories that a start would accept are
never those of one bundle. The action properties follow by looking at which
directory each step writes (`OpInv`, `WorkInv`).

`RestartFaithful` and `KeyCovers` rest on `StorageInv`, which adds `DiskInv`: without an I/O error in
this process, the disk says of each bundle what the table says, with the exceptions that an
update or an uninstall in progress makes (`RevisionsOnDisk`), and the counter on the disk is ahead
unless it is just being written (`CounterOnDisk`). `ThreadInv` tells which thread runs which step, and
`FirstRunInv` that a packed bundle is in the table, or still to be installed, until the
key is stored.

### The work queue

`WorkQueueProofs`: `QueueInvariance`, `QueueTypes`, `IdleThreads`. `QueueInv` is the type invariant,
with the agreement of thread states and the thread list, and `IdleThreadsExact`. That the counter
never goes negative needs both. The lemmas `IdleEnters` and `IdleLeaves` give the cardinality of
the idle threads when one comes or goes. `NoWakeupLost` rests on `QueueInv`; `PoolGrows` and
`BacklogBounded` on `PoolInv`: while the pool may grow, pending units do
not outnumber idle threads; a poster only blocks when the pool is complete; and the pending units
are within the throttle. The pool cannot grow beyond the throttle because each new unit
needs an idle thread or a new one.

In the second part, `Ownership` is the invariant that an accepted unit is pending, held by one
thread, or run, and that only a cancel takes it out of these places (`Places`). From it
`UnitsDeletedOnce` and the refinement `ImplementsBag`, one step of the bag or a stutter for each step of the queue.
`ThreadsFixed` says that `finish` joins all threads, and `FinishServes` that nothing is left then, with the
exception of section 5. `ServedInv` has why: a thread ends only when the queue was canceled, which empties it, or is finished and
empty, or when its unit stopped it after `finish`; so pending units behind ended threads mean that each ended the last way.

`PreProcessImagesProofs`: `JobUsesQueue` shows that a job only makes steps of the queue, which makes all
of these theorems true of it. `ImagesInv` adds whose the poster's unit is (`PosterInv`), and that
`hasErrors` is up to date with what ran and what was refused (`ErrorsInv`). As no image stops the queue (`AlwaysOn`), the exception of `FinishServes` does not occur. With them, `ResultTruthful`
and `UnitsFreed`.

### Hot patches

`HotPatchProofs`: `PatchInv` gives `NewestFound`, `PatchedBundles`, `PatchesOfThisApk` and `RestartSame`. `LoaderInv`
says of the list of the class loader that the newer of two patches is found first
(`FirstAt` is the place of its first occurrence: a patch can be loaded twice) and the bundles after every patch.
`FirstCons`, `FirstSnoc` and `OrderedCons` to `OrderedRun` say what an element in front or behind does to these places.
It needs that a new patch has the greatest version (`CallInv`), and `DirsInv` that the map and the
directories agree while a call is in progress. A restart appends in
the order of the `TreeMap`, which the model states by what it gives: the versions that load as a
descending sequence (`Descending`); `DescendingExists` shows that every finite set has one.

### The archive

`ApkWriterProofs`: `WriterInv` says for each place in `ZipFile` where the bytes are (`Layout`). Between
methods: the live entries are whole and lie before the place for the directory, in order
(`InPlace`), and if nothing is to be written the file is sound. While an entry is added, its header
lies where the directory began. In a crunch, the entries before the current one are in their new
places, those behind are where they were, and the gap is exactly `adjust` wide (`Shifted`): this is why moving the next
entry destroys neither. Behind it, nothing deleted is left (`AllLive`) and the directory
lies behind the entries (`DirectoryBehind`). It is conditional on `Sane`: the command can still
report success and no I/O error was dropped. `SuccessIsSound` is then what `Layout` says when the
command ends. `UniqueNames` rests on `UniqueInv`: the name being added is free, as a marked duplicate
is refused and an old entry is deleted first.

`ApkContentsProofs` is about what is in the archive. `ArchiveTypes` holds of every archive that a killed or failed
command can leave, whose directory can lie anywhere in old data, so `WriterInv` says nothing of it.
`CountInv` is the part that the assertion of `addCommon` needs: the count is the length of the list wherever an
add may follow, and `AddLost` is the only step that breaks it, to a state in which only a class can follow.
The invariant `ArchiveInv` has, next to it, `BoundsInv`: every cell is one (`CellOf`), the directory begins within
the file, and so does every entry of a list that can be written: opening accepts no entry without
a header in the file, and while entries are added and moved the file does not shrink. In a crunch, entries
of such an archive may overlap. That none is moved to a place before the file begins is `NoLater`, the distance to move by is never
more than the offset of what comes next; the asserted `HasRoom` gives that.

`BoundsInv` is stated for any set of triples of name, content and time that entries may have, and instantiated
with `Honests`: an entry of a source is a version of that source, and its time is not later than
the second to which that version's own is rounded up. It survives kills, because even a directory entry that is read from old data was written by
an honest process. That is what `SourcesFresh` needs of the archive an update finds: an entry
whose time is not older than the source is its current version, or the edit was within the second.

`ContentsAsAsked` and `SourcesFresh` rest on `RunInv`, which holds of a sane package run. `AsAsked`: the names in the
archive, the one being added and those still to come are together those that were there and those
that are wanted, and what is not wanted is as it was. `Arriving`: an addition that was reported is in the
list. `OnDisk`: what a finished flush left reads as the list says, so the properties, which
look at the file, speak of it. `FreshInv`: an output is fresh, or still to come. `BeforeInv` says that no name occurs twice in the archive
the run began with, which `UniqueNames` of the run before it gives.

`SmallestOf` and `LargestOf` give the least and the greatest number of a set by well-founded
induction on finite sets; the first entry with an offset, the last one of a name and the like are
found with them.

### Resources

What `ResourceBuild` computes is folds: over directories, files, tags, entries, the values of a
bag. The induction theorems of the library take an operator as a parameter and cannot be cited, so
`FoldFacts` has the step that is folded and what it keeps as constants of the module,
and a proof about a fold takes an instance of it. `LeftKeeps` and `SetKeeps` say that what
holds of the base and is kept for each element holds of the fold. They rest on `FoldExists`
and `FoldInduction`, over the subsets of a finite set, where finite means that a set of
subsets has a least one (`Tame`). `FoldFacts` extends only `Naturals`, to keep its instances
small; what it needs to know of numbers is a hypothesis that `SmallestNumber` discharges. `tlapm` takes
about twenty minutes for `ResourceBuildProofs`.

`BestDensities`: a variant that no other beats, of those that differ from it in the density only, is left by
both passes of the filter. `SecondPass` goes through the configurations of a group in order, so
the proof needs that the ranks of the configurations fill the places from the first on, without a gap
(`RanksFill`): only then is every one of them looked at. What is read has
configurations of `ConfigOrder`, through overlays and missing directories too.

`TablesSound` is the inductive invariant of a build, `BuildInv`. Its core is `TableOk`:

* a value of a bag whose key has the id of an attribute of Android L is stored under the name of
  that attribute, and a search for this name gives this id (`KeyOk`), so that the pass that looks for it finds
  it;
* where the cache answers with such an id, the included tables have it under the name that was
  asked for (`CachedOk`), whichever names of one hash code came before;
* these attributes are of a package that is not being built (`IncludedOk`), so no id that the build
  gives is one of theirs;
* the sets that folds go over are finite, and the lists are lists.

It holds from `NewTable` through every values file, tag by tag (`CompileResourceFile`), the
file resources, `assignResourceIds`, each XML file and each item of the work queue, to which
XML files add while it is drained. `modifyForCompat` then makes the table `Clean`: each bag of a
configuration before L loses its attributes of L, to a copy for L unless there is one, and
no copy is for a platform before L. `ApksClean` carries this through `flatten` to the base and every split, and
`OldStyles` reads it off what is published. So `OldStylesClean` holds of every plan, every set of
included packages, and every split. That the layouts of the same build do not have this property is
a finding of section 5.

### Model-checked only

* Liveness (`StartUpEnds`, `UnitsServed`, `ScheduleReturns`, `FinishReturns`, `ImagesEnd`), with fairness
  and ENABLED: out of the prover's reach.
* `ValuesReadBack`, `ReferencesMean`, `HostLinksHold` and `NothingLost`. They compare an APK, or
  two, with what the sources say, and depend on the sources: they hold where no two values of a
  configuration have one name, where `<public>` lines leave room for the other entries, and where
  a host that is rebuilt still declares what it did, as the plan of `resource_build` does. To state
  that for all sources would be to restate most of the compiler. What holds whatever the
  sources are is `BuildInv`.
* The five properties of violation runs, which do not hold.

## 7. Not modelled

* Two threads that change bundles at once. Nothing in the code keeps a second thread out
  (`Framework.java:223`, `BundleCore.java:140`), nothing says that it works, and the sample has one.
* Runtime hooks and reflection: they call into Android, whose activities, resources and main
  looper would have to be invented.
* The crunch cache: one pass over two listings that compares time stamps, in a command that
  the Gradle files do not call. A stale image stays stale, and no line says otherwise.
* Pixels: PNG reading, nine-patch analysis, compression.
* In the compiler: argument parsing and the daemon mode, `dump`, resources in a zip file
  (`slurpResourceZip`), the callback for generated resources, dependency files, comments and annotations in `R.java`, the
  characters of pseudolocales, the bytes of chunks and the UTF conversions, the literals that
  `ResTable::stringToValue` of the platform reads.
* Logging, printing, argument strings, the sample's and the demos' screens, the Gradle files.
