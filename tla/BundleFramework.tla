------------------------- MODULE BundleFramework -------------------------
(***************************************************************************)
(* The bundle framework of DynamicAPK: ctrip.android.bundle.framework      *)
(* (Framework, BundleCore, BundleImpl), its storage package (BundleAchive, *)
(* BundleArchiveRevision) and the start-up protocol that drives them       *)
(* (BundleBaseApplication.onCreate).                                       *)
(*                                                                         *)
(* The storage directory survives the process; the bundle table, the id    *)
(* counter and the class path do not.  The process may die between any two *)
(* file operations.  Files written by a dead process keep what was written *)
(* (process death, not power loss), so a file is Absent, Torn (opened and  *)
(* truncated, not yet complete) or complete.                               *)
(*                                                                         *)
(* One thread of the process mutates the storage at a time: the main       *)
(* thread in onCreate, then the background thread of the first run, then   *)
(* whichever thread of the application calls BundleCore.                   *)
(***************************************************************************)
EXTENDS Integers, FiniteSets

CONSTANTS
  Locations,     \* the bundles, by location (package name)
  Packed,        \* those packed in the APK; the others are installed on demand
  MaxBundleID,   \* bound: bundle ids the storage can hand out
  MaxRevision,   \* bound: version_N directories per bundle
  MaxApk,        \* bound: versions of the host APK
  MaxIOErrors,   \* bound: file operations that throw IOException, over all processes
  Absent,        \* no such file, no such bundle
  Torn,          \* a file that was opened and truncated but never completed
  Saved          \* a revision's meta file, complete

ASSUME BundleAssumption ==
  /\ Packed \subseteq Locations /\ Packed # {}
  /\ MaxBundleID \in Nat \ {0}
  /\ MaxRevision \in Nat \ {0}
  /\ MaxApk \in Nat \ {0}
  /\ MaxIOErrors \in Nat

\* The markers are told apart from each other and from the data they stand beside.
ASSUME MarkerAssumption ==
  /\ Absent # Torn /\ Absent # Saved /\ Torn # Saved
  /\ {Absent, Torn, Saved} \cap Locations = {}
  /\ {Absent, Torn, Saved} \cap Nat = {}
  /\ {Absent, Torn, Saved} \cap (Locations \X (1..MaxApk)) = {}

Ids       == 1..MaxBundleID
Revisions == 1..MaxRevision
Apks      == 1..MaxApk
\* What a bundle.zip holds: the code of a location as built for an APK version.
Content   == Locations \X Apks
Slots     == Ids \X Revisions

VARIABLES
  \* on disk
  apkKey,        \* version of the installed APK (buildBundleKey)
  prefKey,       \* "last_bundle_key" in the shared preferences, 0 if none
  frameMeta,     \* storage/meta: the next bundle id
  bundleMeta,    \* storage/<id>/meta: the location
  revDir,        \* storage/<id>/version_<v> exists
  revMeta,       \* storage/<id>/version_<v>/meta
  revZip,        \* storage/<id>/version_<v>/bundle.zip
  \* in the process
  proc,          \* life of the process
  step,          \* next file operation of the mutating thread
  op,            \* bundle it is working on
  todo,          \* bundles the first run still has to install
  nextBundleID,  \* Framework.nextBundleID
  bundles,       \* Framework.bundles: id, current revision, last key of the revision map, isOpt
  loaded,        \* code that optDexFile put on the class path
  \* history, read by properties only
  reusedIds,     \* a restore left the id counter at or below an id in use
  ioErrors,      \* I/O errors so far
  ioFailed,      \* an I/O error was raised since the process started
  uninstalled    \* bundles whose last change was a completed uninstall

diskVars == <<apkKey, prefKey, frameMeta, bundleMeta, revDir, revMeta, revZip>>
procVars == <<proc, step, op, todo, nextBundleID, bundles, loaded>>
history  == <<reusedIds, ioErrors, ioFailed, uninstalled>>
vars     == <<diskVars, procVars, history>>

MaxOf(S) == CHOOSE m \in S : \A n \in S : n <= m

NoOp       == [loc |-> Absent, id |-> 0, rev |-> 0, new |-> FALSE]
NoBundles  == [l \in Locations |-> Absent]
Registered == {l \in Locations : bundles[l] # Absent}

\* Revision directories of a bundle directory: BundleAchive(File) keeps the
\* names version_<n> with n > 0 and takes the largest as the current one.
RevisionsOf(i) == {v \in Revisions : revDir[<<i, v>>]}

\* Mutant: firstKey for lastKey.
Newest_FirstKey(i) == CHOOSE v \in RevisionsOf(i) : \A w \in RevisionsOf(i) : v <= w
Newest(i)          == MaxOf(RevisionsOf(i))

\* Does BundleImpl(File) succeed on storage/<i>?  A torn meta file ends the
\* read with EOFException; a newest revision without meta with IOException.
Restorable(i) ==
  /\ bundleMeta[i] \in Locations
  /\ RevisionsOf(i) # {}
  /\ revMeta[<<i, Newest(i)>>] = Saved

DirsOf(l) == {i \in Ids : bundleMeta[i] = l /\ Restorable(i)}

\* Is anything left in storage/<i>?
InUse(i) == bundleMeta[i] # Absent \/ RevisionsOf(i) # {}

\* Is storage/<i> more than the remains of an install that died before it wrote meta?
Occupied(i) == bundleMeta[i] # Absent \/ \E v \in RevisionsOf(i) : v > 1

\* A file operation throws.
IOError ==
  /\ ioErrors < MaxIOErrors
  /\ ioErrors' = ioErrors + 1
  /\ ioFailed' = TRUE

NoIOError == UNCHANGED <<ioErrors, ioFailed>>

-----------------------------------------------------------------------------
(* Process life: start-up decision, first run, restore.                    *)

Init ==
  /\ apkKey = 1 /\ prefKey = 0
  /\ frameMeta = Absent
  /\ bundleMeta = [i \in Ids |-> Absent]
  /\ revDir = [s \in Slots |-> FALSE]
  /\ revMeta = [s \in Slots |-> Absent]
  /\ revZip = [s \in Slots |-> Absent]
  /\ proc = "down" /\ step = "none" /\ op = NoOp /\ todo = {}
  /\ nextBundleID = 1
  /\ bundles = NoBundles
  /\ loaded = NoBundles
  /\ reusedIds = FALSE /\ ioErrors = 0 /\ ioFailed = FALSE /\ uninstalled = {}

\* Mutant: any stored key counts as a complete install.
Boot_AnyKey ==
  /\ proc = "down"
  /\ proc' = "booting"
  /\ step' = IF prefKey # 0 THEN "restore" ELSE "purge"
  /\ ioFailed' = FALSE
  /\ UNCHANGED <<diskVars, op, todo, nextBundleID, bundles, loaded,
                 reusedIds, ioErrors, uninstalled>>

\* onCreate: compare the APK's key with the one of the last complete install.
Boot ==
  /\ proc = "down"
  /\ proc' = "booting"
  /\ step' = IF prefKey = apkKey THEN "restore" ELSE "purge"
  /\ ioFailed' = FALSE
  /\ UNCHANGED <<diskVars, op, todo, nextBundleID, bundles, loaded,
                 reusedIds, ioErrors, uninstalled>>

\* startup with ctrip.bundle.init: deleteDirectory(STORAGE_LOCATION), one child at a time.
PurgeBundleDir(i) ==
  /\ step = "purge"
  /\ InUse(i)
  /\ bundleMeta' = [bundleMeta EXCEPT ![i] = Absent]
  /\ revDir'  = [s \in Slots |-> IF s[1] = i THEN FALSE ELSE revDir[s]]
  /\ revMeta' = [s \in Slots |-> IF s[1] = i THEN Absent ELSE revMeta[s]]
  /\ revZip'  = [s \in Slots |-> IF s[1] = i THEN Absent ELSE revZip[s]]
  /\ UNCHANGED <<apkKey, prefKey, frameMeta, procVars, history>>

PurgeFrameMeta ==
  /\ step = "purge"
  /\ frameMeta # Absent
  /\ frameMeta' = Absent
  /\ UNCHANGED <<apkKey, prefKey, bundleMeta, revDir, revMeta, revZip, procVars, history>>

\* The storage is empty: mkdirs, then storeProfile (no bundle is registered yet).
PurgeDone ==
  /\ step = "purge"
  /\ frameMeta = Absent
  /\ \A i \in Ids : ~InUse(i)
  /\ step' = "frameOpen"
  /\ reusedIds' = FALSE
  /\ uninstalled' = {}
  /\ UNCHANGED <<diskVars, proc, op, todo, nextBundleID, bundles, loaded, ioErrors, ioFailed>>

\* restoreProfile: no meta file or a torn one restores nothing and leaves the counter
\* at 1; otherwise every bundle directory that BundleImpl(File) accepts is registered.
\* Of two directories with one location the one listed last wins.
Restore ==
  /\ step = "restore"
  /\ \/ /\ frameMeta \notin Nat
        /\ UNCHANGED <<nextBundleID, bundles>>
     \/ /\ frameMeta \in Nat
        /\ nextBundleID' = frameMeta
        /\ \E pick \in [Locations -> Ids] :
             /\ \A l \in Locations : DirsOf(l) # {} => pick[l] \in DirsOf(l)
             /\ bundles' = [l \in Locations |->
                  IF DirsOf(l) = {} THEN Absent
                  ELSE [id |-> pick[l], cur |-> Newest(pick[l]),
                        last |-> Newest(pick[l]), opt |-> FALSE]]
  /\ step' = "run"
  /\ reusedIds' = (reusedIds \/ \E i \in Ids : Occupied(i) /\ i >= nextBundleID')
  /\ UNCHANGED <<diskVars, proc, op, todo, loaded, ioErrors, ioFailed, uninstalled>>

\* BundleCore.run: optDexFile of every bundle not yet optimised.  A missing or torn
\* bundle.zip throws, which run() logs; the bundle stays unoptimised.
Optimisable == {l \in Registered : /\ ~bundles[l].opt
                                   /\ revZip[<<bundles[l].id, bundles[l].cur>>] \in Content}

OptDexFiles ==
  /\ bundles' = [l \in Locations |-> IF l \in Optimisable
                                     THEN [bundles[l] EXCEPT !.opt = TRUE] ELSE bundles[l]]
  /\ loaded' = [l \in Locations |-> IF l \in Optimisable
                                    THEN revZip[<<bundles[l].id, bundles[l].cur>>] ELSE loaded[l]]

Run ==
  /\ step = "run"
  /\ OptDexFiles
  /\ step' = "none" /\ proc' = "running"
  /\ UNCHANGED <<diskVars, op, todo, nextBundleID, history>>

\* The application calls BundleCore.run again after installing bundles on demand.
RunAgain ==
  /\ proc = "running" /\ step = "none"
  /\ Optimisable # {}
  /\ OptDexFiles
  /\ UNCHANGED <<diskVars, proc, step, op, todo, nextBundleID, history>>

\* The background thread of the first run opens the APK; if it cannot, it ends.
OpenApk ==
  /\ step = "openApk"
  /\ step' = "none"
  /\ \/ /\ proc' = "installing" /\ todo' = Packed
        /\ NoIOError
     \/ /\ IOError
        /\ proc' = "running"
        /\ UNCHANGED todo
  /\ UNCHANGED <<diskVars, op, nextBundleID, bundles, loaded, reusedIds, uninstalled>>

\* Mutant: the key is stored without waiting for every bundle to be attempted.
CommitKey_Early ==
  /\ proc = "installing" /\ step = "none"
  /\ prefKey' = apkKey
  /\ step' = "run"
  /\ UNCHANGED <<apkKey, frameMeta, bundleMeta, revDir, revMeta, revZip, proc, op, todo,
                 nextBundleID, bundles, loaded, history>>

\* Mutant: the editor is never committed.
CommitKey_NotStored ==
  /\ proc = "installing" /\ step = "none" /\ todo = {}
  /\ step' = "run"
  /\ UNCHANGED <<diskVars, proc, op, todo, nextBundleID, bundles, loaded, history>>

\* First run, all bundles attempted: store the key, then run.  Nobody checks commit().
CommitKey ==
  /\ proc = "installing" /\ step = "none" /\ todo = {}
  /\ \/ prefKey' = apkKey /\ NoIOError
     \/ IOError /\ UNCHANGED prefKey
  /\ step' = "run"
  /\ UNCHANGED <<apkKey, frameMeta, bundleMeta, revDir, revMeta, revZip, proc, op, todo,
                 nextBundleID, bundles, loaded, reusedIds, uninstalled>>

Crash ==
  /\ proc # "down"
  /\ proc' = "down" /\ step' = "none" /\ op' = NoOp /\ todo' = {}
  /\ nextBundleID' = 1
  /\ bundles' = NoBundles /\ loaded' = NoBundles
  /\ UNCHANGED <<diskVars, history>>

\* The package installer replaces the APK while the process is not running.
UpgradeApk ==
  /\ proc = "down"
  /\ apkKey < MaxApk
  /\ apkKey' = apkKey + 1
  /\ UNCHANGED <<prefKey, frameMeta, bundleMeta, revDir, revMeta, revZip, procVars, history>>

-----------------------------------------------------------------------------
(* installBundle, updateBundle, uninstallBundle.  At most one is under way; *)
(* every file operation is a step.                                         *)

Slot      == <<op.id, op.rev>>
KeepRevs  == UNCHANGED <<revDir, revMeta, revZip>>
KeepMetas == UNCHANGED <<apkKey, prefKey, frameMeta, bundleMeta>>
KeepTable == UNCHANGED <<proc, todo, nextBundleID, bundles, loaded>>

\* Mutant: the counter is not advanced.
InstallBegin_IdKept(l) ==
  /\ step = "none"
  /\ bundles[l] = Absent
  /\ proc = "running" \/ (proc = "installing" /\ l \in todo)
  /\ nextBundleID <= MaxBundleID
  /\ op' = [loc |-> l, id |-> nextBundleID, rev |-> 1, new |-> TRUE]
  /\ step' = "open"
  /\ todo' = todo \ {l}
  /\ UNCHANGED <<diskVars, proc, nextBundleID, bundles, loaded, history>>

\* Mutant: the id is the number of bundles in the table, plus one.
InstallBegin_CountAsId(l) ==
  /\ step = "none"
  /\ bundles[l] = Absent
  /\ proc = "running" \/ (proc = "installing" /\ l \in todo)
  /\ nextBundleID <= MaxBundleID
  /\ nextBundleID' = nextBundleID + 1
  /\ op' = [loc |-> l, id |-> Cardinality(Registered) + 1, rev |-> 1, new |-> TRUE]
  /\ step' = "open"
  /\ todo' = todo \ {l}
  /\ UNCHANGED <<diskVars, proc, bundles, loaded, history>>

\* installNewBundle: the id is taken from the counter before anything is on disk.
InstallBegin(l) ==
  /\ step = "none"
  /\ bundles[l] = Absent
  /\ proc = "running" \/ (proc = "installing" /\ l \in todo)
  /\ nextBundleID <= MaxBundleID
  /\ nextBundleID' = nextBundleID + 1
  /\ op' = [loc |-> l, id |-> nextBundleID, rev |-> 1, new |-> TRUE]
  /\ step' = "open"
  /\ todo' = todo \ {l}
  /\ UNCHANGED <<diskVars, proc, bundles, loaded, history>>

\* Mutant: the id of the rejected install is given back, and one more.
InstallRejected_IdGivenBack(l) ==
  /\ proc = "running" /\ step = "none"
  /\ bundles[l] = Absent
  /\ nextBundleID > 1
  /\ nextBundleID' = nextBundleID - 1
  /\ UNCHANGED <<diskVars, proc, step, op, todo, bundles, loaded, history>>

\* A null stream: BundleImpl throws and the id is spent.
InstallRejected(l) ==
  /\ proc = "running" /\ step = "none"
  /\ bundles[l] = Absent
  /\ nextBundleID <= MaxBundleID
  /\ nextBundleID' = nextBundleID + 1
  /\ UNCHANGED <<diskVars, proc, step, op, todo, bundles, loaded, history>>

\* Mutant: the update is written in place.
UpdateBegin_InPlace(l) ==
  /\ proc = "running" /\ step = "none"
  /\ bundles[l] # Absent
  /\ op' = [loc |-> l, id |-> bundles[l].id, rev |-> bundles[l].cur, new |-> FALSE]
  /\ step' = "open"
  /\ KeepTable
  /\ UNCHANGED <<diskVars, history>>

\* updateBundle -> newRevision: one past the last key of the in-memory map.
UpdateBegin(l) ==
  /\ proc = "running" /\ step = "none"
  /\ bundles[l] # Absent
  /\ bundles[l].last < MaxRevision
  /\ op' = [loc |-> l, id |-> bundles[l].id, rev |-> bundles[l].last + 1, new |-> FALSE]
  /\ step' = "open"
  /\ KeepTable
  /\ UNCHANGED <<diskVars, history>>

\* BundleArchiveRevision(n, dir, stream): mkdirs, then the zip is opened and truncated.
OpenZip ==
  /\ step = "open"
  /\ revDir' = [revDir EXCEPT ![Slot] = TRUE]
  /\ revZip' = [revZip EXCEPT ![Slot] = Torn]
  /\ step' = "copy"
  /\ KeepMetas /\ KeepTable
  /\ UNCHANGED <<revMeta, op, history>>

\* The stream holds the bundle as built for the APK that runs.
CopyStream ==
  /\ step = "copy"
  /\ revZip' = [revZip EXCEPT ![Slot] = <<op.loc, apkKey>>]
  /\ step' = "revMetaOpen"
  /\ KeepMetas /\ KeepTable
  /\ UNCHANGED <<revDir, revMeta, op, history>>

RevMetaOpen ==
  /\ step = "revMetaOpen"
  /\ revMeta' = [revMeta EXCEPT ![Slot] = Torn]
  /\ step' = "revMetaWrite"
  /\ KeepMetas /\ KeepTable
  /\ UNCHANGED <<revDir, revZip, op, history>>

\* The revision is complete.  An update enters it in the map and is done; the current
\* revision of the running process stays what it was.
RevMetaWrite ==
  /\ step = "revMetaWrite"
  /\ revMeta' = [revMeta EXCEPT ![Slot] = Saved]
  /\ \/ /\ op.new
        /\ step' = "bundleMetaOpen"
        /\ UNCHANGED <<op, bundles, uninstalled>>
     \/ /\ ~op.new
        /\ step' = "none" /\ op' = NoOp
        /\ bundles' = [bundles EXCEPT ![op.loc].last = op.rev]
        /\ uninstalled' = uninstalled \ {op.loc}
  /\ KeepMetas
  /\ UNCHANGED <<revDir, revZip, proc, todo, nextBundleID, loaded, reusedIds, ioErrors, ioFailed>>

\* An IOException while the revision is written.  A failed install deletes storage/<id>;
\* a failed update leaves the half-made revision where it is.
RevisionFails ==
  /\ IOError
  /\ step \in {"open", "copy", "revMetaOpen", "revMetaWrite"}
  /\ revDir' = [revDir EXCEPT ![Slot] = TRUE]
  /\ \/ op.new /\ step' = "cleanup" /\ UNCHANGED op
     \/ ~op.new /\ step' = "none" /\ op' = NoOp
  /\ KeepMetas /\ KeepTable
  /\ UNCHANGED <<revMeta, revZip, reusedIds, uninstalled>>

\* deleteDirectory, one leaf at a time: of the whole bundle directory after a failed
\* install, of the current revision's directory in an uninstall.
Deleting == CASE step = "cleanup"   -> {s \in Slots : s[1] = op.id /\ revDir[s]}
              [] step = "uninstall" -> {Slot}
              [] OTHER              -> {}

DeleteZip(s) ==
  /\ s \in Deleting
  /\ revZip[s] # Absent
  /\ revZip' = [revZip EXCEPT ![s] = Absent]
  /\ KeepMetas
  /\ UNCHANGED <<revDir, revMeta, procVars, history>>

DeleteRevMeta(s) ==
  /\ s \in Deleting
  /\ revMeta[s] # Absent
  /\ revMeta' = [revMeta EXCEPT ![s] = Absent]
  /\ KeepMetas
  /\ UNCHANGED <<revDir, revZip, procVars, history>>

DeleteBundleMeta ==
  /\ step = "cleanup"
  /\ bundleMeta[op.id] # Absent
  /\ bundleMeta' = [bundleMeta EXCEPT ![op.id] = Absent]
  /\ KeepRevs
  /\ UNCHANGED <<apkKey, prefKey, frameMeta, procVars, history>>

DeleteRevDir(s) ==
  /\ step = "cleanup"
  /\ s \in Deleting
  /\ revZip[s] = Absent /\ revMeta[s] = Absent
  /\ revDir' = [revDir EXCEPT ![s] = FALSE]
  /\ KeepMetas
  /\ UNCHANGED <<revMeta, revZip, procVars, history>>

\* The install throws to its caller, the id is spent.
CleanupDone ==
  /\ step = "cleanup"
  /\ ~InUse(op.id)
  /\ step' = "none" /\ op' = NoOp
  /\ KeepTable
  /\ UNCHANGED <<diskVars, history>>

\* updateMetadata of the bundle.  Its failure is logged and nothing else.
BundleMetaOpen ==
  /\ step = "bundleMetaOpen"
  /\ bundleMeta' = [bundleMeta EXCEPT ![op.id] = Torn]
  /\ step' = "bundleMetaWrite"
  /\ KeepRevs /\ KeepTable
  /\ UNCHANGED <<apkKey, prefKey, frameMeta, op, history>>

\* The install goes on: the bundle enters the table, then the counter is saved.
Register ==
  /\ bundles' = [bundles EXCEPT ![op.loc] =
                   [id |-> op.id, cur |-> 1, last |-> 1, opt |-> FALSE]]
  /\ uninstalled' = uninstalled \ {op.loc}
  /\ step' = "frameOpen"

BundleMetaWrite ==
  /\ step = "bundleMetaWrite"
  /\ bundleMeta' = [bundleMeta EXCEPT ![op.id] = op.loc]
  /\ Register
  /\ KeepRevs
  /\ UNCHANGED <<apkKey, prefKey, frameMeta, proc, op, todo, nextBundleID, loaded,
                 reusedIds, ioErrors, ioFailed>>

BundleMetaFails ==
  /\ IOError
  /\ step \in {"bundleMetaOpen", "bundleMetaWrite"}
  /\ Register
  /\ UNCHANGED <<diskVars, proc, op, todo, nextBundleID, loaded, reusedIds>>

\* storeMetadata: truncate, then write the counter.  Its failure is logged and nothing else.
StoreReturns ==
  /\ op' = NoOp
  /\ step' = IF proc = "booting" THEN "openApk" ELSE "none"

FrameMetaOpen ==
  /\ step = "frameOpen"
  /\ frameMeta' = Torn
  /\ step' = "frameWrite"
  /\ KeepRevs /\ KeepTable
  /\ UNCHANGED <<apkKey, prefKey, bundleMeta, op, history>>

FrameMetaWrite ==
  /\ step = "frameWrite"
  /\ frameMeta' = nextBundleID
  /\ StoreReturns
  /\ KeepRevs /\ KeepTable
  /\ UNCHANGED <<apkKey, prefKey, bundleMeta, history>>

FrameMetaFails ==
  /\ IOError
  /\ step \in {"frameOpen", "frameWrite"}
  /\ StoreReturns
  /\ KeepTable
  /\ UNCHANGED <<diskVars, reusedIds, uninstalled>>

\* uninstallBundle -> BundleAchive.purge.  If the directory is gone already,
\* deleteDirectory meets a null listing, the exception is logged and nothing changes.
UninstallBegin(l) ==
  /\ proc = "running" /\ step = "none"
  /\ bundles[l] # Absent
  /\ revDir[<<bundles[l].id, bundles[l].cur>>]
  /\ op' = [loc |-> l, id |-> bundles[l].id, rev |-> bundles[l].cur, new |-> FALSE]
  /\ step' = "uninstall"
  /\ KeepTable
  /\ UNCHANGED <<diskVars, history>>

\* Mutant: the last key is decremented below zero.
UninstallDone_NoFloor ==
  /\ step = "uninstall"
  /\ revZip[Slot] = Absent /\ revMeta[Slot] = Absent
  /\ revDir' = [revDir EXCEPT ![Slot] = FALSE]
  /\ bundles' = [bundles EXCEPT ![op.loc].last = @ - 1]
  /\ uninstalled' = uninstalled \cup {op.loc}
  /\ step' = "none" /\ op' = NoOp
  /\ KeepMetas
  /\ UNCHANGED <<revMeta, revZip, proc, todo, nextBundleID, loaded, reusedIds, ioErrors, ioFailed>>

\* The directory goes last; then the version map is left with one key, lastKey - 1 or 0.
\* The bundle stays in Framework.bundles.
UninstallDone ==
  /\ step = "uninstall"
  /\ revZip[Slot] = Absent /\ revMeta[Slot] = Absent
  /\ revDir' = [revDir EXCEPT ![Slot] = FALSE]
  /\ bundles' = [bundles EXCEPT ![op.loc].last = IF @ < 1 THEN 0 ELSE @ - 1]
  /\ uninstalled' = uninstalled \cup {op.loc}
  /\ step' = "none" /\ op' = NoOp
  /\ KeepMetas
  /\ UNCHANGED <<revMeta, revZip, proc, todo, nextBundleID, loaded, reusedIds, ioErrors, ioFailed>>

-----------------------------------------------------------------------------
\* What start-up does by itself once the process is up.
StartUp ==
  \/ \E i \in Ids : PurgeBundleDir(i)
  \/ PurgeFrameMeta
  \/ PurgeDone
  \/ Restore
  \/ OpenApk
  \/ \E l \in Locations : proc = "installing" /\ InstallBegin(l)
  \/ CommitKey
  \/ Run

\* What an operation does once it has begun.
Operation ==
  \/ OpenZip \/ CopyStream \/ RevMetaOpen \/ RevMetaWrite \/ RevisionFails
  \/ \E s \in Slots : DeleteZip(s) \/ DeleteRevMeta(s) \/ DeleteRevDir(s)
  \/ DeleteBundleMeta \/ CleanupDone
  \/ BundleMetaOpen \/ BundleMetaWrite \/ BundleMetaFails
  \/ FrameMetaOpen \/ FrameMetaWrite \/ FrameMetaFails
  \/ UninstallDone

\* What the application asks for while it runs.
Request ==
  \/ \E l \in Locations : \/ proc = "running" /\ InstallBegin(l)
                          \/ InstallRejected(l)
                          \/ UpdateBegin(l)
                          \/ UninstallBegin(l)
  \/ RunAgain

Next == Boot \/ StartUp \/ Operation \/ Request \/ Crash \/ UpgradeApk

Spec == Init /\ [][Next]_vars

\* The thread that mutates the storage is scheduled; nothing makes the user start the
\* application, call an operation, replace the APK or kill the process.
FairSpec == Spec /\ WF_vars(StartUp) /\ WF_vars(Operation)

-----------------------------------------------------------------------------
(* Properties.                                                             *)

Steps == {"none", "purge", "restore", "run", "openApk", "open", "copy", "revMetaOpen",
          "revMetaWrite", "cleanup", "bundleMetaOpen", "bundleMetaWrite", "frameOpen",
          "frameWrite", "uninstall"}

BundleRecord == [id : Ids, cur : Revisions, last : 0..MaxRevision, opt : BOOLEAN]
ASSUME RecordAssumption == Absent \notin BundleRecord
OpRecord     == [loc : Locations \cup {Absent}, id : 0..MaxBundleID,
                 rev : 0..MaxRevision, new : BOOLEAN]

\* Every variable has its type.
TypeOK ==
  /\ apkKey \in Apks /\ prefKey \in 0..MaxApk
  /\ frameMeta \in (1..MaxBundleID + 1) \cup {Absent, Torn}
  /\ bundleMeta \in [Ids -> Locations \cup {Absent, Torn}]
  /\ revDir \in [Slots -> BOOLEAN]
  /\ revMeta \in [Slots -> {Absent, Torn, Saved}]
  /\ revZip \in [Slots -> Content \cup {Absent, Torn}]
  /\ proc \in {"down", "booting", "installing", "running"}
  /\ step \in Steps
  /\ op \in OpRecord
  /\ todo \in SUBSET Locations
  /\ nextBundleID \in 1..MaxBundleID + 1
  /\ bundles \in [Locations -> BundleRecord \cup {Absent}]
  /\ loaded \in [Locations -> Content \cup {Absent}]
  /\ reusedIds \in BOOLEAN /\ ioErrors \in 0..MaxIOErrors /\ ioFailed \in BOOLEAN /\ uninstalled \in SUBSET Locations

\* Whatever crashed, failed or was interrupted before, no class of another APK version
\* is ever on the class path: the key in the preferences is what stands between a new
\* APK and the bundles an old one left in the storage.
LoadedIsCurrentApk ==
  \A l \in Locations : loaded[l] # Absent => loaded[l][2] = apkKey

\* What LoadedIsCurrentApk rests on: the thread's operation is well formed, ...
OpSteps == {"open", "copy", "revMetaOpen", "revMetaWrite", "cleanup",
            "bundleMetaOpen", "bundleMetaWrite", "uninstall"}
OpInv ==
  /\ step \in OpSteps =>
       /\ op.loc \in Locations /\ op.id \in Ids /\ op.rev \in Revisions
       /\ ~op.new => bundles[op.loc] # Absent
  /\ step = "uninstall" => ~op.new
  /\ step \in {"copy", "revMetaOpen", "revMetaWrite"} => revDir[Slot]
\* ... no zip lies outside a revision directory (the purge looks for directories), ...
ZipsInDirs == \A s \in Slots : revZip[s] # Absent => revDir[s]
\* ... a dead process runs nothing, ...
DownInv == proc = "down" => step = "none" /\ loaded = NoBundles
\* ... and with the key of the installed APK stored, or once the purge of this process is
\* over, every zip in the storage is of the installed APK.
StorageIsCurrentApk ==
  /\ prefKey <= apkKey
  /\ (prefKey = apkKey \/ (proc # "down" /\ step # "purge")) =>
       \A s \in Slots : revZip[s] \in Content => revZip[s][2] = apkKey

\* The inductive invariant.  Code from another APK version can only be loaded from a zip of
\* that version, and the key, the purge and the copy keep such zips out of the storage.
ApkInv == TypeOK /\ OpInv /\ ZipsInDirs /\ DownInv /\ StorageIsCurrentApk /\ LoadedIsCurrentApk

\* As long as no restore left the id counter behind the ids in use, what is loaded as
\* bundle l is bundle l's code.
LoadedIsOwnCode ==
  ~reusedIds => \A l \in Locations : loaded[l] # Absent => loaded[l][1] = l

\* Unless the counter was left behind, the running process has two bundles neither in
\* one directory nor under one id, and will not hand out an id again.
IdsDistinct ==
  ~reusedIds => \A l \in Registered :
    /\ bundles[l].id < nextBundleID
    /\ \A m \in Registered : bundles[l].id = bundles[m].id => l = m

\* An install, update or uninstall of one bundle writes nothing below the directory of
\* another bundle, whichever step it is at, unless the counter was left behind.
OthersUntouched ==
  [][ (op.loc # Absent /\ ~reusedIds) =>
        \A i \in Ids : (bundleMeta[i] \in Locations /\ bundleMeta[i] # op.loc) =>
          /\ bundleMeta'[i] = bundleMeta[i]
          /\ \A v \in Revisions : /\ revDir'[<<i, v>>] = revDir[<<i, v>>]
                                  /\ revMeta'[<<i, v>>] = revMeta[<<i, v>>]
                                  /\ revZip'[<<i, v>>] = revZip[<<i, v>>] ]_vars

\* The revision a running process has as current is rewritten by nobody: an update goes to
\* a directory of its own.  Only an uninstall of that bundle removes it.
CurrentRevisionStable ==
  [][ \A l \in Locations :
        (bundles[l] # Absent /\ l \notin uninstalled /\ ~reusedIds /\ proc' # "down"
           /\ ~(step = "uninstall" /\ op.loc = l)
           /\ bundles[l].cur <= bundles[l].last)
        => LET s == <<bundles[l].id, bundles[l].cur>>
           IN  revZip'[s] = revZip[s] /\ revMeta'[s] = revMeta[s] ]_vars

\* The key is stored only when every bundle packed in the APK would be restored by the next start,
\* or an I/O error was seen.
CommitCoversBundles ==
  [][ prefKey' # prefKey =>
        /\ prefKey' = apkKey
        /\ ioFailed \/ (frameMeta \in Nat /\ \A l \in Packed : DirsOf(l) # {}) ]_vars

\* What a start would find for l: the newest revision of the one directory of l.
WouldRestore(l, i, v) == DirsOf(l) = {i} /\ Newest(i) = v

\* Between operations, with no I/O error in this process and no id reused, a restart finds
\* each bundle in the same directory, at the newest revision of the running process's map,
\* and finds the same id counter.
RestartMatchesTable ==
  (step = "none" /\ proc \in {"installing", "running"} /\ ~ioFailed /\ ~reusedIds) =>
    \A l \in Registered \ uninstalled :
      /\ WouldRestore(l, bundles[l].id, bundles[l].last)
      /\ frameMeta \in Nat /\ frameMeta > bundles[l].id

\* The framework "manages start, update and uninstall of each bundle" (Framework.java:25)
\* and purge "cleans the files" (Archive.java:49): a bundle whose uninstall completed is not
\* loaded by a later start.
UninstalledStaysGone ==
  [][ \A l \in uninstalled : loaded[l] = Absent => loaded'[l] = Absent ]_vars

\* The bundle meta file "stores the bundle id, the location" (BundleImpl.java:20): between
\* operations, the directory of a bundle in the table says so.
MetaNamesBundle ==
  (step = "none" /\ ~ioFailed) => \A l \in Registered : bundleMeta[bundles[l].id] = l

\* A process that stays up and sees no I/O error gets through start-up and through every
\* operation it began, and the key of the installed APK is stored, whatever earlier processes
\* left in the storage.
StartUpEnds ==
  <>[](proc # "down" /\ ~ioFailed) =>
    []<>(step = "none" /\ proc = "running" /\ prefKey = apkKey)

=============================================================================
