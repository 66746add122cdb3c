------------------------------ MODULE HotPatch ------------------------------
(***************************************************************************)
(* Hot patches of DynamicAPK: HotPatchManager and HotPatchItem, the order  *)
(* BundlePathLoader gives the dex elements of the class loader, and the    *)
(* part of BundleBaseApplication.onCreate that purges or runs the patches. *)
(*                                                                         *)
(* A class is taken from the first dex element that has it, so the order   *)
(* of dexElements is what a patch is about.  A patch lives in a directory  *)
(* <name>_<version>; the directories outlive the process, the map and the  *)
(* dex elements do not.  The process may die between two file operations.  *)
(* The application calls installHotPatch from one thread at a time; the    *)
(* thread of the first run goes on meanwhile.                              *)
(***************************************************************************)
EXTENDS Integers, Sequences, FiniteSets

CONSTANTS
  Names,         \* file names given to installHotPatch
  Undoes,        \* those that end in _rst, each with the name in front of it
  Contains,      \* <<n, m>>: the directory names of m contain n
  MaxVersion,    \* bound: patch versions
  MaxApk,        \* bound: versions of the host APK
  MaxElements,   \* bound: dex elements when an install begins
  MaxIOErrors,   \* bound: file operations and dex loads that fail
  Absent,        \* no file, no entry
  Torn           \* hotfix.zip that is no zip file

Versions == 1..MaxVersion
Apks     == 1..MaxApk
Slots    == Names \X Versions

ASSUME PatchAssumption ==
  /\ DOMAIN Undoes \subseteq Names
  /\ \A n \in DOMAIN Undoes : Undoes[n] \in Names
  /\ Contains \subseteq Names \X Names /\ \A n \in Names : <<n, n>> \in Contains
  /\ IsFiniteSet(Names)
  /\ MaxVersion \in Nat /\ MaxApk \in Nat \ {0} /\ MaxIOErrors \in Nat
  /\ MaxElements \in Nat
  /\ Absent # Torn /\ {Absent, Torn} \cap (Names \cup Nat) = {}

VARIABLES
  \* on disk
  apkKey,       \* version of the installed APK
  prefKey,      \* last_bundle_key, 0 if none
  dir,          \* patchDir/<name>_<version> exists
  zip,          \* its hotfix.zip: Absent, Torn or the APK version it was made for
  \* in the process
  proc,         \* life of the process
  firstRun,     \* the thread that installs the bundles of a new APK
  call,         \* step of installHotPatch
  slot,         \* directory it works on
  sortedMap,    \* HotPatchManager.sortedMap
  dexElements,  \* pathList.dexElements of the class loader
  \* history
  ioErrors,
  live,         \* versions in the map whose item was loaded in this process
  leftover      \* an install failed and left its directory, since the last purge

diskVars  == <<apkKey, prefKey, dir, zip>>
callVars  == <<call, slot>>
history   == <<ioErrors, live, leftover>>
patchVars == <<diskVars, proc, firstRun, callVars, sortedMap, dexElements, history>>

NoSlot   == <<Absent, 0>>
NoMap    == [v \in Versions |-> Absent]
Mapped   == {v \in Versions : sortedMap[v] # Absent}
FirstKey == IF Mapped = {} THEN 0 ELSE CHOOSE v \in Mapped : \A w \in Mapped : w <= v
Dirs     == {s \in Slots : dir[s]}

\* isPatchInstalled: hotfix.zip opens as a zip file.
Installed(s) == zip[s] \in Apks

\* Dex elements: the APK, the bundles, and a patch with the APK it was made for.
Base       == <<"base", 0, 0>>
Bundles    == <<"bundles", 0, 0>>
Element(s) == <<s[1], s[2], zip[s]>>

Fails == ioErrors < MaxIOErrors /\ ioErrors' = ioErrors + 1

\* expandFieldArray: hot fixes in front, everything else behind.
Expand(elements, extra, isHotFix) ==
  IF isHotFix THEN extra \o elements ELSE elements \o extra

-----------------------------------------------------------------------------
Init ==
  /\ apkKey = 1 /\ prefKey = 0
  /\ dir = [s \in Slots |-> FALSE]
  /\ zip = [s \in Slots |-> Absent]
  /\ proc = "down" /\ firstRun = "none" /\ call = "none" /\ slot = NoSlot
  /\ sortedMap = NoMap
  /\ dexElements = <<>>
  /\ ioErrors = 0 /\ live = {} /\ leftover = FALSE

\* Mutant: the key is stored before the purge.
Boot_KeyFirst ==
  /\ proc = "down"
  /\ proc' = IF prefKey = apkKey THEN "run" ELSE "purge"
  /\ dexElements' = <<Base>>
  /\ prefKey' = apkKey
  /\ UNCHANGED <<apkKey, dir, zip, firstRun, callVars, sortedMap, history>>

\* onCreate with the key of another APK: purge everything; with the same key: run.
Boot ==
  /\ proc = "down"
  /\ proc' = IF prefKey = apkKey THEN "run" ELSE "purge"
  /\ dexElements' = <<Base>>
  /\ UNCHANGED <<diskVars, firstRun, callVars, sortedMap, history>>

PurgeDir(s) ==
  /\ proc = "purge"
  /\ dir[s]
  /\ dir' = [dir EXCEPT ![s] = FALSE]
  /\ zip' = [zip EXCEPT ![s] = Absent]
  /\ UNCHANGED <<apkKey, prefKey, proc, firstRun, callVars, sortedMap, dexElements, history>>

\* The application is up; a thread installs the bundles of the APK.
PurgeDone ==
  /\ proc = "purge"
  /\ Dirs = {}
  /\ proc' = "up" /\ firstRun' = "install"
  /\ leftover' = FALSE
  /\ UNCHANGED <<diskVars, callVars, sortedMap, dexElements, ioErrors, live>>

\* initHotPatchs: of two directories with one version, the one listed last stays in the map.
Listings ==
  {f \in [Versions -> Names \cup {Absent}] :
     \A v \in Versions : LET named == {n \in Names : dir[<<n, v>>]}
                         IN IF named = {} THEN f[v] = Absent ELSE f[v] \in named}

\* The versions of a listing whose file is a zip file and loads; run skips the others.
Loadable(listing, failing) ==
  {v \in Versions : LET s == <<listing[v], v>> IN s \in Slots \ failing /\ Installed(s)}

\* The numbers of a finite set, greatest first: the comparator of sortedMap.
Descending(S) ==
  CHOOSE q \in [1..Cardinality(S) -> S] :
    /\ \A v \in S : \E i \in DOMAIN q : q[i] = v
    /\ \A i, j \in DOMAIN q : i < j => q[j] < q[i]

\* Mutant: the map in the natural order of its keys.
NewestFirst_Ascending(listing, failing) ==
  LET order == Descending(Loadable(listing, failing))
      n     == Len(order)
  IN [i \in 1..n |-> Element(<<listing[order[n + 1 - i]], order[n + 1 - i]>>)]

\* The patches of a listing, newest first; one that cannot be loaded is skipped.
NewestFirst(listing, failing) ==
  LET order == Descending(Loadable(listing, failing))
  IN [i \in DOMAIN order |-> Element(<<listing[order[i]], order[i]>>)]

\* Mutant: BundleCore.run before HotPatchManager.run.
Run_BundlesFirst ==
  /\ proc = "run"
  /\ \E listing \in Listings, failing \in SUBSET {s \in Slots : Installed(s)} :
       /\ ioErrors' = ioErrors + Cardinality(failing)
       /\ ioErrors' <= MaxIOErrors
       /\ sortedMap' = listing
       /\ live' = Loadable(listing, failing)
       /\ LET bundled == Expand(dexElements, <<Bundles>>, FALSE)
          IN dexElements' = Expand(bundled, NewestFirst(listing, failing), FALSE)
  /\ proc' = "up"
  /\ UNCHANGED <<diskVars, firstRun, callVars, leftover>>

\* HotPatchManager.run, then BundleCore.run, on the main thread before anything else.
Run ==
  /\ proc = "run"
  /\ \E listing \in Listings, failing \in SUBSET {s \in Slots : Installed(s)} :
       /\ ioErrors' = ioErrors + Cardinality(failing)
       /\ ioErrors' <= MaxIOErrors
       /\ sortedMap' = listing
       /\ live' = Loadable(listing, failing)
       /\ LET patched == Expand(dexElements, NewestFirst(listing, failing), FALSE)
          IN dexElements' = Expand(patched, <<Bundles>>, FALSE)
  /\ proc' = "up"
  /\ UNCHANGED <<diskVars, firstRun, callVars, leftover>>

\* The thread of the first run: store the key when every bundle was tried, then run them.
CommitKey ==
  /\ firstRun = "install"
  /\ prefKey' = apkKey
  /\ firstRun' = "run"
  /\ UNCHANGED <<apkKey, dir, zip, proc, callVars, sortedMap, dexElements, history>>

RunBundles ==
  /\ firstRun = "run"
  /\ dexElements' = Expand(dexElements, <<Bundles>>, FALSE)
  /\ firstRun' = "none"
  /\ UNCHANGED <<diskVars, proc, callVars, sortedMap, history>>

\* The process dies; what it had written stays.
Crash ==
  /\ proc # "down"
  /\ proc' = "down" /\ firstRun' = "none" /\ call' = "none" /\ slot' = NoSlot
  /\ sortedMap' = NoMap
  /\ dexElements' = <<>> /\ live' = {}
  /\ UNCHANGED <<diskVars, ioErrors, leftover>>

\* The user installs the next version of the application.
UpgradeApk ==
  /\ proc = "down" /\ apkKey < MaxApk
  /\ apkKey' = apkKey + 1
  /\ UNCHANGED <<prefKey, dir, zip, proc, firstRun, callVars, sortedMap, dexElements, history>>

-----------------------------------------------------------------------------
\* uninstallHotPatch: the newest patch whose directory name contains the name.
Matching(n) == {v \in Mapped : <<n, sortedMap[v]>> \in Contains}
Undoable(n) == n \in DOMAIN Undoes /\ Matching(Undoes[n]) # {}
NewestMatch(n) == CHOOSE v \in Matching(n) : \A w \in Matching(n) : w <= v

\* installHotPatch of an undo file: HotPatchItem.purge deletes the file, then the directory.
UndoBegin(n) ==
  /\ proc = "up" /\ call = "none"
  /\ Undoable(n)
  /\ LET v == NewestMatch(Undoes[n])
     IN /\ slot' = <<sortedMap[v], v>>
        /\ zip' = [zip EXCEPT ![slot'] = Absent]
  /\ call' = "undo"
  /\ UNCHANGED <<apkKey, prefKey, dir, proc, firstRun, sortedMap, dexElements, history>>

\* Mutant: only hotfix.zip is deleted.
UndoDone_DirKept ==
  /\ call = "undo"
  /\ dir' = dir
  /\ sortedMap' = [sortedMap EXCEPT ![slot[2]] = Absent]
  /\ live' = live \ {slot[2]}
  /\ call' = "none" /\ slot' = NoSlot
  /\ UNCHANGED <<apkKey, prefKey, zip, proc, firstRun, dexElements, ioErrors, leftover>>

UndoDone ==
  /\ call = "undo"
  /\ dir' = [dir EXCEPT ![slot] = FALSE]
  /\ sortedMap' = [sortedMap EXCEPT ![slot[2]] = Absent]
  /\ live' = live \ {slot[2]}
  /\ call' = "none" /\ slot' = NoSlot
  /\ UNCHANGED <<apkKey, prefKey, zip, proc, firstRun, dexElements, ioErrors, leftover>>

\* Mutant: version = firstKey.
InstallBegin_SameVersion(n) ==
  /\ proc = "up" /\ call = "none"
  /\ ~Undoable(n)
  /\ FirstKey < MaxVersion /\ Len(dexElements) <= MaxElements
  /\ slot' = <<n, FirstKey>>
  /\ dir' = [dir EXCEPT ![slot'] = TRUE]
  /\ call' = "open"
  /\ UNCHANGED <<apkKey, prefKey, zip, proc, firstRun, sortedMap, dexElements, history>>

\* installHotPatch of anything else, an undo file that matches nothing included: mkdirs.
InstallBegin(n) ==
  /\ proc = "up" /\ call = "none"
  /\ ~Undoable(n)
  /\ FirstKey < MaxVersion /\ Len(dexElements) <= MaxElements
  /\ slot' = <<n, FirstKey + 1>>
  /\ dir' = [dir EXCEPT ![slot'] = TRUE]
  /\ call' = "open"
  /\ UNCHANGED <<apkKey, prefKey, zip, proc, firstRun, sortedMap, dexElements, history>>

\* copyInputStreamToFile opens and truncates hotfix.zip.
CopyOpen ==
  /\ call = "open"
  /\ zip' = [zip EXCEPT ![slot] = Torn]
  /\ call' = "write"
  /\ UNCHANGED <<apkKey, prefKey, dir, proc, firstRun, slot, sortedMap, dexElements, history>>

\* The stream ends, after a patch or after something else; the item enters the map.
CopyWrite ==
  /\ call = "write"
  /\ \E content \in {apkKey, Torn} : zip' = [zip EXCEPT ![slot] = content]
  /\ sortedMap' = [sortedMap EXCEPT ![slot[2]] = slot[1]]
  /\ call' = "load"
  /\ UNCHANGED <<apkKey, prefKey, dir, proc, firstRun, slot, dexElements, history>>

CopyFails ==
  /\ call \in {"open", "write"}
  /\ Fails
  /\ leftover' = TRUE
  /\ call' = "none" /\ slot' = NoSlot
  /\ UNCHANGED <<diskVars, proc, firstRun, sortedMap, dexElements, live>>

\* optHotFixDexFile, if the file is a zip file.
LoadPatch ==
  /\ call = "load"
  /\ \/ /\ Installed(slot)
        /\ dexElements' = Expand(dexElements, <<Element(slot)>>, TRUE)
        /\ live' = live \cup {slot[2]}
        /\ UNCHANGED ioErrors
     \/ /\ Installed(slot) /\ Fails
        /\ UNCHANGED <<dexElements, live>>
     \/ /\ ~Installed(slot)
        /\ UNCHANGED <<dexElements, ioErrors, live>>
  /\ call' = "none" /\ slot' = NoSlot
  /\ UNCHANGED <<diskVars, proc, firstRun, sortedMap, leftover>>

Next ==
  \/ Boot \/ PurgeDone \/ Run \/ CommitKey \/ RunBundles \/ Crash \/ UpgradeApk
  \/ \E s \in Slots : PurgeDir(s)
  \/ \E n \in Names : UndoBegin(n) \/ InstallBegin(n)
  \/ UndoDone \/ CopyOpen \/ CopyWrite \/ CopyFails \/ LoadPatch

Spec == Init /\ [][Next]_patchVars

-----------------------------------------------------------------------------
\* Position of an element in the class loader: the first one counts.
Position(e) == CHOOSE i \in 1..Len(dexElements) :
                 dexElements[i] = e /\ \A j \in 1..(i - 1) : dexElements[j] # e
Elements    == {dexElements[i] : i \in 1..Len(dexElements)}
Patches     == Elements \ {Base, Bundles}

\* The types, with where each stage of the process and of a call may be found.
TypeOK ==
  /\ apkKey \in Apks /\ prefKey \in 0..MaxApk
  /\ dir \in [Slots -> BOOLEAN]
  /\ zip \in [Slots -> {Absent, Torn} \cup Apks]
  /\ proc \in {"down", "purge", "run", "up"}
  /\ firstRun \in {"none", "install", "run"}
  /\ call \in {"none", "undo", "open", "write", "load"}
  /\ slot \in Slots \cup {NoSlot}
  /\ sortedMap \in [Versions -> Names \cup {Absent}]
  /\ Patches \subseteq Names \X Versions \X Apks
  /\ ioErrors \in 0..MaxIOErrors 
  /\ live \subseteq Mapped /\ leftover \in BOOLEAN
  /\ call # "none" <=> slot # NoSlot
  /\ call # "none" \/ firstRun # "none" => proc = "up"
  /\ \A s \in Slots : zip[s] # Absent => dir[s]

\* Of two patches of the map that were loaded, the one installed later is consulted first by the class loader,
\* whatever was installed, undone, restarted or left over from an undone patch in between.
\* (run appends and installHotPatch prepends, so the order comes from both.)
NewestPatchWins ==
  \A v, w \in live :
    v < w => Position(<<sortedMap[w], w, apkKey>>) < Position(<<sortedMap[v], v, apkKey>>)

\* A class of a bundle is repaired too: every patch comes before the bundles, in the process
\* that installed it and after a restart (onCreate runs the patches before the bundles).
PatchesBeforeBundles ==
  \A e \in Patches : Bundles \in Elements => Position(e) < Position(Bundles)

\* A patch made for one version of the APK is never put on the class path of another: the purge
\* is repeated until the key of the new APK is stored.
NoStalePatch == \A e \in Patches : e[3] = apkKey

\* Between calls the map says what the next start would run: its entries are the directories,
\* one for one, through crashes in the middle of a call and undone patches, until an install
\* fails: that leaves a directory whose version the next install takes as well.
RestartRunsMap ==
  proc = "up" /\ call = "none" /\ ~leftover => Dirs = {<<sortedMap[v], v>> : v \in Mapped}

=============================================================================
