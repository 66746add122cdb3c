----------------------- MODULE BundleFrameworkProofs -----------------------
(* Theorems about BundleFramework, for every value of its constants.       *)
EXTENDS BundleFramework, WellFoundedInduction, TLAPS

\* A non-empty set of numbers below a bound has the maximum that MaxOf chooses: lastKey
\* of a non-empty version map is a version of the map.
LEMMA MaxOfBounded ==
  ASSUME NEW N \in Nat, NEW S \in SUBSET (0..N), S # {}
  PROVE  MaxOf(S) \in S /\ \A n \in S : n <= MaxOf(S)
<1> DEFINE T == {N - n : n \in S}
<1>1. \A n \in S : n \in Int /\ N - n \in Nat
  OBVIOUS
<1>2. T \subseteq Nat /\ T # {}
  BY <1>1
<1>3. PICK x \in T : \A y \in T : ~(<<y, x>> \in OpToRel(<, Nat))
  <2> HIDE DEF T
  <2> QED BY <1>2, WFMin, NatLessThanWellFounded
<1>4. \A y \in T : ~(y < x)
  <2> HIDE DEF T
  <2> QED BY <1>2, <1>3 DEF OpToRel
<1>5. PICK m \in S : x = N - m
  BY <1>3
<1>6. ASSUME NEW n \in S PROVE n <= m
  <2>1. N - n \in T
    OBVIOUS
  <2>2. ~(N - n < N - m)
    BY <2>1, <1>4, <1>5
  <2> QED BY <2>2, <1>1
<1> QED BY <1>6 DEF MaxOf

\* The newest revision of a bundle directory that has one is one of its revisions.
LEMMA NewestIsARevision ==
  ASSUME NEW i \in Ids, RevisionsOf(i) # {}
  PROVE  Newest(i) \in Revisions
<1>1. MaxRevision \in Nat /\ RevisionsOf(i) \subseteq 0..MaxRevision
  BY BundleAssumption DEF RevisionsOf, Revisions
<1> QED BY <1>1, MaxOfBounded DEF Newest, RevisionsOf

\* The idle value of op.
LEMMA NoOpType == NoOp \in OpRecord
  BY BundleAssumption DEF NoOp, OpRecord

\* Initially.
LEMMA InitApkInv == Init => ApkInv
<1> SUFFICES ASSUME Init PROVE ApkInv
  OBVIOUS
<1>1. TypeOK
  <2>1. 1 \in Apks /\ 0 \in 0..MaxApk /\ 1 \in 1..MaxBundleID + 1 /\ 0 \in 0..MaxIOErrors
    BY BundleAssumption DEF Apks
  <2>2. /\ bundleMeta \in [Ids -> Locations \cup {Absent, Torn}]
        /\ revDir \in [Slots -> BOOLEAN]
        /\ revMeta \in [Slots -> {Absent, Torn, Saved}]
        /\ revZip \in [Slots -> Content \cup {Absent, Torn}]
        /\ bundles \in [Locations -> BundleRecord \cup {Absent}]
        /\ loaded \in [Locations -> Content \cup {Absent}]
    BY DEF Init, NoBundles
  <2> QED BY <2>1, <2>2, NoOpType DEF Init, TypeOK, Steps
<1>2. OpInv /\ ZipsInDirs /\ DownInv
  BY MarkerAssumption DEF Init, OpInv, OpSteps, ZipsInDirs, DownInv
<1>3. \A s \in Slots : revZip[s] \notin Content
  BY MarkerAssumption DEF Init, Content, Apks
<1> QED BY <1>1, <1>2, <1>3
  DEF ApkInv, Init, StorageIsCurrentApk, LoadedIsCurrentApk, NoBundles

\* The budget of I/O errors keeps its type.
LEMMA IOErrorTypes ==
  ASSUME TypeOK, IOError \/ NoIOError
  PROVE  ioErrors' \in 0..MaxIOErrors /\ ioFailed' \in BOOLEAN
<1>1. ioErrors \in 0..MaxIOErrors /\ ioFailed \in BOOLEAN
  BY DEF TypeOK
<1>2. CASE IOError
  BY <1>1, <1>2, BundleAssumption DEF IOError
<1>3. CASE NoIOError
  BY <1>1, <1>3 DEF NoIOError
<1> QED BY <1>2, <1>3

\* A bundle enters the table with its types.
LEMMA RegisterTypes ==
  ASSUME TypeOK, op.loc \in Locations, op.id \in Ids, Register
  PROVE  /\ bundles' \in [Locations -> BundleRecord \cup {Absent}]
         /\ uninstalled' \in SUBSET Locations
         /\ step' \in Steps
<1>1. [id |-> op.id, cur |-> 1, last |-> 1, opt |-> FALSE] \in BundleRecord
  BY BundleAssumption DEF BundleRecord, Revisions
<1> QED BY <1>1 DEF TypeOK, Register, Steps

\* What run() does to the table and the class path.
LEMMA OptDexFilesTypes ==
  ASSUME TypeOK, OptDexFiles
  PROVE  /\ bundles' \in [Locations -> BundleRecord \cup {Absent}]
         /\ loaded' \in [Locations -> Content \cup {Absent}]
<1>1. ASSUME NEW l \in Optimisable
      PROVE  /\ [bundles[l] EXCEPT !.opt = TRUE] \in BundleRecord
             /\ revZip[<<bundles[l].id, bundles[l].cur>>] \in Content
  BY DEF Optimisable, Registered, TypeOK, BundleRecord
<1> QED BY <1>1 DEF OptDexFiles, TypeOK

\* Every step preserves the types.
LEMMA TypeStep == TypeOK /\ OpInv /\ [Next]_vars => TypeOK'
<1> SUFFICES ASSUME TypeOK, OpInv, [Next]_vars PROVE TypeOK'
  OBVIOUS
<1> USE DEF TypeOK, diskVars, procVars, history
<1>1. CASE Boot
  <2>1. step' \in Steps
    BY <1>1 DEF Boot, Steps
  <2> QED BY <1>1, <2>1 DEF Boot
<1>2. CASE \E i \in Ids : PurgeBundleDir(i)
  <2> PICK i \in Ids : PurgeBundleDir(i)
    BY <1>2
  <2>1. bundleMeta' \in [Ids -> Locations \cup {Absent, Torn}]
    BY DEF PurgeBundleDir
  <2>2. /\ revDir' \in [Slots -> BOOLEAN]
        /\ revMeta' \in [Slots -> {Absent, Torn, Saved}]
        /\ revZip' \in [Slots -> Content \cup {Absent, Torn}]
    BY DEF PurgeBundleDir
  <2> QED BY <2>1, <2>2 DEF PurgeBundleDir
<1>3. CASE PurgeFrameMeta
  BY <1>3 DEF PurgeFrameMeta
<1>4. CASE PurgeDone
  <2>1. step' \in Steps
    BY <1>4 DEF PurgeDone, Steps
  <2> QED BY <1>4, <2>1 DEF PurgeDone
<1>5. CASE Restore
  <2>1. step' \in Steps
    BY <1>5 DEF Restore, Steps
  <2>2. nextBundleID' \in 1..MaxBundleID + 1
    BY <1>5, MarkerAssumption DEF Restore
  <2>3. bundles' \in [Locations -> BundleRecord \cup {Absent}]
    <3>1. CASE UNCHANGED bundles
      BY <3>1
    <3>2. ASSUME NEW i \in Ids, Restorable(i)
          PROVE  [id |-> i, cur |-> Newest(i), last |-> Newest(i), opt |-> FALSE] \in BundleRecord
      <4>1. Newest(i) \in Revisions
        BY <3>2, NewestIsARevision DEF Restorable
      <4>2. Newest(i) \in 0..MaxRevision
        BY <4>1, BundleAssumption DEF Revisions
      <4> QED BY <4>1, <4>2 DEF BundleRecord
    <3>3. ASSUME NEW pick \in [Locations -> Ids],
                 \A l \in Locations : DirsOf(l) # {} => pick[l] \in DirsOf(l),
                 bundles' = [l \in Locations |->
                   IF DirsOf(l) = {} THEN Absent
                   ELSE [id |-> pick[l], cur |-> Newest(pick[l]),
                         last |-> Newest(pick[l]), opt |-> FALSE]]
          PROVE  bundles' \in [Locations -> BundleRecord \cup {Absent}]
      <4>1. \A l \in Locations : DirsOf(l) # {} => pick[l] \in Ids /\ Restorable(pick[l])
        BY <3>3 DEF DirsOf
      <4> QED BY <3>2, <3>3, <4>1
    <3> QED BY <1>5, <3>1, <3>3 DEF Restore
  <2>4. reusedIds' \in BOOLEAN
    BY <1>5, Zenon DEF Restore
  <2> QED BY <1>5, <2>1, <2>2, <2>3, <2>4 DEF Restore
<1>6. CASE OpenApk
  <2>1. step' \in Steps
    BY <1>6 DEF OpenApk, Steps
  <2>2. ioErrors' \in 0..MaxIOErrors /\ ioFailed' \in BOOLEAN
    BY <1>6, IOErrorTypes DEF OpenApk
  <2>3. /\ todo' \in SUBSET Locations
        /\ proc' \in {"down", "booting", "installing", "running"}
    BY <1>6, BundleAssumption DEF OpenApk
  <2> QED BY <1>6, <2>1, <2>2, <2>3 DEF OpenApk
<1>7. CASE \E l \in Locations : InstallBegin(l)
  <2> PICK l \in Locations : InstallBegin(l)
    BY <1>7
  <2>1. step' \in Steps
    BY DEF InstallBegin, Steps
  <2>2. nextBundleID' \in 1..MaxBundleID + 1 /\ op' \in OpRecord
    BY BundleAssumption DEF InstallBegin, OpRecord
  <2> QED BY <2>1, <2>2 DEF InstallBegin
<1>8. CASE CommitKey
  <2>1. step' \in Steps
    BY <1>8 DEF CommitKey, Steps
  <2>2. ioErrors' \in 0..MaxIOErrors /\ ioFailed' \in BOOLEAN
    BY <1>8, IOErrorTypes DEF CommitKey
  <2>3. prefKey' \in 0..MaxApk
    BY <1>8 DEF CommitKey, Apks, IOError
  <2> QED BY <1>8, <2>1, <2>2, <2>3 DEF CommitKey
<1>9. CASE Run
  <2>1. step' \in Steps
    BY <1>9 DEF Run, Steps
  <2> QED BY <1>9, <2>1, OptDexFilesTypes DEF Run
<1>10. CASE OpenZip
  <2>1. step' \in Steps
    BY <1>10 DEF OpenZip, Steps
  <2> QED BY <1>10, <2>1 DEF OpenZip, Slot, KeepMetas, KeepTable
<1>11. CASE CopyStream
  <2>1. step' \in Steps
    BY <1>11 DEF CopyStream, Steps
  <2>2. revZip' \in [Slots -> Content \cup {Absent, Torn}]
    <3>1. <<op.loc, apkKey>> \in Content
      BY <1>11 DEF CopyStream, OpInv, OpSteps, Content
    <3> QED BY <1>11, <3>1 DEF CopyStream
  <2> QED BY <1>11, <2>1, <2>2 DEF CopyStream, KeepMetas, KeepTable
<1>12. CASE RevMetaOpen
  <2>1. step' \in Steps
    BY <1>12 DEF RevMetaOpen, Steps
  <2> QED BY <1>12, <2>1 DEF RevMetaOpen, Slot, KeepMetas, KeepTable
<1>13. CASE RevMetaWrite
  <2>1. step' \in Steps
    BY <1>13 DEF RevMetaWrite, Steps
  <2>2. revMeta' \in [Slots -> {Absent, Torn, Saved}]
    BY <1>13 DEF RevMetaWrite
  <2>3. CASE op.new
    BY <1>13, <2>1, <2>2, <2>3 DEF RevMetaWrite, KeepMetas
  <2>4. CASE ~op.new
    <3>1. op.loc \in Locations /\ bundles[op.loc] \in BundleRecord /\ op.rev \in 0..MaxRevision
      BY <1>13, <2>4 DEF RevMetaWrite, OpInv, OpSteps, OpRecord
    <3>2. [bundles[op.loc] EXCEPT !.last = op.rev] \in BundleRecord
      BY <3>1 DEF BundleRecord
    <3>3. bundles' \in [Locations -> BundleRecord \cup {Absent}]
      BY <1>13, <2>4, <3>1, <3>2 DEF RevMetaWrite
    <3>4. op' \in OpRecord
      BY <1>13, <2>4, NoOpType DEF RevMetaWrite
    <3> QED BY <1>13, <2>1, <2>2, <2>4, <3>3, <3>4 DEF RevMetaWrite, KeepMetas
  <2> QED BY <2>3, <2>4
<1>14. CASE RevisionFails
  <2>1. step' \in Steps
    BY <1>14 DEF RevisionFails, Steps
  <2>2. op' \in OpRecord
    BY <1>14, NoOpType DEF RevisionFails
  <2>3. ioErrors' \in 0..MaxIOErrors /\ ioFailed' \in BOOLEAN
    BY <1>14, IOErrorTypes DEF RevisionFails
  <2> QED BY <1>14, <2>1, <2>2, <2>3 DEF RevisionFails, KeepMetas, KeepTable
<1>15. CASE \E s \in Slots : DeleteZip(s)
  BY <1>15 DEF DeleteZip, KeepMetas
<1>16. CASE \E s \in Slots : DeleteRevMeta(s)
  BY <1>16 DEF DeleteRevMeta, KeepMetas
<1>17. CASE \E s \in Slots : DeleteRevDir(s)
  BY <1>17 DEF DeleteRevDir, KeepMetas
<1>18. CASE DeleteBundleMeta
  BY <1>18 DEF DeleteBundleMeta, KeepRevs
<1>19. CASE CleanupDone
  <2>1. step' \in Steps
    BY <1>19 DEF CleanupDone, Steps
  <2>2. op' \in OpRecord
    BY <1>19, NoOpType DEF CleanupDone
  <2> QED BY <1>19, <2>1, <2>2 DEF CleanupDone, KeepTable
<1>20. CASE BundleMetaOpen
  <2>1. step' \in Steps
    BY <1>20 DEF BundleMetaOpen, Steps
  <2> QED BY <1>20, <2>1 DEF BundleMetaOpen, KeepRevs, KeepTable
<1>21. CASE BundleMetaWrite
  <2>1. op.loc \in Locations /\ op.id \in Ids
    BY <1>21 DEF BundleMetaWrite, OpInv, OpSteps
  <2>2. bundleMeta' \in [Ids -> Locations \cup {Absent, Torn}]
    BY <1>21, <2>1 DEF BundleMetaWrite
  <2> QED BY <1>21, <2>1, <2>2, RegisterTypes DEF BundleMetaWrite, KeepRevs
<1>22. CASE BundleMetaFails
  <2>1. op.loc \in Locations /\ op.id \in Ids
    BY <1>22 DEF BundleMetaFails, OpInv, OpSteps
  <2>2. ioErrors' \in 0..MaxIOErrors /\ ioFailed' \in BOOLEAN
    BY <1>22, IOErrorTypes DEF BundleMetaFails
  <2> QED BY <1>22, <2>1, <2>2, RegisterTypes DEF BundleMetaFails
<1>23. CASE FrameMetaOpen
  <2>1. step' \in Steps
    BY <1>23 DEF FrameMetaOpen, Steps
  <2> QED BY <1>23, <2>1 DEF FrameMetaOpen, KeepRevs, KeepTable
<1>24. CASE FrameMetaWrite
  <2>1. step' \in Steps
    BY <1>24 DEF FrameMetaWrite, Steps, StoreReturns
  <2>2. op' \in OpRecord
    BY <1>24, NoOpType DEF FrameMetaWrite, StoreReturns
  <2> QED BY <1>24, <2>1, <2>2 DEF FrameMetaWrite, KeepRevs, KeepTable, StoreReturns
<1>25. CASE FrameMetaFails
  <2>1. step' \in Steps
    BY <1>25 DEF FrameMetaFails, Steps, StoreReturns
  <2>2. op' \in OpRecord
    BY <1>25, NoOpType DEF FrameMetaFails, StoreReturns
  <2>3. ioErrors' \in 0..MaxIOErrors /\ ioFailed' \in BOOLEAN
    BY <1>25, IOErrorTypes DEF FrameMetaFails
  <2> QED BY <1>25, <2>1, <2>2, <2>3 DEF FrameMetaFails, KeepTable, StoreReturns
<1>26. CASE UninstallDone
  <2>1. step' \in Steps
    BY <1>26 DEF UninstallDone, Steps
  <2>2. op' \in OpRecord
    BY <1>26, NoOpType DEF UninstallDone
  <2>3. op.loc \in Locations /\ bundles[op.loc] \in BundleRecord
    BY <1>26 DEF UninstallDone, OpInv, OpSteps
  <2>4. [bundles[op.loc] EXCEPT !.last = IF @ < 1 THEN 0 ELSE @ - 1] \in BundleRecord
    BY <2>3, BundleAssumption DEF BundleRecord
  <2>5. bundles' \in [Locations -> BundleRecord \cup {Absent}]
    BY <1>26, <2>3, <2>4 DEF UninstallDone
  <2>6. uninstalled' \in SUBSET Locations /\ revDir' \in [Slots -> BOOLEAN]
    BY <1>26, <2>3 DEF UninstallDone
  <2> QED BY <1>26, <2>1, <2>2, <2>5, <2>6 DEF UninstallDone, KeepMetas
<1>27. CASE \E l \in Locations : InstallRejected(l)
  <2>1. nextBundleID' \in 1..MaxBundleID + 1
    BY <1>27, BundleAssumption DEF InstallRejected
  <2> QED BY <1>27, <2>1 DEF InstallRejected
<1>28. CASE \E l \in Locations : UpdateBegin(l)
  <2> PICK l \in Locations : UpdateBegin(l)
    BY <1>28
  <2>1. step' \in Steps
    BY DEF UpdateBegin, Steps
  <2>2. bundles[l] \in BundleRecord
    BY DEF UpdateBegin
  <2>3. op' \in OpRecord
    BY <2>2, BundleAssumption DEF UpdateBegin, OpRecord, BundleRecord, Ids, Revisions
  <2> QED BY <2>1, <2>3 DEF UpdateBegin, KeepTable
<1>29. CASE \E l \in Locations : UninstallBegin(l)
  <2> PICK l \in Locations : UninstallBegin(l)
    BY <1>29
  <2>1. step' \in Steps
    BY DEF UninstallBegin, Steps
  <2>2. bundles[l] \in BundleRecord
    BY DEF UninstallBegin
  <2>3. op' \in OpRecord
    BY <2>2, BundleAssumption DEF UninstallBegin, OpRecord, BundleRecord, Ids, Revisions
  <2> QED BY <2>1, <2>3 DEF UninstallBegin, KeepTable
<1>30. CASE RunAgain
  BY <1>30, OptDexFilesTypes DEF RunAgain
<1>31. CASE Crash
  <2>1. step' \in Steps
    BY <1>31 DEF Crash, Steps
  <2>2. op' \in OpRecord /\ nextBundleID' \in 1..MaxBundleID + 1
    BY <1>31, NoOpType, BundleAssumption DEF Crash
  <2>3. /\ bundles' \in [Locations -> BundleRecord \cup {Absent}]
        /\ loaded' \in [Locations -> Content \cup {Absent}]
    BY <1>31 DEF Crash, NoBundles
  <2> QED BY <1>31, <2>1, <2>2, <2>3 DEF Crash
<1>32. CASE UpgradeApk
  <2>1. apkKey' \in Apks
    BY <1>32, BundleAssumption DEF UpgradeApk, Apks
  <2> QED BY <1>32, <2>1 DEF UpgradeApk
<1>33. CASE UNCHANGED vars
  BY <1>33 DEF vars
<1> QED BY <1>1, <1>2, <1>3, <1>4, <1>5, <1>6, <1>7, <1>8, <1>9, <1>10, <1>11, <1>12, <1>13, <1>14, <1>15, <1>16, <1>17, <1>18, <1>19, <1>20, <1>21, <1>22, <1>23, <1>24, <1>25, <1>26, <1>27, <1>28, <1>29, <1>30, <1>31, <1>32, <1>33
  DEF Next, StartUp, Operation, Request

\* Every step keeps the thread's operation well formed.
LEMMA OpStep == TypeOK /\ OpInv /\ DownInv /\ [Next]_vars => OpInv'
<1> SUFFICES ASSUME TypeOK, OpInv, DownInv, [Next]_vars PROVE OpInv'
  OBVIOUS
<1> USE DEF OpInv, OpSteps, Slot, KeepRevs, KeepMetas, KeepTable, diskVars, procVars
<1>1. CASE Boot
  BY <1>1 DEF Boot
<1>2. CASE \E i \in Ids : PurgeBundleDir(i)
  BY <1>2 DEF PurgeBundleDir
<1>3. CASE PurgeFrameMeta
  BY <1>3 DEF PurgeFrameMeta
<1>4. CASE PurgeDone
  BY <1>4 DEF PurgeDone
<1>5. CASE Restore
  BY <1>5 DEF Restore
<1>6. CASE OpenApk
  BY <1>6 DEF OpenApk
<1>7. CASE \E l \in Locations : InstallBegin(l)
  <2>1. nextBundleID <= MaxBundleID => nextBundleID \in Ids
    BY BundleAssumption DEF TypeOK, Ids
  <2>2. 1 \in Revisions
    BY BundleAssumption DEF Revisions
  <2> QED BY <1>7, <2>1, <2>2 DEF InstallBegin
<1>8. CASE CommitKey
  BY <1>8 DEF CommitKey
<1>9. CASE Run
  BY <1>9 DEF Run
<1>10. CASE OpenZip
  <2>1. revDir'[Slot]
    BY <1>10 DEF OpenZip, TypeOK, Slots
  <2> QED BY <1>10, <2>1 DEF OpenZip
<1>11. CASE CopyStream
  BY <1>11 DEF CopyStream
<1>12. CASE RevMetaOpen
  BY <1>12 DEF RevMetaOpen
<1>13. CASE RevMetaWrite
  BY <1>13 DEF RevMetaWrite
<1>14. CASE RevisionFails
  BY <1>14 DEF RevisionFails
<1>15. CASE \E s \in Slots : DeleteZip(s)
  BY <1>15 DEF DeleteZip
<1>16. CASE \E s \in Slots : DeleteRevMeta(s)
  BY <1>16 DEF DeleteRevMeta
<1>17. CASE \E s \in Slots : DeleteRevDir(s)
  BY <1>17 DEF DeleteRevDir
<1>18. CASE DeleteBundleMeta
  BY <1>18 DEF DeleteBundleMeta
<1>19. CASE CleanupDone
  BY <1>19 DEF CleanupDone
<1>20. CASE BundleMetaOpen
  BY <1>20 DEF BundleMetaOpen
<1>21. CASE BundleMetaWrite
  BY <1>21 DEF BundleMetaWrite, Register
<1>22. CASE BundleMetaFails
  BY <1>22 DEF BundleMetaFails, Register
<1>23. CASE FrameMetaOpen
  BY <1>23 DEF FrameMetaOpen
<1>24. CASE FrameMetaWrite
  BY <1>24 DEF FrameMetaWrite, StoreReturns
<1>25. CASE FrameMetaFails
  BY <1>25 DEF FrameMetaFails, StoreReturns
<1>26. CASE UninstallDone
  BY <1>26 DEF UninstallDone
<1>27. CASE \E l \in Locations : InstallRejected(l)
  BY <1>27 DEF InstallRejected
<1>28. CASE \E l \in Locations : UpdateBegin(l)
  <2> PICK l \in Locations : UpdateBegin(l)
    BY <1>28
  <2>1. bundles[l] \in BundleRecord
    BY DEF UpdateBegin, TypeOK
  <2>2. bundles[l].id \in Ids /\ bundles[l].last + 1 \in Revisions
    BY <2>1, BundleAssumption DEF UpdateBegin, BundleRecord, Revisions
  <2> QED BY <2>2 DEF UpdateBegin
<1>29. CASE \E l \in Locations : UninstallBegin(l)
  <2> PICK l \in Locations : UninstallBegin(l)
    BY <1>29
  <2>1. bundles[l] \in BundleRecord
    BY DEF UninstallBegin, TypeOK
  <2>2. bundles[l].id \in Ids /\ bundles[l].cur \in Revisions
    BY <2>1 DEF BundleRecord
  <2> QED BY <2>2 DEF UninstallBegin
<1>30. CASE RunAgain
  BY <1>30 DEF RunAgain, OptDexFiles, Optimisable, Registered
<1>31. CASE Crash
  BY <1>31 DEF Crash
<1>32. CASE UpgradeApk
  BY <1>32 DEF UpgradeApk
<1>33. CASE UNCHANGED vars
  BY <1>33 DEF vars
<1> QED BY <1>1, <1>2, <1>3, <1>4, <1>5, <1>6, <1>7, <1>8, <1>9, <1>10, <1>11, <1>12, <1>13, <1>14, <1>15, <1>16, <1>17, <1>18, <1>19, <1>20, <1>21, <1>22, <1>23, <1>24, <1>25, <1>26, <1>27, <1>28, <1>29, <1>30, <1>31, <1>32, <1>33
  DEF Next, StartUp, Operation, Request

\* The only steps that touch a revision directory or a zip.
LEMMA RevisionWriters ==
  Next => \/ UNCHANGED <<revDir, revZip>>
          \/ \E i \in Ids : PurgeBundleDir(i)
          \/ OpenZip \/ CopyStream \/ RevisionFails \/ UninstallDone
          \/ \E s \in Slots : DeleteZip(s) \/ DeleteRevDir(s)
<1> SUFFICES ASSUME Next PROVE \/ UNCHANGED <<revDir, revZip>>
                               \/ \E i \in Ids : PurgeBundleDir(i)
                               \/ OpenZip \/ CopyStream \/ RevisionFails \/ UninstallDone
                               \/ \E s \in Slots : DeleteZip(s) \/ DeleteRevDir(s)
  OBVIOUS
<1> USE DEF diskVars, KeepRevs
<1>1. CASE Boot \/ UpgradeApk \/ Crash
  BY <1>1 DEF Boot, UpgradeApk, Crash
<1>2. CASE StartUp
  BY <1>2 DEF StartUp, PurgeFrameMeta, PurgeDone, Restore, OpenApk, InstallBegin, CommitKey, Run
<1>3. CASE Request
  BY <1>3 DEF Request, InstallBegin, InstallRejected, UpdateBegin, UninstallBegin, RunAgain
<1>4. CASE Operation
  <2>1. CASE RevMetaOpen \/ RevMetaWrite \/ \E s \in Slots : DeleteRevMeta(s)
    BY <2>1 DEF RevMetaOpen, RevMetaWrite, DeleteRevMeta
  <2>2. CASE DeleteBundleMeta \/ CleanupDone \/ BundleMetaOpen \/ BundleMetaWrite \/ BundleMetaFails
    BY <2>2 DEF DeleteBundleMeta, CleanupDone, BundleMetaOpen, BundleMetaWrite, BundleMetaFails
  <2>3. CASE FrameMetaOpen \/ FrameMetaWrite \/ FrameMetaFails
    BY <2>3 DEF FrameMetaOpen, FrameMetaWrite, FrameMetaFails
  <2> QED BY <1>4, <2>1, <2>2, <2>3 DEF Operation
<1> QED BY <1>1, <1>2, <1>3, <1>4 DEF Next

\* No step leaves a zip without its directory.
LEMMA ZipsStep == TypeOK /\ OpInv /\ ZipsInDirs /\ [Next]_vars => ZipsInDirs'
<1> SUFFICES ASSUME TypeOK, OpInv, ZipsInDirs, [Next]_vars PROVE ZipsInDirs'
  OBVIOUS
<1>0. revDir \in [Slots -> BOOLEAN] /\ revZip \in [Slots -> Content \cup {Absent, Torn}]
  BY DEF TypeOK
<1> USE DEF ZipsInDirs
<1>1. CASE UNCHANGED <<revDir, revZip>>
  BY <1>1
<1>2. CASE \E i \in Ids : PurgeBundleDir(i)
  BY <1>2 DEF PurgeBundleDir
<1>3. CASE OpenZip \/ RevisionFails
  BY <1>0, <1>3 DEF OpenZip, RevisionFails
<1>4. CASE CopyStream
  BY <1>0, <1>4 DEF CopyStream, OpInv
<1>5. CASE UninstallDone
  BY <1>0, <1>5 DEF UninstallDone
<1>6. CASE \E s \in Slots : DeleteZip(s) \/ DeleteRevDir(s)
  BY <1>0, <1>6 DEF DeleteZip, DeleteRevDir
<1> QED BY RevisionWriters, <1>1, <1>2, <1>3, <1>4, <1>5, <1>6 DEF vars, diskVars

\* The life of the process as far as keys and purge are concerned: a step starts, kills or
\* upgrades the process, ends the purge, stores the key, is part of the purge, or is taken
\* by a live process whose purge is over and leaves both keys alone.
LEMMA ProcessSteps ==
  DownInv /\ Next =>
    \/ Boot \/ Crash \/ UpgradeApk \/ PurgeDone \/ CommitKey
    \/ step = "purge" /\ UNCHANGED <<step, proc, apkKey, prefKey, loaded>>
    \/ proc # "down" /\ step # "purge" /\ proc' # "down" /\ UNCHANGED <<apkKey, prefKey>>
<1> SUFFICES ASSUME DownInv, Next, ~Boot, ~Crash, ~UpgradeApk, ~PurgeDone, ~CommitKey
             PROVE  \/ step = "purge" /\ UNCHANGED <<step, proc, apkKey, prefKey, loaded>>
                    \/ /\ proc # "down" /\ step # "purge" /\ proc' # "down"
                       /\ UNCHANGED <<apkKey, prefKey>>
  OBVIOUS
<1> USE DEF DownInv, diskVars, procVars, KeepMetas, KeepTable
<1>1. CASE (\E i \in Ids : PurgeBundleDir(i)) \/ PurgeFrameMeta
  BY <1>1 DEF PurgeBundleDir, PurgeFrameMeta
<1>2. CASE Restore \/ OpenApk \/ Run
  BY <1>2 DEF Restore, OpenApk, Run
<1>3. CASE \E l \in Locations : InstallBegin(l)
  BY <1>3 DEF InstallBegin
<1>4. CASE Request
  BY <1>4 DEF Request, InstallBegin, InstallRejected, UpdateBegin, UninstallBegin, RunAgain
<1>5. CASE Operation
  <2>1. CASE OpenZip \/ CopyStream \/ RevMetaOpen \/ RevMetaWrite \/ RevisionFails
    BY <2>1 DEF OpenZip, CopyStream, RevMetaOpen, RevMetaWrite, RevisionFails
  <2>2. CASE \E s \in Slots : DeleteZip(s) \/ DeleteRevMeta(s) \/ DeleteRevDir(s)
    <3>1. step \in {"cleanup", "uninstall"}
      BY <2>2 DEF DeleteZip, DeleteRevMeta, DeleteRevDir, Deleting
    <3> QED BY <2>2, <3>1 DEF DeleteZip, DeleteRevMeta, DeleteRevDir
  <2>3. CASE DeleteBundleMeta \/ CleanupDone
    BY <2>3 DEF DeleteBundleMeta, CleanupDone
  <2>4. CASE BundleMetaOpen \/ BundleMetaWrite \/ BundleMetaFails
    BY <2>4 DEF BundleMetaOpen, BundleMetaWrite, BundleMetaFails
  <2>5. CASE FrameMetaOpen \/ FrameMetaWrite \/ FrameMetaFails \/ UninstallDone
    BY <2>5 DEF FrameMetaOpen, FrameMetaWrite, FrameMetaFails, UninstallDone
  <2> QED BY <1>5, <2>1, <2>2, <2>3, <2>4, <2>5 DEF Operation
<1> QED BY <1>1, <1>2, <1>3, <1>4, <1>5 DEF Next, StartUp

\* Only run() puts code on the class path; only a crash takes it off.
LEMMA Loaders ==
  Next => UNCHANGED <<apkKey, loaded>> \/ Run \/ RunAgain \/ Crash \/ UpgradeApk
<1> SUFFICES ASSUME Next, ~Run, ~RunAgain, ~Crash, ~UpgradeApk
             PROVE  UNCHANGED <<apkKey, loaded>>
  OBVIOUS
<1> USE DEF diskVars, procVars, KeepMetas, KeepTable
<1>1. CASE Boot \/ StartUp
  BY <1>1 DEF Boot, StartUp, PurgeBundleDir, PurgeFrameMeta, PurgeDone, Restore, OpenApk,
              InstallBegin, CommitKey
<1>2. CASE Request
  BY <1>2 DEF Request, InstallBegin, InstallRejected, UpdateBegin, UninstallBegin
<1>3. CASE Operation
  <2>1. CASE OpenZip \/ CopyStream \/ RevMetaOpen \/ RevMetaWrite \/ RevisionFails
    BY <2>1 DEF OpenZip, CopyStream, RevMetaOpen, RevMetaWrite, RevisionFails
  <2>2. CASE \E s \in Slots : DeleteZip(s) \/ DeleteRevMeta(s) \/ DeleteRevDir(s)
    BY <2>2 DEF DeleteZip, DeleteRevMeta, DeleteRevDir
  <2>3. CASE DeleteBundleMeta \/ CleanupDone
    BY <2>3 DEF DeleteBundleMeta, CleanupDone
  <2>4. CASE BundleMetaOpen \/ BundleMetaWrite \/ BundleMetaFails
    BY <2>4 DEF BundleMetaOpen, BundleMetaWrite, BundleMetaFails
  <2>5. CASE FrameMetaOpen \/ FrameMetaWrite \/ FrameMetaFails \/ UninstallDone
    BY <2>5 DEF FrameMetaOpen, FrameMetaWrite, FrameMetaFails, UninstallDone
  <2> QED BY <1>3, <2>1, <2>2, <2>3, <2>4, <2>5 DEF Operation
<1> QED BY <1>1, <1>2, <1>3 DEF Next

\* A dead process runs nothing.
LEMMA DownStep == DownInv /\ [Next]_vars => DownInv'
<1> SUFFICES ASSUME DownInv, [Next]_vars PROVE DownInv'
  OBVIOUS
<1>1. CASE UNCHANGED vars
  BY <1>1 DEF vars, procVars, DownInv
<1>2. CASE Next
  BY <1>2, ProcessSteps DEF DownInv, Boot, Crash, UpgradeApk, PurgeDone, CommitKey, procVars
<1> QED BY <1>1, <1>2

\* A zip is only ever written with the code of the installed APK; every other step keeps or
\* removes the zips there are.
LEMMA ZipsOnlyCurrent ==
  ASSUME TypeOK, OpInv, [Next]_vars, NEW s \in Slots, revZip'[s] \in Content
  PROVE  revZip'[s] = revZip[s] \/ (step = "copy" /\ revZip'[s][2] = apkKey)
<1>0. revZip \in [Slots -> Content \cup {Absent, Torn}] /\ Absent \notin Content /\ Torn \notin Content
  BY MarkerAssumption DEF TypeOK, Content, Apks
<1>1. CASE UNCHANGED <<revDir, revZip>>
  BY <1>1
<1>2. CASE \E i \in Ids : PurgeBundleDir(i)
  BY <1>0, <1>2 DEF PurgeBundleDir
<1>3. CASE OpenZip
  BY <1>0, <1>3 DEF OpenZip
<1>4. CASE CopyStream
  BY <1>0, <1>4 DEF CopyStream
<1>5. CASE RevisionFails \/ UninstallDone
  BY <1>5 DEF RevisionFails, UninstallDone
<1>6. CASE \E t \in Slots : DeleteZip(t) \/ DeleteRevDir(t)
  BY <1>0, <1>6 DEF DeleteZip, DeleteRevDir
<1> QED BY RevisionWriters, <1>1, <1>2, <1>3, <1>4, <1>5, <1>6 DEF vars, diskVars

\* Every step keeps zips of another APK version out of the storage of a live, purged process
\* and of a storage whose key is the installed APK's.
LEMMA StorageStep ==
  TypeOK /\ OpInv /\ ZipsInDirs /\ DownInv /\ StorageIsCurrentApk /\ [Next]_vars
    => StorageIsCurrentApk'
<1> SUFFICES ASSUME TypeOK, OpInv, ZipsInDirs, DownInv, StorageIsCurrentApk, [Next]_vars
             PROVE  StorageIsCurrentApk'
  OBVIOUS
<1> DEFINE Settled == prefKey = apkKey \/ (proc # "down" /\ step # "purge")
           Fresh   == \A s \in Slots : revZip[s] \in Content => revZip[s][2] = apkKey
<1>1. apkKey \in Int /\ prefKey \in Int /\ prefKey <= apkKey /\ (Settled => Fresh)
  BY BundleAssumption DEF TypeOK, Apks, StorageIsCurrentApk
<1>2. prefKey' <= apkKey' /\ (Settled' => Fresh') => StorageIsCurrentApk'
  BY DEF StorageIsCurrentApk
<1>3. ASSUME Settled, apkKey' = apkKey PROVE Fresh'
  <2>1. Fresh
    BY <1>1, <1>3
  <2> QED BY <2>1, <1>3, ZipsOnlyCurrent
<1>4. CASE UNCHANGED vars
  BY <1>1, <1>2, <1>4 DEF vars, diskVars, procVars
<1>5. CASE Boot
  BY <1>1, <1>2, <1>5 DEF Boot, diskVars
<1>6. CASE Crash
  <2>1. Settled' => Settled
    BY <1>6 DEF Crash, diskVars
  <2> QED BY <1>1, <1>2, <1>3, <1>6, <2>1 DEF Crash, diskVars
<1>7. CASE UpgradeApk
  BY <1>1, <1>2, <1>7 DEF UpgradeApk, procVars
<1>8. CASE PurgeDone
  <2>1. ASSUME NEW i \in Ids, NEW v \in Revisions PROVE revZip[<<i, v>>] = Absent
    <3>1. v \notin RevisionsOf(i)
      BY <1>8 DEF PurgeDone, InUse
    <3> QED BY <3>1 DEF RevisionsOf, ZipsInDirs, Slots
  <2>2. Fresh
    BY <2>1, MarkerAssumption DEF Slots, Content, Apks
  <2> QED BY <1>1, <1>2, <1>8, <2>2 DEF PurgeDone, diskVars
<1>9. CASE CommitKey
  <2>1. Settled
    BY <1>9 DEF CommitKey
  <2> QED BY <1>1, <1>2, <1>3, <1>9, <2>1 DEF CommitKey
<1>10. CASE step = "purge" /\ UNCHANGED <<step, proc, apkKey, prefKey, loaded>>
  <2>1. Settled' => Settled
    BY <1>10
  <2> QED BY <1>1, <1>2, <1>3, <1>10, <2>1
<1>11. CASE proc # "down" /\ step # "purge" /\ proc' # "down" /\ UNCHANGED <<apkKey, prefKey>>
  BY <1>1, <1>2, <1>3, <1>11
<1> QED BY ProcessSteps, <1>4, <1>5, <1>6, <1>7, <1>8, <1>9, <1>10, <1>11

\* Every step keeps code of another APK version off the class path.
LEMMA LoadedStep ==
  ApkInv /\ [Next]_vars => LoadedIsCurrentApk'
<1> SUFFICES ASSUME ApkInv, [Next]_vars PROVE LoadedIsCurrentApk'
  OBVIOUS
<1> USE DEF ApkInv, LoadedIsCurrentApk
<1>1. CASE UNCHANGED <<apkKey, loaded>>
  BY <1>1
<1>2. CASE Run \/ RunAgain
  <2>1. proc # "down" /\ step # "purge" /\ apkKey' = apkKey /\ OptDexFiles
    BY <1>2 DEF Run, RunAgain, DownInv, diskVars
  <2>2. \A s \in Slots : revZip[s] \in Content => revZip[s][2] = apkKey
    BY <2>1 DEF StorageIsCurrentApk
  <2>3. ASSUME NEW l \in Optimisable PROVE revZip[<<bundles[l].id, bundles[l].cur>>][2] = apkKey
    <3>1. bundles[l] \in BundleRecord
      BY DEF TypeOK, Optimisable, Registered
    <3>2. <<bundles[l].id, bundles[l].cur>> \in Slots
      BY <3>1 DEF BundleRecord, Slots
    <3> QED BY <2>2, <3>2 DEF Optimisable
  <2> QED BY <2>1, <2>3 DEF OptDexFiles
<1>3. CASE Crash
  BY <1>3 DEF Crash, NoBundles
<1>4. CASE UpgradeApk
  BY <1>4 DEF UpgradeApk, procVars, DownInv, NoBundles
<1> QED BY Loaders, <1>1, <1>2, <1>3, <1>4 DEF vars, diskVars, procVars

\* The inductive invariant holds in every reachable state.
THEOREM ApkInvariance == Spec => []ApkInv
<1>1. ApkInv /\ [Next]_vars => ApkInv'
  BY TypeStep, OpStep, ZipsStep, DownStep, StorageStep, LoadedStep DEF ApkInv
<1> QED BY InitApkInv, <1>1, PTL DEF Spec

\* Type correctness of the bundle framework, for any number of bundles, ids, revisions, APK
\* versions and I/O errors.
THEOREM TypeCorrect == Spec => []TypeOK
<1>1. ApkInv => TypeOK
  BY DEF ApkInv
<1> QED BY ApkInvariance, <1>1, PTL

\* Whatever crashes, fails or is interrupted between the purge of an old APK's bundles and the
\* commit of the new APK's key, no code of another APK version is ever on the class path.
THEOREM NoStaleCode == Spec => []LoadedIsCurrentApk
<1>1. ApkInv => LoadedIsCurrentApk
  BY DEF ApkInv
<1> QED BY ApkInvariance, <1>1, PTL

-----------------------------------------------------------------------------
(* Ids, directories and restarts of the bundle framework.                  *)

\* The process has read the storage, or emptied it.
Live == proc # "down" /\ step \notin {"purge", "restore"}

\* A process that is not live knows nothing.
BlankInv == ~Live => /\ bundles = NoBundles /\ loaded = NoBundles /\ nextBundleID = 1

\* The operation under way: none, a new bundle's, or one of a bundle in the table.
UpdateSteps == {"open", "copy", "revMetaOpen", "revMetaWrite"}
WorkInv ==
  /\ step \notin OpSteps \cup {"frameOpen", "frameWrite"} => op = NoOp
  /\ step \in OpSteps /\ op.new => op.rev = 1 /\ bundles[op.loc] = Absent /\ op.id < nextBundleID
  /\ step \in OpSteps /\ ~op.new =>
       /\ op.id = bundles[op.loc].id
       /\ step \in UpdateSteps \cup {"uninstall"}
       /\ op.rev = IF step = "uninstall" THEN bundles[op.loc].cur ELSE bundles[op.loc].last + 1
  /\ step = "uninstall" => revDir[Slot]

\* Who runs which step: the main thread those of start-up, the first run the installs of packed
\* bundles, the application everything else.  A directory is only cleaned up after an error.
ThreadInv ==
  /\ step \in {"purge", "restore", "openApk"} => proc = "booting"
  /\ step \in OpSteps => proc \in {"installing", "running"}
  /\ step \in OpSteps /\ ~op.new => proc = "running"
  /\ step = "cleanup" => ioFailed

\* Ids: none in use lies at or beyond the counter, no two bundles share one, and a directory
\* that names a bundle names the one that has its id.
IdsInv ==
  Live => 
    /\ \A i \in Ids : Occupied(i) => i < nextBundleID
    /\ \A l \in Registered : /\ bundles[l].id < nextBundleID
                             /\ bundleMeta[bundles[l].id] \in {l, Absent, Torn}
    /\ \A l, m \in Registered : bundles[l].id = bundles[m].id => l = m

\* The directory of a bundle being installed.
NewDirInv ==
  step \in OpSteps /\ op.new =>
    /\ \A l \in Registered : bundles[l].id # op.id
    /\ bundleMeta[op.id] \in {Absent, Torn}
    /\ \A v \in RevisionsOf(op.id) : v = 1
    /\ step \notin {"open", "cleanup"} =>
         \A v \in Revisions : revZip[<<op.id, v>>] \in Content => revZip[<<op.id, v>>][1] = op.loc

\* A directory holds the code of one bundle.
ZipOwnerInv ==
  /\ \A i \in Ids, v \in Revisions :
       bundleMeta[i] \in Locations /\ revZip[<<i, v>>] \in Content
         => revZip[<<i, v>>][1] = bundleMeta[i]
  /\ \A l \in Registered, v \in Revisions :
       revZip[<<bundles[l].id, v>>] \in Content => revZip[<<bundles[l].id, v>>][1] = l
  /\ \A l \in Locations : loaded[l] # Absent => loaded[l][1] = l

\* No bundle has two directories a start would accept; a live process knows them all.
OneDirInv ==
  /\ \A i, j \in Ids : Restorable(i) /\ Restorable(j) /\ bundleMeta[i] = bundleMeta[j] => i = j
  /\ Live => \A i \in Ids : Restorable(i) => /\ bundles[bundleMeta[i]] # Absent
                                             /\ bundles[bundleMeta[i]].id = i

OwnerInv == ~reusedIds => IdsInv /\ NewDirInv /\ ZipOwnerInv /\ OneDirInv

\* Without an I/O error in this process, the storage agrees with the table ...
Updating(l)     == step \in UpdateSteps /\ ~op.new /\ op.loc = l
Uninstalling(l) == step = "uninstall" /\ op.loc = l

RevisionsOnDisk(l) ==
  LET i == bundles[l].id
      k == bundles[l].last
  IN /\ bundleMeta[i] = l
     /\ l \notin uninstalled /\ ~Uninstalling(l) =>
          k \in Revisions /\ revDir[<<i, k>>] /\ revMeta[<<i, k>>] = Saved
     /\ \/ \A v \in RevisionsOf(i) : v <= k
        \/ /\ Updating(l) \/ (l \in uninstalled /\ ~revDir[<<i, bundles[l].cur>>])
           /\ \A v \in RevisionsOf(i) : v <= k + 1

CounterOnDisk(l) ==
  step \notin {"frameOpen", "frameWrite"} => frameMeta \in Nat /\ frameMeta > bundles[l].id

NewOnDisk ==
  step \in {"bundleMetaOpen", "bundleMetaWrite"} =>
    revDir[<<op.id, 1>>] /\ revMeta[<<op.id, 1>>] = Saved

DiskInv ==
  ~reusedIds /\ ~ioFailed /\ Live =>
    NewOnDisk /\ \A l \in Registered : RevisionsOnDisk(l) /\ CounterOnDisk(l)

FirstRun == proc = "installing" \/ (proc = "booting" /\ step \in {"frameOpen", "frameWrite", "openApk"})

FirstRunInv ==
  /\ FirstRun => uninstalled = {} /\ ~reusedIds
  /\ proc = "installing" /\ ~ioFailed =>
       \A l \in Packed : l \in todo \/ l \in Registered \/ (step \in OpSteps /\ op.new /\ op.loc = l)

StorageInv == BlankInv /\ WorkInv /\ ThreadInv /\ OwnerInv /\ DiskInv /\ FirstRunInv

-----------------------------------------------------------------------------
(* The process and its operation.                                          *)

\* Initially.
LEMMA InitStorageInv == Init => StorageInv
<1> SUFFICES ASSUME Init PROVE StorageInv
  OBVIOUS
<1>1. BlankInv /\ WorkInv /\ ThreadInv /\ FirstRunInv /\ ~Live
  BY DEF Init, BlankInv, WorkInv, ThreadInv, FirstRunInv, FirstRun, Live, OpSteps
<1>2. Registered = {} /\ \A i \in Ids : bundleMeta[i] = Absent
  BY DEF Init, Registered, NoBundles
<1>3. \A i \in Ids : ~Restorable(i) /\ bundleMeta[i] \notin Locations
  BY <1>2, MarkerAssumption DEF Restorable
<1>4. OwnerInv
  BY <1>1, <1>2, <1>3
  DEF Init, OwnerInv, IdsInv, NewDirInv, ZipOwnerInv, OneDirInv, OpSteps, NoBundles
<1> QED BY <1>1, <1>4 DEF StorageInv, DiskInv

\* Until it has read the storage, or emptied it, a process knows nothing.
LEMMA BlankStep == ApkInv /\ BlankInv /\ [Next]_vars => BlankInv'
<1> SUFFICES ASSUME DownInv, BlankInv, [Next]_vars PROVE BlankInv'
  BY DEF ApkInv
<1> USE DEF BlankInv, Live, DownInv, diskVars, procVars, KeepMetas, KeepTable
<1>1. CASE Boot \/ Crash \/ UpgradeApk
  BY <1>1 DEF Boot, Crash, UpgradeApk
<1>2. CASE (\E i \in Ids : PurgeBundleDir(i)) \/ PurgeFrameMeta \/ PurgeDone
  BY <1>2 DEF PurgeBundleDir, PurgeFrameMeta, PurgeDone
<1>3. CASE Restore \/ OpenApk \/ Run \/ CommitKey
  BY <1>3 DEF Restore, OpenApk, Run, CommitKey
<1>4. CASE \E l \in Locations : proc = "installing" /\ InstallBegin(l)
  BY <1>4 DEF InstallBegin
<1>5. CASE Request
  BY <1>5 DEF Request, InstallBegin, InstallRejected, UpdateBegin, UninstallBegin, RunAgain
<1>6. CASE Operation
  <2>1. CASE OpenZip \/ CopyStream \/ RevMetaOpen \/ RevMetaWrite \/ RevisionFails
    BY <2>1 DEF OpenZip, CopyStream, RevMetaOpen, RevMetaWrite, RevisionFails
  <2>2. CASE \E s \in Slots : DeleteZip(s) \/ DeleteRevMeta(s) \/ DeleteRevDir(s)
    <3>1. step \in {"cleanup", "uninstall"}
      BY <2>2 DEF DeleteZip, DeleteRevMeta, DeleteRevDir, Deleting
    <3> QED BY <2>2, <3>1 DEF DeleteZip, DeleteRevMeta, DeleteRevDir
  <2>3. CASE DeleteBundleMeta \/ CleanupDone
    BY <2>3 DEF DeleteBundleMeta, CleanupDone
  <2>4. CASE BundleMetaOpen \/ BundleMetaWrite \/ BundleMetaFails
    BY <2>4 DEF BundleMetaOpen, BundleMetaWrite, BundleMetaFails, Register
  <2>5. CASE FrameMetaOpen \/ FrameMetaWrite \/ FrameMetaFails \/ UninstallDone
    BY <2>5 DEF FrameMetaOpen, FrameMetaWrite, FrameMetaFails, UninstallDone, StoreReturns
  <2> QED BY <1>6, <2>1, <2>2, <2>3, <2>4, <2>5 DEF Operation
<1>7. CASE UNCHANGED vars
  BY <1>7 DEF vars
<1> QED BY <1>1, <1>2, <1>3, <1>4, <1>5, <1>6, <1>7 DEF Next, StartUp

\* The thread's operation is of a bundle that is new, or of one in the table.
LEMMA WorkStep == ApkInv /\ BlankInv /\ WorkInv /\ [Next]_vars => WorkInv'
<1> SUFFICES ASSUME TypeOK, OpInv, DownInv, BlankInv, WorkInv, [Next]_vars PROVE WorkInv'
  BY DEF ApkInv
<1> USE DEF WorkInv, UpdateSteps, OpSteps, DownInv, Slot, diskVars, procVars, KeepMetas, KeepRevs,
            KeepTable
<1>1. CASE Boot \/ Crash \/ UpgradeApk
  BY <1>1 DEF Boot, Crash, UpgradeApk
<1>2. CASE (\E i \in Ids : PurgeBundleDir(i)) \/ PurgeFrameMeta \/ PurgeDone
  BY <1>2 DEF PurgeBundleDir, PurgeFrameMeta, PurgeDone
<1>3. CASE Restore \/ OpenApk \/ Run \/ CommitKey
  BY <1>3 DEF Restore, OpenApk, Run, CommitKey
<1>4. CASE \E l \in Locations : InstallBegin(l)
  <2>1. nextBundleID < nextBundleID + 1
    BY BundleAssumption DEF TypeOK
  <2> QED BY <1>4, <2>1 DEF InstallBegin
<1>5. CASE (\E l \in Locations : InstallRejected(l)) \/ RunAgain
  BY <1>5 DEF InstallRejected, RunAgain
<1>6. CASE \E l \in Locations : UpdateBegin(l) \/ UninstallBegin(l)
  BY <1>6 DEF UpdateBegin, UninstallBegin
<1>7. CASE OpenZip \/ CopyStream \/ RevMetaOpen
  BY <1>7 DEF OpenZip, CopyStream, RevMetaOpen
<1>8. CASE RevMetaWrite \/ RevisionFails
  BY <1>8 DEF RevMetaWrite, RevisionFails
<1>9. CASE \E s \in Slots : DeleteZip(s) \/ DeleteRevMeta(s) \/ DeleteRevDir(s)
  BY <1>9 DEF DeleteZip, DeleteRevMeta, DeleteRevDir
<1>10. CASE DeleteBundleMeta \/ CleanupDone
  BY <1>10 DEF DeleteBundleMeta, CleanupDone
<1>11. CASE BundleMetaOpen \/ BundleMetaWrite \/ BundleMetaFails
  BY <1>11 DEF BundleMetaOpen, BundleMetaWrite, BundleMetaFails, Register
<1>12. CASE FrameMetaOpen \/ FrameMetaWrite \/ FrameMetaFails \/ UninstallDone
  BY <1>12 DEF FrameMetaOpen, FrameMetaWrite, FrameMetaFails, UninstallDone, StoreReturns
<1>13. CASE UNCHANGED vars
  BY <1>13 DEF vars
<1> QED BY <1>1, <1>2, <1>3, <1>4, <1>5, <1>6, <1>7, <1>8, <1>9, <1>10, <1>11, <1>12, <1>13
  DEF Next, StartUp, Operation, Request

-----------------------------------------------------------------------------
(* Ids and directories.                                                    *)

\* What a start makes of a bundle directory depends on its files alone.
LEMMA SameDir ==
  ASSUME NEW i \in Ids, bundleMeta'[i] = bundleMeta[i],
         \A v \in Revisions : /\ revDir'[<<i, v>>] = revDir[<<i, v>>]
                              /\ revMeta'[<<i, v>>] = revMeta[<<i, v>>]
  PROVE  /\ RevisionsOf(i)' = RevisionsOf(i)
         /\ Newest(i)' = Newest(i)
         /\ Restorable(i)' <=> Restorable(i)
         /\ Occupied(i)' <=> Occupied(i)
<1>1. RevisionsOf(i)' = RevisionsOf(i)
  BY DEF RevisionsOf
<1>2. Newest(i)' = Newest(i)
  BY <1>1 DEF Newest
<1>3. Occupied(i)' <=> Occupied(i)
  BY <1>1 DEF Occupied
<1>4. Restorable(i)' <=> Restorable(i)
  <2>1. RevisionsOf(i) # {} => Newest(i) \in Revisions
    BY NewestIsARevision
  <2> QED BY <1>1, <1>2, <2>1 DEF Restorable
<1> QED BY <1>1, <1>2, <1>3, <1>4

\* A step writes nothing outside the directory of the operation under way, except for the purge.
LEMMA DirSteps ==
  ASSUME TypeOK, OpInv, [Next]_vars
  PROVE  \/ \E j \in Ids : PurgeBundleDir(j)
         \/ UNCHANGED <<bundleMeta, revDir, revMeta, revZip>>
         \/ /\ step \in OpSteps
            /\ \A i \in Ids : i # op.id =>
                 /\ bundleMeta'[i] = bundleMeta[i]
                 /\ \A v \in Revisions : /\ revDir'[<<i, v>>] = revDir[<<i, v>>]
                                         /\ revMeta'[<<i, v>>] = revMeta[<<i, v>>]
                                         /\ revZip'[<<i, v>>] = revZip[<<i, v>>]
<1> USE DEF TypeOK, OpSteps, Slot, Slots, KeepMetas, KeepRevs, KeepTable, diskVars
<1>1. CASE Boot \/ Crash \/ UpgradeApk
  BY <1>1 DEF Boot, Crash, UpgradeApk
<1>2. CASE PurgeFrameMeta \/ PurgeDone \/ Restore \/ OpenApk \/ Run \/ CommitKey
  BY <1>2 DEF PurgeFrameMeta, PurgeDone, Restore, OpenApk, Run, CommitKey
<1>3. CASE Request \/ \E l \in Locations : InstallBegin(l)
  BY <1>3 DEF Request, InstallBegin, InstallRejected, UpdateBegin, UninstallBegin, RunAgain
<1>4. CASE OpenZip \/ CopyStream \/ RevMetaOpen
  BY <1>4 DEF OpenZip, CopyStream, RevMetaOpen
<1>5. CASE RevMetaWrite \/ RevisionFails
  BY <1>5 DEF RevMetaWrite, RevisionFails
<1>6. CASE \E s \in Slots : DeleteZip(s) \/ DeleteRevMeta(s) \/ DeleteRevDir(s)
  BY <1>6 DEF DeleteZip, DeleteRevMeta, DeleteRevDir, Deleting
<1>7. CASE DeleteBundleMeta \/ CleanupDone
  BY <1>7 DEF DeleteBundleMeta, CleanupDone
<1>8. CASE BundleMetaOpen \/ BundleMetaWrite \/ BundleMetaFails
  BY <1>8 DEF BundleMetaOpen, BundleMetaWrite, BundleMetaFails
<1>9. CASE FrameMetaOpen \/ FrameMetaWrite \/ FrameMetaFails \/ UninstallDone
  BY <1>9 DEF FrameMetaOpen, FrameMetaWrite, FrameMetaFails, UninstallDone
<1>10. CASE UNCHANGED vars
  BY <1>10 DEF vars
<1> QED BY <1>1, <1>2, <1>3, <1>4, <1>5, <1>6, <1>7, <1>8, <1>9, <1>10
  DEF Next, StartUp, Operation

\* run() changes neither which bundles are in the table nor their ids.
LEMMA OptDexFilesKeeps ==
  ASSUME TypeOK, OptDexFiles, NEW l \in Locations
  PROVE  /\ bundles'[l] # Absent <=> bundles[l] # Absent
         /\ bundles[l] # Absent => /\ bundles'[l].id = bundles[l].id
                                  /\ bundles'[l].cur = bundles[l].cur
                                  /\ bundles'[l].last = bundles[l].last
<1>1. bundles[l] \in BundleRecord \cup {Absent}
  BY DEF TypeOK
<1>2. CASE l \in Optimisable
  <2>1. bundles[l] \in BundleRecord /\ bundles[l] # Absent
    BY <1>1, <1>2 DEF Optimisable, Registered
  <2>2. [bundles[l] EXCEPT !.opt = TRUE] \in BundleRecord
    BY <2>1 DEF BundleRecord
  <2> QED BY <1>2, <2>1, <2>2, RecordAssumption DEF OptDexFiles, BundleRecord
<1>3. CASE l \notin Optimisable
  BY <1>3 DEF OptDexFiles
<1> QED BY <1>2, <1>3

\* Before a step, with no id reused.
OwnerPre == ApkInv /\ BlankInv /\ WorkInv /\ IdsInv /\ NewDirInv /\ ZipOwnerInv /\ OneDirInv

\* The end of the purge, or a restore that finds nothing, leaves nobody to confuse.
LEMMA EmptyStart == ApkInv /\ BlankInv /\ WorkInv /\ PurgeDone => OwnerInv'
<1> SUFFICES ASSUME ApkInv, BlankInv, WorkInv, PurgeDone PROVE OwnerInv'
  OBVIOUS
<1>1. Registered' = {} /\ loaded' = NoBundles
  BY DEF PurgeDone, BlankInv, Live, Registered, NoBundles
<1>2. \A i \in Ids : bundleMeta'[i] = Absent /\ RevisionsOf(i)' = {}
  BY DEF PurgeDone, InUse, diskVars, RevisionsOf
<1>3. \A i \in Ids : ~Occupied(i)' /\ ~Restorable(i)' /\ bundleMeta'[i] \notin Locations
  BY <1>2, MarkerAssumption DEF Occupied, Restorable
<1>4. step' = "frameOpen"
  BY DEF PurgeDone
<1> QED BY <1>1, <1>3, <1>4
  DEF OwnerInv, IdsInv, NewDirInv, ZipOwnerInv, OneDirInv, OpSteps, NoBundles

\* Every step keeps the ids apart and the counter ahead of them.
LEMMA IdsStep == OwnerPre /\ ~reusedIds' /\ ~PurgeDone /\ [Next]_vars => IdsInv'
<1> SUFFICES ASSUME TypeOK, OpInv, DownInv, BlankInv, WorkInv, IdsInv, NewDirInv, OneDirInv,
                    ~reusedIds', ~PurgeDone, [Next]_vars
             PROVE  IdsInv'
  BY DEF OwnerPre, ApkInv
<1> USE DEF IdsInv, Registered, diskVars, procVars, KeepMetas, KeepRevs, KeepTable, Slot
<1> DEFINE Ahead == \A i \in Ids : Occupied(i) => i < nextBundleID
           Named == \A l \in Registered : /\ bundles[l].id < nextBundleID
                                          /\ bundleMeta[bundles[l].id] \in {l, Absent, Torn}
           Apart == \A l, m \in Registered : bundles[l].id = bundles[m].id => l = m
<1>0. /\ bundles \in [Locations -> BundleRecord \cup {Absent}]
      /\ \A l \in Registered : bundles[l] \in BundleRecord /\ bundles[l].id \in Ids
      /\ nextBundleID \in Int /\ Ids \subseteq Int
      /\ bundleMeta \in [Ids -> Locations \cup {Absent, Torn}]
      /\ revDir \in [Slots -> BOOLEAN]
  BY BundleAssumption DEF TypeOK, BundleRecord, Ids
<1>1. CASE Boot \/ Crash \/ UpgradeApk
  BY <1>1 DEF Boot, Crash, UpgradeApk, Live, DownInv
<1>2. CASE (\E i \in Ids : PurgeBundleDir(i)) \/ PurgeFrameMeta
  BY <1>2 DEF PurgeBundleDir, PurgeFrameMeta, Live
<1>3. CASE Restore
  <2>0. nextBundleID' \in Int
    BY TypeStep, BundleAssumption DEF TypeOK
  <2>1. Ahead'
    <3>1. ~ \E i \in Ids : Occupied(i) /\ i >= nextBundleID'
      BY <1>3, Zenon DEF Restore
    <3>2. \A i \in Ids : Occupied(i)' <=> Occupied(i)
      BY <1>3 DEF Restore, Occupied, RevisionsOf
    <3> QED BY <1>0, <2>0, <3>1, <3>2
  <2>2. CASE UNCHANGED bundles
    BY <1>3, <2>1, <2>2 DEF BlankInv, Live, NoBundles, Restore
  <2>3. ASSUME NEW pick \in [Locations -> Ids],
               \A l \in Locations : DirsOf(l) # {} => pick[l] \in DirsOf(l),
               bundles' = [l \in Locations |->
                 IF DirsOf(l) = {} THEN Absent
                 ELSE [id |-> pick[l], cur |-> Newest(pick[l]),
                       last |-> Newest(pick[l]), opt |-> FALSE]]
        PROVE  Named' /\ Apart'
    <3>1. ASSUME NEW l \in Locations, bundles'[l] # Absent
          PROVE  bundles'[l].id = pick[l] /\ bundleMeta[pick[l]] = l /\ pick[l] \in Ids
      BY <2>3, <3>1 DEF DirsOf
    <3>2. ASSUME NEW l \in Locations, bundles'[l] # Absent PROVE Occupied(pick[l])'
      BY <1>3, <3>1, <3>2, MarkerAssumption DEF Occupied, Restore
    <3> QED BY <1>3, <2>1, <3>1, <3>2 DEF Restore
  <2> QED BY <1>3, <2>1, <2>2, <2>3 DEF Restore
<1>4. CASE OpenApk \/ CommitKey
  BY <1>4 DEF OpenApk, CommitKey, Live, DownInv, Occupied, RevisionsOf
<1>5. CASE Run \/ RunAgain
  <2>1. Live /\ OptDexFiles /\ UNCHANGED <<diskVars, nextBundleID>>
    BY <1>5 DEF Run, RunAgain, Live, DownInv
  <2> QED BY <1>0, <2>1, OptDexFilesKeeps DEF Occupied, RevisionsOf
<1>6. CASE \E l \in Locations : InstallBegin(l) \/ InstallRejected(l)
  <2>1. /\ Live /\ nextBundleID' = nextBundleID + 1
        /\ UNCHANGED <<bundleMeta, revDir, bundles>>
    BY <1>6 DEF InstallBegin, InstallRejected, Live, DownInv
  <2>2. \A n \in Int : n < nextBundleID => n < nextBundleID'
    BY <1>0, <2>1
  <2>3. Ahead'
    BY <1>0, <2>1, <2>2 DEF Occupied, RevisionsOf
  <2>4. Named' /\ Apart'
    BY <1>0, <2>1, <2>2
  <2> QED BY <2>3, <2>4
<1>7. CASE \E l \in Locations : UpdateBegin(l) \/ UninstallBegin(l)
  <2>1. Live /\ UNCHANGED <<bundleMeta, revDir, bundles, nextBundleID>>
    BY <1>7 DEF UpdateBegin, UninstallBegin, Live
  <2> QED BY <2>1 DEF Occupied, RevisionsOf
<1>8. ASSUME step \in OpSteps PROVE Live /\ op.id < nextBundleID /\ op.id \in Ids
  BY <1>0, <1>8 DEF WorkInv, OpInv, OpSteps, Live, DownInv
<1>9. CASE OpenZip \/ RevisionFails
  <2>1. /\ Live /\ op.id < nextBundleID /\ op.id \in Ids
        /\ UNCHANGED <<bundleMeta, bundles, nextBundleID>>
    BY <1>8, <1>9 DEF OpenZip, RevisionFails, OpSteps
  <2>2. \A i \in Ids : i # op.id => (Occupied(i)' <=> Occupied(i))
    BY <1>0, <1>9 DEF OpenZip, RevisionFails, Occupied, RevisionsOf, Slots
  <2> QED BY <2>1, <2>2
<1>10. CASE CopyStream \/ RevMetaOpen
  <2>1. Live /\ UNCHANGED <<bundleMeta, revDir, bundles, nextBundleID>>
    BY <1>8, <1>10 DEF CopyStream, RevMetaOpen, OpSteps
  <2> QED BY <2>1 DEF Occupied, RevisionsOf
<1>11. CASE RevMetaWrite
  <2>1. Live /\ UNCHANGED <<bundleMeta, revDir, nextBundleID>>
    BY <1>8, <1>11 DEF RevMetaWrite, OpSteps
  <2>2. \A l \in Registered' : l \in Registered /\ bundles'[l].id = bundles[l].id
    BY <1>0, <1>11 DEF RevMetaWrite, BundleRecord, OpInv, OpSteps
  <2> QED BY <2>1, <2>2 DEF Occupied, RevisionsOf
<1>12. CASE \E s \in Slots : DeleteZip(s) \/ DeleteRevMeta(s) \/ DeleteRevDir(s)
  <2>1. Live /\ UNCHANGED <<bundleMeta, bundles, nextBundleID>>
    BY <1>8, <1>12 DEF DeleteZip, DeleteRevMeta, DeleteRevDir, Deleting, OpSteps
  <2>2. \A i \in Ids : Occupied(i)' => Occupied(i)
    BY <1>0, <1>12 DEF DeleteZip, DeleteRevMeta, DeleteRevDir, Occupied, RevisionsOf, Slots
  <2> QED BY <2>1, <2>2
<1>13. CASE DeleteBundleMeta \/ CleanupDone
  <2>1. Live /\ UNCHANGED <<revDir, bundles, nextBundleID>>
    BY <1>8, <1>13 DEF DeleteBundleMeta, CleanupDone, OpSteps
  <2>2. \A i \in Ids : bundleMeta'[i] = bundleMeta[i] \/ bundleMeta'[i] = Absent
    BY <1>0, <1>13 DEF DeleteBundleMeta, CleanupDone
  <2>3. \A i \in Ids : Occupied(i)' => Occupied(i)
    BY <2>1, <2>2 DEF Occupied, RevisionsOf
  <2>4. \A l \in Registered : bundleMeta'[bundles[l].id] \in {l, Absent, Torn}
    BY <1>0, <2>1, <2>2
  <2> QED BY <2>1, <2>3, <2>4
<1>14. CASE BundleMetaOpen
  BY <1>0, <1>8, <1>14 DEF BundleMetaOpen, OpSteps, Occupied, RevisionsOf
<1>15. CASE BundleMetaWrite \/ BundleMetaFails
  <2>1. /\ Live /\ op.new /\ op.id < nextBundleID /\ op.id \in Ids /\ op.loc \in Locations
        /\ bundleMeta[op.id] \in {Absent, Torn}
        /\ \A l \in Registered : bundles[l].id # op.id
    BY <1>8, <1>15
    DEF BundleMetaWrite, BundleMetaFails, OpSteps, WorkInv, UpdateSteps, NewDirInv, OpInv
  <2>2. /\ UNCHANGED <<revDir, nextBundleID>>
        /\ bundleMeta' = bundleMeta \/ bundleMeta' = [bundleMeta EXCEPT ![op.id] = op.loc]
        /\ bundles' = [bundles EXCEPT ![op.loc] =
                         [id |-> op.id, cur |-> 1, last |-> 1, opt |-> FALSE]]
    BY <1>15 DEF BundleMetaWrite, BundleMetaFails, Register
  <2>3. Ahead'
    BY <1>0, <2>1, <2>2 DEF Occupied, RevisionsOf
  <2>4. \A l \in Registered' : \/ l = op.loc /\ bundles'[l].id = op.id
                               \/ l # op.loc /\ l \in Registered /\ bundles'[l] = bundles[l]
    BY <1>0, <2>2
  <2>5. bundleMeta'[op.id] \in {op.loc, Absent, Torn} /\ \A l \in Registered :
          bundleMeta'[bundles[l].id] = bundleMeta[bundles[l].id]
    BY <1>0, <2>1, <2>2
  <2>6. Named' /\ Apart'
    BY <2>1, <2>2, <2>4, <2>5
  <2> QED BY <2>3, <2>6
<1>16. CASE FrameMetaOpen \/ FrameMetaWrite \/ FrameMetaFails
  BY <1>16 DEF FrameMetaOpen, FrameMetaWrite, FrameMetaFails, StoreReturns, Live, DownInv,
               Occupied, RevisionsOf
<1>17. CASE UninstallDone
  <2>1. Live /\ UNCHANGED <<bundleMeta, nextBundleID>>
    BY <1>8, <1>17 DEF UninstallDone, OpSteps
  <2>2. \A l \in Registered' : l \in Registered /\ bundles'[l].id = bundles[l].id
    BY <1>0, <1>17 DEF UninstallDone, BundleRecord, OpInv, OpSteps
  <2>3. \A i \in Ids : Occupied(i)' => Occupied(i)
    BY <1>0, <1>17 DEF UninstallDone, Occupied, RevisionsOf, Slots
  <2> QED BY <2>1, <2>2, <2>3
<1>18. CASE UNCHANGED vars
  BY <1>18 DEF vars, Live, Occupied, RevisionsOf
<1> QED BY <1>1, <1>2, <1>3, <1>4, <1>5, <1>6, <1>7, <1>9, <1>10, <1>11, <1>12, <1>13, <1>14,
           <1>15, <1>16, <1>17, <1>18
  DEF Next, StartUp, Operation, Request

\* Every step keeps the directory of a new bundle its own.
LEMMA NewDirStep == OwnerPre /\ [Next]_vars => NewDirInv'
<1> SUFFICES ASSUME TypeOK, OpInv, DownInv, ZipsInDirs, BlankInv, WorkInv, IdsInv, NewDirInv,
                    [Next]_vars, step' \in OpSteps, op'.new
             PROVE  NewDirInv'
  BY DEF OwnerPre, ApkInv, NewDirInv
<1> USE DEF OpSteps, diskVars, procVars, KeepMetas, KeepRevs, KeepTable, Slot, Slots
<1>0. /\ \A l \in Registered : bundles[l].id \in Ids
      /\ nextBundleID \in Int /\ Ids \subseteq Int
      /\ bundleMeta \in [Ids -> Locations \cup {Absent, Torn}]
      /\ revDir \in [Slots -> BOOLEAN]
      /\ revZip \in [Slots -> Content \cup {Absent, Torn}]
      /\ {Absent, Torn} \cap Content = {}
  BY BundleAssumption, MarkerAssumption DEF TypeOK, BundleRecord, Ids, Registered, Content, Apks
<1>1. step = "none" \/ step \in OpSteps \/ UNCHANGED vars
  <2>1. ~(StartUp /\ step # "none")
    BY DEF StartUp, PurgeBundleDir, PurgeFrameMeta, PurgeDone, Restore, OpenApk, InstallBegin,
           CommitKey, Run
  <2>2. ~Boot /\ ~Crash
    BY DEF Boot, Crash
  <2>3. Request => step = "none"
    BY DEF Request, InstallBegin, InstallRejected, UpdateBegin, UninstallBegin, RunAgain
  <2>4. UpgradeApk => step = "none"
    BY DEF UpgradeApk, DownInv
  <2>5. Operation /\ step \notin OpSteps => FrameMetaOpen \/ FrameMetaWrite \/ FrameMetaFails
    BY DEF Operation, OpenZip, CopyStream, RevMetaOpen, RevMetaWrite, RevisionFails, DeleteZip,
           DeleteRevMeta, DeleteRevDir, Deleting, DeleteBundleMeta, CleanupDone, BundleMetaOpen,
           BundleMetaWrite, BundleMetaFails, UninstallDone
  <2>6. ~FrameMetaOpen /\ ~FrameMetaWrite /\ ~FrameMetaFails
    BY DEF FrameMetaOpen, FrameMetaWrite, FrameMetaFails, StoreReturns
  <2> QED BY <2>1, <2>2, <2>3, <2>4, <2>5, <2>6 DEF Next
<1>2. CASE UNCHANGED vars
  BY <1>2 DEF vars, NewDirInv, Registered, RevisionsOf
<1>3. CASE step = "none" /\ ~UNCHANGED vars
  <2>0. ~Operation
    BY <1>3 DEF Operation, OpenZip, CopyStream, RevMetaOpen, RevMetaWrite, RevisionFails,
      DeleteZip, DeleteRevMeta, DeleteRevDir, Deleting, DeleteBundleMeta, CleanupDone,
      BundleMetaOpen, BundleMetaWrite, BundleMetaFails, FrameMetaOpen, FrameMetaWrite,
      FrameMetaFails, UninstallDone
  <2> PICK l \in Locations : InstallBegin(l)
    <3>1. ~Boot /\ ~Crash /\ ~UpgradeApk
      BY <1>3 DEF Boot, Crash, UpgradeApk
    <3>2. StartUp => \E l \in Locations : InstallBegin(l)
      BY <1>3 DEF StartUp, PurgeBundleDir, PurgeFrameMeta, PurgeDone, Restore, OpenApk, CommitKey,
                  Run
    <3>3. ~RunAgain /\ \A l \in Locations : ~InstallRejected(l)
      BY <1>3 DEF RunAgain, InstallRejected
    <3>4. \A l \in Locations : ~UpdateBegin(l) /\ ~UninstallBegin(l)
      BY DEF UpdateBegin, UninstallBegin
    <3> QED BY <1>3, <2>0, <3>1, <3>2, <3>3, <3>4 DEF Next, Request
  <2>1. InstallBegin(l)
    OBVIOUS
  <2>2. Live /\ op'.id = nextBundleID /\ nextBundleID \in Ids /\ step' = "open"
    BY <1>0, <2>1, BundleAssumption DEF InstallBegin, Live, Ids, TypeOK
  <2>3. UNCHANGED <<bundles, bundleMeta, revDir>>
    BY <2>1 DEF InstallBegin
  <2>4. ~Occupied(nextBundleID)
    BY <1>0, <2>2 DEF IdsInv
  <2>5. \A v \in RevisionsOf(nextBundleID) : v = 1
    BY <2>4 DEF Occupied, Revisions, RevisionsOf
  <2>6. bundleMeta[nextBundleID] = Absent
    BY <2>4 DEF Occupied
  <2>7. \A l1 \in Registered : bundles[l1].id # nextBundleID
    BY <1>0, <2>2 DEF IdsInv
  <2> QED BY <2>2, <2>3, <2>5, <2>6, <2>7 DEF NewDirInv, Registered, RevisionsOf
<1>4. ASSUME step \in OpSteps, Operation PROVE NewDirInv'
  <2>0. op.loc \in Locations /\ op.id \in Ids /\ op.rev \in Revisions
    BY <1>4 DEF OpInv
  <2>1. CASE ~op.new
    BY <1>4, <2>1 DEF Operation, OpenZip, CopyStream, RevMetaOpen, RevMetaWrite, RevisionFails,
      DeleteZip, DeleteRevMeta, DeleteRevDir, DeleteBundleMeta, CleanupDone, BundleMetaOpen,
      BundleMetaWrite, BundleMetaFails, FrameMetaOpen, FrameMetaWrite, FrameMetaFails,
      UninstallDone, StoreReturns, Register
  <2>2. CASE op.new
    <3>0. /\ \A l \in Registered : bundles[l].id # op.id
          /\ bundleMeta[op.id] \in {Absent, Torn}
          /\ \A v \in Revisions : revDir[<<op.id, v>>] => v = 1
          /\ op.rev = 1
          /\ step \notin {"open", "cleanup"} => \A v \in Revisions :
               revZip[<<op.id, v>>] \in Content => revZip[<<op.id, v>>][1] = op.loc
      BY <1>4, <2>2 DEF NewDirInv, RevisionsOf, WorkInv
    <3>1. CASE OpenZip
      <4>1. UNCHANGED <<op, bundles, bundleMeta>>
        BY <3>1 DEF OpenZip
      <4>2. \A v \in Revisions : revDir'[<<op.id, v>>] => v = 1
        BY <1>0, <3>0, <3>1 DEF OpenZip
      <4>3. \A v \in Revisions : revZip'[<<op.id, v>>] \notin Content
        BY <1>0, <2>0, <3>0, <3>1 DEF OpenZip, ZipsInDirs
      <4> QED BY <3>0, <4>1, <4>2, <4>3 DEF NewDirInv, Registered, RevisionsOf
    <3>2. CASE CopyStream
      <4>1. UNCHANGED <<op, bundles, bundleMeta, revDir>>
        BY <3>2 DEF CopyStream
      <4>2. \A v \in Revisions : revZip'[<<op.id, v>>] \in Content
                                   => revZip'[<<op.id, v>>][1] = op.loc
        BY <1>0, <2>0, <3>0, <3>2 DEF CopyStream, ZipsInDirs
      <4> QED BY <3>0, <4>1, <4>2 DEF NewDirInv, Registered, RevisionsOf
    <3>3. CASE RevMetaOpen \/ RevMetaWrite
      <4>1. UNCHANGED <<op, bundles, bundleMeta, revDir, revZip>> /\ step \notin {"open", "cleanup"}
        BY <2>2, <3>3 DEF RevMetaOpen, RevMetaWrite
      <4> QED BY <3>0, <4>1 DEF NewDirInv, Registered, RevisionsOf
    <3>4. CASE RevisionFails
      <4>1. UNCHANGED <<op, bundles, bundleMeta>> /\ step' = "cleanup"
        BY <2>2, <3>4 DEF RevisionFails
      <4>2. \A v \in Revisions : revDir'[<<op.id, v>>] => v = 1
        BY <1>0, <3>0, <3>4 DEF RevisionFails
      <4> QED BY <3>0, <4>1, <4>2 DEF NewDirInv, Registered, RevisionsOf
    <3>5. CASE \E s \in Slots : DeleteZip(s) \/ DeleteRevMeta(s) \/ DeleteRevDir(s)
      <4>1. UNCHANGED <<op, bundles, bundleMeta>> /\ step' = "cleanup"
        BY <2>2, <3>5 DEF DeleteZip, DeleteRevMeta, DeleteRevDir, Deleting, OpInv
      <4>2. \A v \in Revisions : revDir'[<<op.id, v>>] => v = 1
        BY <1>0, <2>0, <3>0, <3>5 DEF DeleteZip, DeleteRevMeta, DeleteRevDir
      <4> QED BY <3>0, <4>1, <4>2 DEF NewDirInv, Registered, RevisionsOf
    <3>6. CASE DeleteBundleMeta \/ BundleMetaOpen
      <4>1. UNCHANGED <<op, bundles, revDir, revZip>> /\ step # "open"
            /\ (step = "cleanup" => step' = "cleanup")
        BY <3>6 DEF DeleteBundleMeta, BundleMetaOpen
      <4>2. bundleMeta'[op.id] \in {Absent, Torn}
        BY <1>0, <2>0, <3>6 DEF DeleteBundleMeta, BundleMetaOpen
      <4> QED BY <3>0, <4>1, <4>2 DEF NewDirInv, Registered, RevisionsOf
    <3>7. CASE CleanupDone \/ BundleMetaWrite \/ BundleMetaFails \/ UninstallDone
      BY <3>7 DEF CleanupDone, BundleMetaWrite, BundleMetaFails, UninstallDone, Register
    <3>8. CASE FrameMetaOpen \/ FrameMetaWrite \/ FrameMetaFails
      BY <1>4, <3>8 DEF FrameMetaOpen, FrameMetaWrite, FrameMetaFails
    <3> QED BY <1>4, <3>1, <3>2, <3>3, <3>4, <3>5, <3>6, <3>7, <3>8 DEF Operation
  <2> QED BY <2>1, <2>2
<1>5. step \in OpSteps /\ ~UNCHANGED vars => Operation
  BY DEF Next, Boot, StartUp, PurgeBundleDir, PurgeFrameMeta, PurgeDone, Restore, OpenApk,
         InstallBegin, CommitKey, Run, Request, InstallRejected, UpdateBegin, UninstallBegin,
         RunAgain, Crash, UpgradeApk, DownInv
<1> QED BY <1>1, <1>2, <1>3, <1>4, <1>5

\* While an operation is under way its directory names no other bundle, and only the bundle the
\* operation is of can have it in the table.
LEMMA OpDirectory ==
  ASSUME OwnerPre, step \in OpSteps
  PROVE  /\ Live /\ op.id \in Ids /\ op.loc \in Locations /\ op.rev \in Revisions
         /\ bundleMeta[op.id] \in {op.loc, Absent, Torn}
         /\ op.new => bundleMeta[op.id] \in {Absent, Torn}
         /\ \A l \in Registered : bundles[l].id = op.id => l = op.loc /\ ~op.new
         /\ ~op.new => op.loc \in Registered /\ bundles[op.loc].id = op.id
<1>1. Live
  BY DEF OwnerPre, ApkInv, DownInv, Live, OpSteps
<1>2. op.id \in Ids /\ op.loc \in Locations /\ op.rev \in Revisions
  BY DEF OwnerPre, ApkInv, OpInv
<1>3. CASE op.new
  BY <1>1, <1>2, <1>3 DEF OwnerPre, NewDirInv
<1>4. CASE ~op.new
  <2>1. op.loc \in Registered /\ bundles[op.loc].id = op.id
    BY <1>2, <1>4 DEF OwnerPre, ApkInv, OpInv, WorkInv, Registered
  <2> QED BY <1>1, <1>2, <1>4, <2>1 DEF OwnerPre, IdsInv
<1> QED BY <1>3, <1>4

\* Every step keeps the code of one bundle out of the directory of another.
LEMMA ZipOwnerStep == OwnerPre /\ [Next]_vars => ZipOwnerInv'
<1> SUFFICES ASSUME OwnerPre, [Next]_vars PROVE ZipOwnerInv'
  OBVIOUS
<1> USE DEF diskVars, procVars, KeepMetas, KeepRevs, KeepTable, Slot, Slots
<1> DEFINE Labelled == \A i \in Ids, v \in Revisions :
                         bundleMeta[i] \in Locations /\ revZip[<<i, v>>] \in Content
                           => revZip[<<i, v>>][1] = bundleMeta[i]
           Tabled == \A l \in Registered, v \in Revisions :
                       revZip[<<bundles[l].id, v>>] \in Content
                         => revZip[<<bundles[l].id, v>>][1] = l
           Held == \A l \in Locations : loaded[l] # Absent => loaded[l][1] = l
<1>0. /\ bundles \in [Locations -> BundleRecord \cup {Absent}]
      /\ \A l \in Registered : bundles[l] \in BundleRecord /\ bundles[l].id \in Ids
                               /\ bundles[l].cur \in Revisions
      /\ bundleMeta \in [Ids -> Locations \cup {Absent, Torn}]
      /\ revZip \in [Slots -> Content \cup {Absent, Torn}]
      /\ loaded \in [Locations -> Content \cup {Absent}]
      /\ {Absent, Torn} \cap Content = {} /\ {Absent, Torn} \cap Locations = {}
      /\ Labelled /\ Tabled /\ Held
  BY MarkerAssumption
  DEF OwnerPre, ApkInv, TypeOK, BundleRecord, Registered, Content, Apks, ZipOwnerInv
<1>a. Labelled' /\ Tabled' /\ Held' => ZipOwnerInv'
  BY DEF ZipOwnerInv
<1>1. CASE UNCHANGED vars
  BY <1>0, <1>1, <1>a DEF vars, Registered
<1>2. CASE Crash
  BY <1>0, <1>2, <1>a DEF Crash, NoBundles, Registered
<1>3. CASE Boot \/ UpgradeApk \/ PurgeFrameMeta \/ PurgeDone \/ OpenApk \/ CommitKey
  BY <1>0, <1>3, <1>a
  DEF Boot, UpgradeApk, PurgeFrameMeta, PurgeDone, OpenApk, CommitKey, Registered
<1>4. CASE \E i \in Ids : PurgeBundleDir(i)
  <2>1. Registered = {} /\ UNCHANGED <<bundles, loaded>>
    BY <1>4 DEF PurgeBundleDir, OwnerPre, BlankInv, Live, Registered, NoBundles
  <2>2. Labelled'
    BY <1>0, <1>4 DEF PurgeBundleDir
  <2> QED BY <1>0, <1>a, <2>1, <2>2 DEF Registered
<1>5. CASE Restore
  <2>1. CASE UNCHANGED bundles
    BY <1>0, <1>5, <1>a, <2>1 DEF Restore, Registered
  <2>2. ASSUME NEW pick \in [Locations -> Ids],
               \A l \in Locations : DirsOf(l) # {} => pick[l] \in DirsOf(l),
               bundles' = [l \in Locations |->
                 IF DirsOf(l) = {} THEN Absent
                 ELSE [id |-> pick[l], cur |-> Newest(pick[l]),
                       last |-> Newest(pick[l]), opt |-> FALSE]]
        PROVE  Tabled'
    <3>1. ASSUME NEW l \in Locations, bundles'[l] # Absent
          PROVE  bundles'[l].id = pick[l] /\ bundleMeta[pick[l]] = l /\ pick[l] \in Ids
      BY <2>2, <3>1 DEF DirsOf
    <3> QED BY <1>0, <1>5, <3>1 DEF Restore, Registered
  <2>3. Labelled' /\ Held'
    BY <1>0, <1>5 DEF Restore
  <2> QED BY <1>5, <1>a, <2>1, <2>2, <2>3 DEF Restore
<1>6. CASE Run \/ RunAgain
  <2>1. OptDexFiles /\ UNCHANGED diskVars
    BY <1>6 DEF Run, RunAgain
  <2>2. Labelled' /\ Tabled'
    BY <1>0, <2>1, OptDexFilesKeeps DEF OwnerPre, ApkInv, Registered
  <2>3. \A l \in Optimisable : revZip[<<bundles[l].id, bundles[l].cur>>][1] = l
    BY <1>0 DEF Optimisable
  <2>4. Held'
    BY <1>0, <2>1, <2>3 DEF OptDexFiles
  <2> QED BY <1>a, <2>2, <2>4
<1>7. CASE (Request /\ ~RunAgain) \/ \E l \in Locations : InstallBegin(l)
  BY <1>0, <1>7, <1>a DEF Request, InstallBegin, InstallRejected, UpdateBegin, UninstallBegin, Registered
<1>8. CASE FrameMetaOpen \/ FrameMetaWrite \/ FrameMetaFails
  BY <1>0, <1>8, <1>a DEF FrameMetaOpen, FrameMetaWrite, FrameMetaFails, Registered
<1>9. CASE CleanupDone \/ RevMetaOpen
  BY <1>0, <1>9, <1>a DEF CleanupDone, RevMetaOpen, Registered
<1>10. CASE RevisionFails \/ OpenZip
  <2>1. UNCHANGED <<bundleMeta, bundles, loaded>> /\ \A s \in Slots : revZip'[s] \in {revZip[s], Torn}
    BY <1>0, <1>10 DEF RevisionFails, OpenZip
  <2> QED BY <1>0, <1>a, <2>1 DEF Registered
<1>11. CASE CopyStream
  <2>1. /\ op.id \in Ids /\ op.loc \in Locations /\ op.rev \in Revisions
        /\ bundleMeta[op.id] \in {op.loc, Absent, Torn}
        /\ \A l \in Registered : bundles[l].id = op.id => l = op.loc
    BY <1>11, OpDirectory DEF CopyStream, OpSteps
  <2>2. UNCHANGED <<bundleMeta, bundles, loaded>>
    BY <1>11 DEF CopyStream
  <2>3. /\ revZip'[<<op.id, op.rev>>][1] = op.loc
        /\ \A i \in Ids, v \in Revisions :
             i # op.id \/ v # op.rev => revZip'[<<i, v>>] = revZip[<<i, v>>]
    BY <1>0, <1>11, <2>1 DEF CopyStream
  <2>4. Labelled'
    BY <1>0, <2>1, <2>2, <2>3
  <2>5. Tabled'
    BY <1>0, <2>1, <2>2, <2>3 DEF Registered
  <2> QED BY <1>0, <1>a, <2>2, <2>4, <2>5
<1>12. CASE RevMetaWrite \/ UninstallDone
  <2>1. UNCHANGED <<bundleMeta, revZip, loaded>>
    BY <1>12 DEF RevMetaWrite, UninstallDone
  <2>2. \A l \in Registered' : l \in Registered /\ bundles'[l].id = bundles[l].id
    BY <1>0, <1>12
    DEF RevMetaWrite, UninstallDone, BundleRecord, OwnerPre, ApkInv, OpInv, OpSteps, Registered
  <2> QED BY <1>0, <1>a, <2>1, <2>2
<1>13. CASE \E s \in Slots : DeleteZip(s) \/ DeleteRevMeta(s) \/ DeleteRevDir(s)
  <2>1. UNCHANGED <<bundleMeta, bundles, loaded>> /\ \A s \in Slots : revZip'[s] \in {revZip[s], Absent}
    BY <1>0, <1>13 DEF DeleteZip, DeleteRevMeta, DeleteRevDir
  <2> QED BY <1>0, <1>a, <2>1 DEF Registered
<1>14. CASE DeleteBundleMeta \/ BundleMetaOpen
  <2>1. UNCHANGED <<revZip, bundles, loaded>>
        /\ \A i \in Ids : bundleMeta'[i] \in {bundleMeta[i], Absent, Torn}
    BY <1>0, <1>14 DEF DeleteBundleMeta, BundleMetaOpen
  <2> QED BY <1>0, <1>a, <2>1 DEF Registered
<1>15. CASE BundleMetaWrite \/ BundleMetaFails
  <2>1. /\ op.id \in Ids /\ op.loc \in Locations /\ op.new
        /\ \A v \in Revisions : revZip[<<op.id, v>>] \in Content => revZip[<<op.id, v>>][1] = op.loc
    BY <1>15, OpDirectory
    DEF BundleMetaWrite, BundleMetaFails, OpSteps, OwnerPre, NewDirInv, WorkInv, UpdateSteps
  <2>2. /\ UNCHANGED <<revZip, loaded>>
        /\ bundleMeta' = bundleMeta \/ bundleMeta' = [bundleMeta EXCEPT ![op.id] = op.loc]
        /\ bundles' = [bundles EXCEPT ![op.loc] =
                         [id |-> op.id, cur |-> 1, last |-> 1, opt |-> FALSE]]
    BY <1>15 DEF BundleMetaWrite, BundleMetaFails, Register
  <2>3. Labelled'
    BY <1>0, <2>1, <2>2
  <2>4. \A l \in Registered' : \/ l = op.loc /\ bundles'[l].id = op.id
                               \/ l \in Registered /\ bundles'[l] = bundles[l]
    BY <1>0, <2>2 DEF Registered
  <2>5. Tabled'
    BY <1>0, <2>1, <2>2, <2>4
  <2> QED BY <1>0, <1>a, <2>2, <2>3, <2>5
<1> QED BY <1>1, <1>2, <1>3, <1>4, <1>5, <1>6, <1>7, <1>8, <1>9, <1>10, <1>11, <1>12, <1>13,
           <1>14, <1>15
  DEF Next, StartUp, Operation, Request

\* Every step keeps one directory per bundle, which a live process knows.
LEMMA OneDirStep == OwnerPre /\ ~reusedIds' /\ ~PurgeDone /\ [Next]_vars => OneDirInv'
<1> SUFFICES ASSUME OwnerPre, ~reusedIds', ~PurgeDone, [Next]_vars PROVE OneDirInv'
  OBVIOUS
<1> USE DEF diskVars, procVars, KeepMetas, KeepRevs, KeepTable
<1> DEFINE Single == \A i, j \in Ids :
                       Restorable(i) /\ Restorable(j) /\ bundleMeta[i] = bundleMeta[j] => i = j
           Known  == Live => \A i \in Ids : Restorable(i) => /\ bundles[bundleMeta[i]] # Absent
                                                            /\ bundles[bundleMeta[i]].id = i
           SameDirs == UNCHANGED <<bundleMeta, revDir, revMeta>>
           SameTable == \A l \in Locations :
                          bundles[l] # Absent => bundles'[l] # Absent /\ bundles'[l].id = bundles[l].id
<1>0. /\ TypeOK /\ OpInv /\ DownInv /\ Single /\ Known
      /\ \A i \in Ids : Restorable(i) => bundleMeta[i] \in Locations
  BY DEF OwnerPre, ApkInv, OneDirInv, Restorable
<1>1. SameDirs => \A i \in Ids : Restorable(i)' <=> Restorable(i)
  BY SameDir
<1>2. ASSUME SameDirs, SameTable, Live \/ ~Live' PROVE OneDirInv'
  BY <1>0, <1>1, <1>2 DEF OneDirInv
<1>3. CASE Boot \/ Crash \/ UpgradeApk \/ PurgeFrameMeta
  <2>1. SameDirs /\ ~Live'
    BY <1>0, <1>3 DEF Boot, Crash, UpgradeApk, PurgeFrameMeta, Live, DownInv
  <2> QED BY <1>0, <1>1, <2>1 DEF OneDirInv
<1>4. CASE \E j \in Ids : PurgeBundleDir(j)
  <2> PICK j \in Ids : PurgeBundleDir(j)
    BY <1>4
  <2>1. ~Live' /\ bundleMeta'[j] = Absent
    BY <1>0 DEF PurgeBundleDir, Live, TypeOK
  <2>2. ASSUME NEW i \in Ids, i # j
        PROVE  bundleMeta'[i] = bundleMeta[i] /\ (Restorable(i)' <=> Restorable(i))
    <3>1. /\ bundleMeta'[i] = bundleMeta[i]
          /\ \A v \in Revisions : /\ revDir'[<<i, v>>] = revDir[<<i, v>>]
                                  /\ revMeta'[<<i, v>>] = revMeta[<<i, v>>]
      BY <1>0, <2>2 DEF PurgeBundleDir, Slots, TypeOK
    <3> QED BY <3>1, SameDir
  <2>3. ~Restorable(j)'
    BY <2>1, MarkerAssumption DEF Restorable
  <2> QED BY <1>0, <2>1, <2>2, <2>3 DEF OneDirInv
<1>5. CASE Restore
  <2>1. SameDirs
    BY <1>5 DEF Restore
  <2>2. Single'
    BY <1>0, <1>1, <2>1
  <2>3. CASE frameMeta \notin Nat
    <3>1. nextBundleID' = 1
      BY <1>5, <2>3 DEF Restore, OwnerPre, BlankInv, Live
    <3>2. ~ \E i \in Ids : Occupied(i) /\ i >= 1
      <4>1. ~ \E i \in Ids : Occupied(i) /\ i >= nextBundleID'
        BY <1>5, Zenon DEF Restore
      <4> QED BY <3>1, <4>1
    <3>3. \A i \in Ids : ~Restorable(i)
      BY <3>2, BundleAssumption, MarkerAssumption DEF Occupied, Restorable, Ids
    <3> QED BY <1>1, <2>1, <2>2, <3>3 DEF OneDirInv
  <2>4. ASSUME NEW pick \in [Locations -> Ids],
               \A l \in Locations : DirsOf(l) # {} => pick[l] \in DirsOf(l),
               bundles' = [l \in Locations |->
                 IF DirsOf(l) = {} THEN Absent
                 ELSE [id |-> pick[l], cur |-> Newest(pick[l]),
                       last |-> Newest(pick[l]), opt |-> FALSE]],
               NEW i \in Ids, Restorable(i)
        PROVE  bundles'[bundleMeta[i]] # Absent /\ bundles'[bundleMeta[i]].id = i
    <3>1. bundleMeta[i] \in Locations /\ i \in DirsOf(bundleMeta[i])
      BY <1>0, <2>4 DEF DirsOf
    <3>2. /\ pick[bundleMeta[i]] \in Ids /\ Restorable(pick[bundleMeta[i]])
          /\ bundleMeta[pick[bundleMeta[i]]] = bundleMeta[i]
      BY <2>4, <3>1 DEF DirsOf
    <3>3. pick[bundleMeta[i]] = i
      BY <1>0, <2>4, <3>2
    <3>4. bundles'[bundleMeta[i]] = [id |-> i, cur |-> Newest(i), last |-> Newest(i), opt |-> FALSE]
      BY <2>4, <3>1, <3>3
    <3>5. Newest(i) \in Revisions /\ Newest(i) \in 0..MaxRevision
      BY <2>4, NewestIsARevision, BundleAssumption DEF Restorable, Revisions
    <3>6. bundles'[bundleMeta[i]] \in BundleRecord
      BY <3>4, <3>5 DEF BundleRecord
    <3>7. bundles'[bundleMeta[i]] # Absent
      BY <3>6, RecordAssumption
    <3>8. bundles'[bundleMeta[i]].id = i
      BY <3>4
    <3> QED BY <3>7, <3>8
  <2>5. CASE frameMeta \in Nat
    BY <1>1, <1>5, <2>1, <2>2, <2>4, <2>5 DEF Restore, OneDirInv
  <2> QED BY <2>3, <2>5
<1>6. CASE Run \/ RunAgain
  <2>1. OptDexFiles /\ SameDirs /\ Live
    BY <1>0, <1>6 DEF Run, RunAgain, Live, DownInv
  <2> QED BY <1>0, <1>2, <2>1, OptDexFilesKeeps
<1>7. CASE OpenApk \/ CommitKey \/ FrameMetaOpen \/ FrameMetaWrite \/ FrameMetaFails
  <2>1. SameDirs /\ UNCHANGED bundles /\ Live
    BY <1>0, <1>7
    DEF OpenApk, CommitKey, FrameMetaOpen, FrameMetaWrite, FrameMetaFails, Live, DownInv
  <2> QED BY <1>2, <2>1
<1>8. CASE (Request /\ ~RunAgain) \/ \E l \in Locations : proc = "installing" /\ InstallBegin(l)
  <2>1. SameDirs /\ UNCHANGED bundles /\ Live
    BY <1>8
    DEF Request, InstallBegin, InstallRejected, UpdateBegin, UninstallBegin, Live
  <2> QED BY <1>2, <2>1
<1>9. CASE UNCHANGED vars
  BY <1>2, <1>9 DEF vars, Live
<1>10. ASSUME step \in OpSteps, SameTable, bundleMeta'[op.id] \in {bundleMeta[op.id], Absent, Torn}
       PROVE  OneDirInv'
  <2>0. /\ Live /\ op.id \in Ids
        /\ bundleMeta[op.id] \in {op.loc, Absent, Torn}
        /\ bundleMeta[op.id] \notin {Absent, Torn} =>
             bundles[op.loc] # Absent /\ bundles[op.loc].id = op.id /\ op.loc \in Locations
    BY <1>10, OpDirectory DEF Registered
  <2> PICK d \in Ids : d = op.id
    BY <2>0
  <2>1. \A i \in Ids : i # d => /\ bundleMeta'[i] = bundleMeta[i]
                                /\ Restorable(i)' <=> Restorable(i)
    <3>1. ~ \E j \in Ids : PurgeBundleDir(j)
      BY <1>10 DEF PurgeBundleDir, OpSteps
    <3> QED BY <1>0, <3>1, DirSteps, SameDir
  <2>2. Restorable(d)' => /\ bundleMeta'[d] = op.loc /\ op.loc \in Locations
                          /\ bundles[op.loc] # Absent /\ bundles[op.loc].id = d
    BY <1>10, <2>0, MarkerAssumption DEF Restorable
  <2>3. \A i \in Ids : Restorable(i)' => /\ bundles[bundleMeta'[i]] # Absent
                                         /\ bundles[bundleMeta'[i]].id = i
                                         /\ bundleMeta'[i] \in Locations
    BY <1>0, <2>0, <2>1, <2>2
  <2> QED BY <1>10, <2>3 DEF OneDirInv
<1>11. ASSUME step \in OpSteps, UNCHANGED bundles,
              bundleMeta' = bundleMeta \/ bundleMeta' = [bundleMeta EXCEPT ![op.id] = Absent]
                                       \/ bundleMeta' = [bundleMeta EXCEPT ![op.id] = Torn]
       PROVE  OneDirInv'
  <2>1. bundleMeta'[op.id] \in {bundleMeta[op.id], Absent, Torn}
    BY <1>0, <1>11, OpDirectory DEF TypeOK
  <2> QED BY <1>10, <1>11, <2>1
<1>12. CASE OpenZip \/ CopyStream \/ RevMetaOpen \/ RevisionFails \/ CleanupDone
            \/ DeleteBundleMeta \/ BundleMetaOpen
  BY <1>11, <1>12
  DEF OpenZip, CopyStream, RevMetaOpen, RevisionFails, CleanupDone, DeleteBundleMeta,
      BundleMetaOpen, OpSteps
<1>13. CASE \E s \in Slots : DeleteZip(s) \/ DeleteRevMeta(s) \/ DeleteRevDir(s)
  BY <1>11, <1>13 DEF DeleteZip, DeleteRevMeta, DeleteRevDir, Deleting, OpSteps
<1>14. CASE RevMetaWrite \/ UninstallDone
  <2>1. step \in OpSteps /\ UNCHANGED bundleMeta
    BY <1>14 DEF RevMetaWrite, UninstallDone, OpSteps
  <2>2. SameTable
    <3>1. op.loc \in Locations /\ \A l \in Locations : bundles[l] \in BundleRecord \cup {Absent}
      BY <1>0, <2>1 DEF OpInv, TypeOK
    <3>2. \A l \in Locations : bundles'[l] \in BundleRecord \cup {Absent}
      BY <1>0, TypeStep DEF TypeOK
    <3>3. CASE UNCHANGED bundles
      BY <3>3
    <3>4. CASE RevMetaWrite /\ ~op.new
      <4>1. bundles' = [bundles EXCEPT ![op.loc].last = op.rev]
        BY <3>4 DEF RevMetaWrite
      <4>2. ASSUME NEW r \in BundleRecord
            PROVE  [r EXCEPT !.last = op.rev] \in BundleRecord
        BY <1>0, <2>1, BundleAssumption DEF BundleRecord, OpInv, Revisions
      <4> QED BY <1>0, <3>1, <4>1, <4>2, RecordAssumption DEF BundleRecord, TypeOK
    <3>5. CASE UninstallDone
      <4>1. bundles' = [bundles EXCEPT ![op.loc].last = IF @ < 1 THEN 0 ELSE @ - 1]
        BY <3>5 DEF UninstallDone
      <4>2. ASSUME NEW r \in BundleRecord
            PROVE  [r EXCEPT !.last = IF @ < 1 THEN 0 ELSE @ - 1] \in BundleRecord
        BY BundleAssumption DEF BundleRecord
      <4> QED BY <1>0, <3>1, <4>1, <4>2, RecordAssumption DEF BundleRecord, TypeOK
    <3> QED BY <1>14, <3>3, <3>4, <3>5 DEF RevMetaWrite
  <2> QED BY <1>10, <2>1, <2>2
<1>15. CASE BundleMetaWrite \/ BundleMetaFails
  <2>1. /\ step \in OpSteps /\ op.new /\ bundles[op.loc] = Absent
    BY <1>15
    DEF BundleMetaWrite, BundleMetaFails, OpSteps, OwnerPre, WorkInv, UpdateSteps
  <2>2. /\ bundleMeta' = bundleMeta \/ bundleMeta' = [bundleMeta EXCEPT ![op.id] = op.loc]
        /\ bundles' = [bundles EXCEPT ![op.loc] =
                         [id |-> op.id, cur |-> 1, last |-> 1, opt |-> FALSE]]
    BY <1>15 DEF BundleMetaWrite, BundleMetaFails, Register
  <2>3. /\ Live /\ op.id \in Ids /\ op.loc \in Locations
        /\ bundleMeta[op.id] \in {Absent, Torn}
    BY <2>1, OpDirectory
  <2> PICK d \in Ids : d = op.id
    BY <2>3
  <2>4. \A i \in Ids : i # d => /\ bundleMeta'[i] = bundleMeta[i]
                                /\ Restorable(i)' <=> Restorable(i)
    <3>1. ~ \E j \in Ids : PurgeBundleDir(j)
      BY <2>1 DEF PurgeBundleDir, OpSteps
    <3> QED BY <1>0, <3>1, DirSteps, SameDir
  <2>5. Restorable(d)' => bundleMeta'[d] = op.loc
    BY <1>0, <2>2, <2>3, MarkerAssumption DEF Restorable, TypeOK
  <2>6. [id |-> op.id, cur |-> 1, last |-> 1, opt |-> FALSE] # Absent
    <3>1. [id |-> op.id, cur |-> 1, last |-> 1, opt |-> FALSE] \in BundleRecord
      BY <2>3, BundleAssumption DEF BundleRecord, Revisions
    <3> QED BY <3>1, RecordAssumption
  <2>7. \A i \in Ids : Restorable(i)' => /\ bundles'[bundleMeta'[i]] # Absent
                                         /\ bundles'[bundleMeta'[i]].id = i
    <3>1. bundles'[op.loc] = [id |-> op.id, cur |-> 1, last |-> 1, opt |-> FALSE]
      BY <1>0, <2>2, <2>3 DEF TypeOK
    <3>2. \A l \in Locations : l # op.loc => bundles'[l] = bundles[l]
      BY <1>0, <2>2 DEF TypeOK
    <3>3. \A i \in Ids : Restorable(i) => bundleMeta[i] # op.loc
      BY <1>0, <2>1, <2>3
    <3> QED BY <1>0, <2>3, <2>4, <2>5, <2>6, <3>1, <3>2, <3>3
  <2> QED BY <2>7 DEF OneDirInv
<1> QED BY <1>3, <1>4, <1>5, <1>6, <1>7, <1>8, <1>9, <1>12, <1>13, <1>14, <1>15
  DEF Next, StartUp, Operation, Request

\* The purge alone forgets that an id was reused.
LEMMA ReusedSteps == [Next]_vars /\ ~PurgeDone /\ ~reusedIds' => ~reusedIds
<1> SUFFICES ASSUME [Next]_vars, ~PurgeDone, reusedIds PROVE reusedIds'
  OBVIOUS
<1> USE DEF history
<1>1. CASE Restore
  BY <1>1, Zenon DEF Restore
<1>2. CASE StartUp /\ ~Restore
  BY <1>2 DEF StartUp, PurgeBundleDir, PurgeFrameMeta, OpenApk, InstallBegin, CommitKey, Run
<1>3. CASE Boot \/ Crash \/ UpgradeApk \/ Request
  BY <1>3 DEF Boot, Crash, UpgradeApk, Request, InstallBegin, InstallRejected, UpdateBegin,
              UninstallBegin, RunAgain
<1>4. CASE Operation
  BY <1>4 DEF Operation, OpenZip, CopyStream, RevMetaOpen, RevMetaWrite, RevisionFails, DeleteZip,
              DeleteRevMeta, DeleteRevDir, DeleteBundleMeta, CleanupDone, BundleMetaOpen,
              BundleMetaWrite, BundleMetaFails, FrameMetaOpen, FrameMetaWrite, FrameMetaFails,
              UninstallDone
<1>5. CASE UNCHANGED vars
  BY <1>5 DEF vars
<1> QED BY <1>1, <1>2, <1>3, <1>4, <1>5 DEF Next

\* Every step keeps the ids, the directories and the bundles in them apart.
LEMMA OwnerStep == ApkInv /\ BlankInv /\ WorkInv /\ OwnerInv /\ [Next]_vars => OwnerInv'
<1> SUFFICES ASSUME ApkInv, BlankInv, WorkInv, OwnerInv, [Next]_vars PROVE OwnerInv'
  OBVIOUS
<1>1. CASE PurgeDone
  BY <1>1, EmptyStart
<1>2. CASE ~PurgeDone /\ ~reusedIds'
  <2>1. OwnerPre
    BY <1>2, ReusedSteps DEF OwnerPre, OwnerInv
  <2> QED BY <1>2, <2>1, IdsStep, NewDirStep, ZipOwnerStep, OneDirStep DEF OwnerInv
<1>3. CASE reusedIds'
  BY <1>3 DEF OwnerInv
<1> QED BY <1>1, <1>2, <1>3

\* The inductive invariant on which the theorems about ids and directories rest.
StoreInv == ApkInv /\ BlankInv /\ WorkInv /\ OwnerInv

\* It holds in every reachable state.
THEOREM StoreInvariance == Spec => []StoreInv
<1>1. Init => StoreInv
  BY InitApkInv, InitStorageInv DEF StoreInv, StorageInv
<1>2. StoreInv /\ [Next]_vars => StoreInv'
  <2>1. ApkInv /\ [Next]_vars => ApkInv'
    BY TypeStep, OpStep, ZipsStep, DownStep, StorageStep, LoadedStep DEF ApkInv
  <2> QED BY <2>1, BlankStep, WorkStep, OwnerStep DEF StoreInv
<1> QED BY <1>1, <1>2, PTL DEF Spec

\* For any number of bundles, whatever crashes and I/O errors hit the installs: two bundles of
\* the table never share an id or a directory, and the counter (Framework.nextBundleID) is ahead
\* of every id, as long as no restore has left it behind.
THEOREM IdsApart == Spec => []IdsDistinct
<1>1. StoreInv => IdsDistinct
  <2> SUFFICES ASSUME StoreInv, ~reusedIds, Registered # {} PROVE IdsDistinct
    BY DEF IdsDistinct
  <2>1. Live
    BY DEF StoreInv, BlankInv, Registered, NoBundles
  <2> QED BY <2>1 DEF StoreInv, OwnerInv, IdsInv, IdsDistinct
<1> QED BY StoreInvariance, <1>1, PTL

\* What BundleCore.run puts on the class path for a bundle is that bundle's own code, as long
\* as no restore has left the id counter behind.
THEOREM OwnCode == Spec => []LoadedIsOwnCode
<1>1. StoreInv => LoadedIsOwnCode
  BY DEF StoreInv, OwnerInv, ZipOwnerInv, LoadedIsOwnCode
<1> QED BY StoreInvariance, <1>1, PTL

\* No step of an install, update or uninstall writes below a directory that belongs to another
\* bundle, as long as no restore has left the id counter behind.
THEOREM OthersKept == Spec => OthersUntouched
<1> DEFINE Kept ==
      (op.loc # Absent /\ ~reusedIds) =>
        \A i \in Ids : (bundleMeta[i] \in Locations /\ bundleMeta[i] # op.loc) =>
          /\ bundleMeta'[i] = bundleMeta[i]
          /\ \A v \in Revisions : /\ revDir'[<<i, v>>] = revDir[<<i, v>>]
                                  /\ revMeta'[<<i, v>>] = revMeta[<<i, v>>]
                                  /\ revZip'[<<i, v>>] = revZip[<<i, v>>]
<1>1. StoreInv /\ [Next]_vars => Kept
  <2> SUFFICES ASSUME StoreInv, [Next]_vars, op.loc # Absent, ~reusedIds PROVE Kept
    OBVIOUS
  <2>1. OwnerPre
    BY DEF StoreInv, OwnerInv, OwnerPre
  <2>2. ~ \E j \in Ids : PurgeBundleDir(j)
    <3>1. step = "purge" => op = NoOp
      BY DEF StoreInv, WorkInv, OpSteps
    <3>2. NoOp.loc = Absent
      BY DEF NoOp
    <3>3. step # "purge"
      BY <3>1, <3>2
    <3> QED BY <3>3 DEF PurgeBundleDir
  <2>3. CASE step \in OpSteps
    <3>1. bundleMeta[op.id] \in {op.loc, Absent, Torn}
      BY <2>1, <2>3, OpDirectory
    <3>2. \A i \in Ids : bundleMeta[i] \in Locations /\ bundleMeta[i] # op.loc => i # op.id
      BY <3>1, MarkerAssumption
    <3> QED BY <2>2, <3>2, DirSteps DEF StoreInv, ApkInv
  <2>4. CASE step \notin OpSteps
    BY <2>2, <2>4, DirSteps DEF StoreInv, ApkInv
  <2> QED BY <2>3, <2>4
<1> QED BY StoreInvariance, <1>1, PTL DEF Spec, OthersUntouched

\* The revision a running process took its code from is rewritten by no install or update: an
\* update writes the revision after the last, in a directory of its own.
THEOREM CurrentKept == Spec => CurrentRevisionStable
<1>1. ASSUME StoreInv, [Next]_vars, NEW l \in Locations,
             bundles[l] # Absent, ~reusedIds, ~(step = "uninstall" /\ op.loc = l),
             bundles[l].cur <= bundles[l].last
      PROVE  LET s == <<bundles[l].id, bundles[l].cur>>
             IN  revZip'[s] = revZip[s] /\ revMeta'[s] = revMeta[s]
  <2>1. OwnerPre /\ l \in Registered /\ Live
    BY <1>1 DEF StoreInv, OwnerInv, OwnerPre, Registered, BlankInv, NoBundles
  <2>2. /\ bundles[l].id \in Ids /\ bundles[l].cur \in Revisions /\ bundles[l].cur \in Int
        /\ bundles[l].last \in Int
    BY <2>1, BundleAssumption DEF OwnerPre, ApkInv, TypeOK, BundleRecord, Revisions, Registered
  <2>3. ~ \E j \in Ids : PurgeBundleDir(j)
    BY <2>1 DEF PurgeBundleDir, Live
  <2>4. CASE UNCHANGED <<revZip, revMeta>> \/ step \notin OpSteps \/ op.id # bundles[l].id
    BY <1>1, <2>2, <2>3, <2>4, DirSteps DEF StoreInv, ApkInv
  <2>5. CASE step \in OpSteps /\ op.id = bundles[l].id
    <3>1. l = op.loc /\ ~op.new
      BY <2>1, <2>5, OpDirectory
    <3>2. step \in UpdateSteps /\ op.rev = bundles[l].last + 1
      BY <1>1, <2>5, <3>1 DEF StoreInv, WorkInv
    <3>3. Slot # <<bundles[l].id, bundles[l].cur>>
      BY <1>1, <2>2, <3>2 DEF Slot
    <3>4. \/ OpenZip \/ CopyStream \/ RevMetaOpen \/ RevMetaWrite
          \/ UNCHANGED <<revZip, revMeta>>
      <4>1. Deleting = {} /\ proc # "down"
        BY <2>1, <3>2 DEF Deleting, UpdateSteps, Live
      <4>2. CASE Operation
        BY <3>2, <4>1, <4>2 DEF Operation, UpdateSteps, RevisionFails, DeleteZip, DeleteRevMeta,
          DeleteRevDir, DeleteBundleMeta, CleanupDone, BundleMetaOpen, BundleMetaWrite,
          BundleMetaFails, FrameMetaOpen, FrameMetaWrite, FrameMetaFails, UninstallDone
      <4>3. CASE ~Operation
        BY <1>1, <2>3, <3>2, <4>1, <4>3 DEF Next, UpdateSteps, Boot, StartUp, PurgeFrameMeta,
          PurgeDone, Restore, OpenApk, InstallBegin, CommitKey, Run, Request, InstallRejected,
          UpdateBegin, UninstallBegin, RunAgain, Crash, UpgradeApk, vars, diskVars
      <4> QED BY <4>2, <4>3
    <3>5. <<bundles[l].id, bundles[l].cur>> \in Slots /\ TypeOK
      BY <1>1, <2>2 DEF Slots, StoreInv, ApkInv
    <3> QED BY <3>3, <3>4, <3>5 DEF OpenZip, CopyStream, RevMetaOpen, RevMetaWrite, TypeOK
  <2> QED BY <2>4, <2>5
<1>2. StoreInv /\ [Next]_vars => \A l \in Locations :
        (bundles[l] # Absent /\ l \notin uninstalled /\ ~reusedIds /\ proc' # "down"
           /\ ~(step = "uninstall" /\ op.loc = l)
           /\ bundles[l].cur <= bundles[l].last)
        => LET s == <<bundles[l].id, bundles[l].cur>>
           IN  revZip'[s] = revZip[s] /\ revMeta'[s] = revMeta[s]
  BY <1>1
<1> QED BY StoreInvariance, <1>2, PTL DEF Spec, CurrentRevisionStable

-----------------------------------------------------------------------------
(* What the storage holds of the table.                                    *)

\* Every step belongs to its thread.
LEMMA ThreadStep == ApkInv /\ WorkInv /\ ThreadInv /\ [Next]_vars => ThreadInv'
<1> SUFFICES ASSUME OpInv, DownInv, WorkInv, ThreadInv, [Next]_vars PROVE ThreadInv'
  BY DEF ApkInv
<1> USE DEF ThreadInv, OpSteps, DownInv, diskVars, procVars, history, KeepMetas, KeepRevs, KeepTable
<1>1. CASE Boot \/ Crash \/ UpgradeApk
  BY <1>1 DEF Boot, Crash, UpgradeApk
<1>2. CASE (\E i \in Ids : PurgeBundleDir(i)) \/ PurgeFrameMeta \/ PurgeDone
  BY <1>2 DEF PurgeBundleDir, PurgeFrameMeta, PurgeDone
<1>3. CASE Restore \/ OpenApk \/ Run \/ CommitKey
  BY <1>3 DEF Restore, OpenApk, Run, CommitKey
<1>4. CASE \E l \in Locations : InstallBegin(l)
  BY <1>4 DEF InstallBegin
<1>5. CASE (\E l \in Locations : InstallRejected(l)) \/ RunAgain
  BY <1>5 DEF InstallRejected, RunAgain
<1>6. CASE \E l \in Locations : UpdateBegin(l) \/ UninstallBegin(l)
  BY <1>6 DEF UpdateBegin, UninstallBegin
<1>7. CASE OpenZip \/ CopyStream \/ RevMetaOpen \/ RevMetaWrite
  BY <1>7 DEF OpenZip, CopyStream, RevMetaOpen, RevMetaWrite
<1>8. CASE RevisionFails
  BY <1>8 DEF RevisionFails, IOError
<1>9. CASE \E s \in Slots : DeleteZip(s) \/ DeleteRevMeta(s) \/ DeleteRevDir(s)
  BY <1>9 DEF DeleteZip, DeleteRevMeta, DeleteRevDir
<1>10. CASE DeleteBundleMeta \/ CleanupDone
  BY <1>10 DEF DeleteBundleMeta, CleanupDone
<1>11. CASE BundleMetaOpen \/ BundleMetaWrite \/ BundleMetaFails
  BY <1>11 DEF BundleMetaOpen, BundleMetaWrite, BundleMetaFails, Register
<1>12. CASE FrameMetaOpen \/ FrameMetaWrite \/ FrameMetaFails \/ UninstallDone
  BY <1>12 DEF FrameMetaOpen, FrameMetaWrite, FrameMetaFails, UninstallDone, StoreReturns
<1>13. CASE UNCHANGED vars
  BY <1>13 DEF vars
<1> QED BY <1>1, <1>2, <1>3, <1>4, <1>5, <1>6, <1>7, <1>8, <1>9, <1>10, <1>11, <1>12, <1>13
  DEF Next, StartUp, Operation, Request

\* Before a step, with no id reused and no I/O error in this process.
DiskPre == OwnerPre /\ ThreadInv /\ NewOnDisk
           /\ \A l \in Registered : RevisionsOnDisk(l) /\ CounterOnDisk(l)

\* A bundle the step does not concern: neither its entry of the table nor its directory nor what
\* is being done to it changes.
LEMMA RevisionsKept ==
  ASSUME TypeOK, NEW l \in Locations, bundles[l] # Absent, RevisionsOnDisk(l),
         /\ bundles'[l].id = bundles[l].id /\ bundles'[l].cur = bundles[l].cur
         /\ bundles'[l].last = bundles[l].last,
         LET i == bundles[l].id
         IN /\ bundleMeta'[i] = bundleMeta[i]
            /\ \A v \in Revisions : /\ revDir'[<<i, v>>] = revDir[<<i, v>>]
                                    /\ revMeta'[<<i, v>>] = revMeta[<<i, v>>],
         l \in uninstalled' <=> l \in uninstalled,
         Uninstalling(l) => Uninstalling(l)', Updating(l) => Updating(l)'
  PROVE  RevisionsOnDisk(l)'
<1>1. bundles[l].id \in Ids /\ bundles[l].cur \in Revisions
  BY DEF TypeOK, BundleRecord
<1>2. \A v \in Revisions : /\ revDir'[<<bundles'[l].id, v>>] = revDir[<<bundles[l].id, v>>]
                           /\ revMeta'[<<bundles'[l].id, v>>] = revMeta[<<bundles[l].id, v>>]
  OBVIOUS
<1>3. bundleMeta'[bundles'[l].id] = bundleMeta[bundles[l].id]
  OBVIOUS
<1>4. revDir'[<<bundles'[l].id, bundles'[l].cur>>] = revDir[<<bundles[l].id, bundles[l].cur>>]
  BY <1>1, <1>2
<1> HIDE DEF Updating, Uninstalling
<1> QED BY <1>1, <1>2, <1>3, <1>4 DEF RevisionsOnDisk, RevisionsOf

\* A live process leaves the table, and the record of uninstalls, as they are for every bundle its
\* operation is not of.
LEMMA TableOthers ==
  ASSUME TypeOK, OpInv, BlankInv, WorkInv, DownInv, [Next]_vars, Live', ~Restore, ~PurgeDone,
         NEW l \in Locations, ~(step \in OpSteps /\ l = op.loc)
  PROVE  /\ bundles'[l] # Absent <=> bundles[l] # Absent
         /\ bundles[l] # Absent => /\ bundles'[l].id = bundles[l].id
                                  /\ bundles'[l].cur = bundles[l].cur
                                  /\ bundles'[l].last = bundles[l].last
         /\ l \in uninstalled' <=> l \in uninstalled
<1> USE DEF Live, procVars, history, KeepTable
<1>1. CASE UNCHANGED <<bundles, uninstalled>>
  BY <1>1
<1>2. CASE Run \/ RunAgain
  BY <1>2, OptDexFilesKeeps DEF Run, RunAgain
<1>3. CASE RevMetaWrite \/ UninstallDone \/ BundleMetaWrite \/ BundleMetaFails
  BY <1>3 DEF TypeOK, OpSteps, RevMetaWrite, UninstallDone, BundleMetaWrite, BundleMetaFails, Register
<1>4. CASE Boot \/ Crash \/ UpgradeApk
  BY <1>1, <1>4 DEF Boot, Crash, UpgradeApk
<1>5. CASE StartUp /\ ~Run
  BY <1>1, <1>5 DEF StartUp, PurgeBundleDir, PurgeFrameMeta, OpenApk, InstallBegin, CommitKey
<1>6. CASE Request /\ ~RunAgain
  BY <1>1, <1>6 DEF Request, InstallBegin, InstallRejected, UpdateBegin, UninstallBegin
<1>7. CASE Operation /\ ~(RevMetaWrite \/ UninstallDone \/ BundleMetaWrite \/ BundleMetaFails)
  BY <1>1, <1>7 DEF Operation, OpenZip, CopyStream, RevMetaOpen, RevisionFails, DeleteZip,
    DeleteRevMeta, DeleteRevDir, DeleteBundleMeta, CleanupDone, BundleMetaOpen, FrameMetaOpen,
    FrameMetaWrite, FrameMetaFails
<1>8. CASE UNCHANGED vars
  BY <1>1, <1>8 DEF vars
<1> QED BY <1>2, <1>3, <1>4, <1>5, <1>6, <1>7, <1>8 DEF Next

\* While an operation is under way, the thread does nothing else.
LEMMA OperationGoesOn ==
  DownInv /\ [Next]_vars /\ step \in OpSteps /\ Live' => Operation \/ UNCHANGED vars
  BY DEF Next, Boot, StartUp, PurgeBundleDir, PurgeFrameMeta, PurgeDone, Restore, OpenApk,
         InstallBegin, CommitKey, Run, Request, InstallRejected, UpdateBegin, UninstallBegin,
         RunAgain, Crash, UpgradeApk, DownInv, OpSteps, Live

\* The revision under way is written beside the others and entered when it is complete.
LEMMA RevisionsStep ==
  ASSUME DiskPre, Live, [Next]_vars, Live', ~ioFailed', ~Restore, ~PurgeDone,
         NEW l \in Locations, bundles'[l] # Absent
  PROVE  RevisionsOnDisk(l)'
<1>0. TypeOK /\ OpInv /\ DownInv /\ WorkInv /\ BlankInv
  BY DEF DiskPre, OwnerPre, ApkInv
<1>1. CASE ~(step \in OpSteps /\ l = op.loc)
  <2>1. /\ bundles[l] # Absent
        /\ bundles'[l].id = bundles[l].id /\ bundles'[l].cur = bundles[l].cur
        /\ bundles'[l].last = bundles[l].last
        /\ l \in uninstalled' <=> l \in uninstalled
    BY <1>0, <1>1, TableOthers
  <2>2. ~Uninstalling(l) /\ ~Updating(l)
    BY <1>1 DEF Uninstalling, Updating, OpSteps, UpdateSteps
  <2>3. step \in OpSteps => bundles[l].id # op.id
    BY <1>1, <2>1, OpDirectory DEF DiskPre, Registered
  <2>4. ~ \E j \in Ids : PurgeBundleDir(j)
    BY DEF PurgeBundleDir, Live
  <2>5. bundles[l].id \in Ids
    BY <1>0, <2>1 DEF TypeOK, BundleRecord
  <2>6. /\ bundleMeta'[bundles[l].id] = bundleMeta[bundles[l].id]
        /\ \A v \in Revisions : /\ revDir'[<<bundles[l].id, v>>] = revDir[<<bundles[l].id, v>>]
                                /\ revMeta'[<<bundles[l].id, v>>] = revMeta[<<bundles[l].id, v>>]
    BY <1>0, <2>3, <2>4, <2>5, DirSteps
  <2>7. RevisionsOnDisk(l)
    BY <2>1 DEF DiskPre, Registered
  <2> QED BY <1>0, <2>1, <2>2, <2>6, <2>7, RevisionsKept
<1>2. CASE step \in OpSteps /\ l = op.loc /\ op.new
  <2>1. bundles[l] = Absent /\ op.id \in Ids /\ op.rev = 1 /\ 1 \in Revisions
    BY <1>0, <1>2, BundleAssumption DEF WorkInv, OpInv, Revisions
  <2>2. CASE BundleMetaWrite
    <3>1. bundles'[l] = [id |-> op.id, cur |-> 1, last |-> 1, opt |-> FALSE]
      BY <1>0, <1>2, <2>2 DEF BundleMetaWrite, Register, TypeOK
    <3>2. bundles'[l].id = op.id /\ bundles'[l].last = 1
      BY <3>1
    <3>3. bundleMeta'[op.id] = l /\ UNCHANGED <<revDir, revMeta>> /\ step' = "frameOpen"
      BY <1>0, <1>2, <2>1, <2>2 DEF BundleMetaWrite, Register, KeepRevs, TypeOK
    <3>4. revDir[<<op.id, 1>>] /\ revMeta[<<op.id, 1>>] = Saved
      BY <2>2 DEF DiskPre, NewOnDisk, BundleMetaWrite
    <3>5. \A v \in Revisions : revDir[<<op.id, v>>] => v = 1
      BY <1>2 DEF DiskPre, OwnerPre, NewDirInv, RevisionsOf
    <3> QED BY <2>1, <3>2, <3>3, <3>4, <3>5 DEF RevisionsOnDisk, RevisionsOf
  <2>3. CASE UNCHANGED bundles
    BY <2>1, <2>3
  <2>4. CASE Operation /\ ~UNCHANGED bundles
    <3>1. ~BundleMetaFails
      BY DEF BundleMetaFails, IOError
    <3>2. ~UninstallDone
      BY <1>0, <1>2 DEF UninstallDone, OpInv
    <3>3. RevMetaWrite => UNCHANGED bundles
      BY <1>2 DEF RevMetaWrite
    <3> QED BY <2>2, <2>4, <3>1, <3>2, <3>3 DEF Operation, OpenZip, CopyStream, RevMetaOpen, RevisionFails, DeleteZip,
      DeleteRevMeta, DeleteRevDir, DeleteBundleMeta, CleanupDone, BundleMetaOpen, FrameMetaOpen,
      FrameMetaWrite, FrameMetaFails, KeepTable, procVars
  <2> QED BY <1>0, <1>2, <2>3, <2>4, OperationGoesOn DEF vars, procVars
<1>3. CASE step \in OpSteps /\ l = op.loc /\ ~op.new
  <2> DEFINE i == bundles[l].id
             k == bundles[l].last
  <2>0. /\ bundles[l] # Absent /\ bundles[l] \in BundleRecord
        /\ op.id = i /\ i \in Ids /\ k \in Int /\ op.rev \in Revisions /\ Revisions \subseteq Int
        /\ step \in UpdateSteps => op.rev = k + 1 /\ Slot = <<i, k + 1>>
        /\ step = "uninstall" => op.rev = bundles[l].cur /\ Slot = <<i, bundles[l].cur>>
        /\ step \in UpdateSteps \cup {"uninstall"}
    <3>1. bundles[l] # Absent /\ bundles[l] \in BundleRecord /\ op.rev \in Revisions
      BY <1>0, <1>3 DEF OpInv, TypeOK
    <3>2. i \in Ids /\ k \in Int /\ Revisions \subseteq Int
      BY <3>1, BundleAssumption DEF BundleRecord, Revisions
    <3>3. /\ op.id = i
          /\ op.rev = IF step = "uninstall" THEN bundles[l].cur ELSE k + 1
          /\ step \in UpdateSteps \cup {"uninstall"}
      BY <1>0, <1>3 DEF WorkInv
    <3> QED BY <3>1, <3>2, <3>3 DEF Slot, UpdateSteps
  <2>1. /\ bundleMeta[i] = l
        /\ l \notin uninstalled /\ step # "uninstall" =>
             k \in Revisions /\ revDir[<<i, k>>] /\ revMeta[<<i, k>>] = Saved
        /\ step # "uninstall" => \A v \in Revisions : revDir[<<i, v>>] => v <= k + 1
        /\ step = "uninstall" => \A v \in Revisions : revDir[<<i, v>>] => v <= k
    <3>1. RevisionsOnDisk(l)
      BY <2>0 DEF DiskPre, Registered
    <3>2. step = "uninstall" => revDir[<<i, bundles[l].cur>>]
      BY <1>0, <2>0 DEF WorkInv
    <3>3. \A v \in Revisions : v <= k => v <= k + 1
      BY <2>0
    <3> QED BY <1>3, <2>0, <3>1, <3>2, <3>3
        DEF RevisionsOnDisk, RevisionsOf, Uninstalling, Updating, UpdateSteps
  <2>2. CASE OpenZip \/ CopyStream \/ RevMetaOpen
    <3>1. UNCHANGED <<bundles, bundleMeta, uninstalled, op>> /\ step \in UpdateSteps /\ step' \in UpdateSteps
      BY <2>2 DEF OpenZip, CopyStream, RevMetaOpen, UpdateSteps, KeepMetas, KeepTable, history
    <3>2. \A v \in Revisions : /\ v # k + 1 => /\ revDir'[<<i, v>>] = revDir[<<i, v>>]
                                               /\ revMeta'[<<i, v>>] = revMeta[<<i, v>>]
      BY <1>0, <2>0, <2>2, <3>1 DEF OpenZip, CopyStream, RevMetaOpen, TypeOK, Slots
    <3>3. Updating(l)' /\ ~Uninstalling(l)'
      BY <1>3, <3>1 DEF Updating, Uninstalling, UpdateSteps
    <3>4. \A v \in Revisions : revDir'[<<i, v>>] => v <= k + 1
      BY <2>0, <2>1, <3>1, <3>2 DEF UpdateSteps
    <3>5. l \notin uninstalled' =>
             k \in Revisions /\ revDir'[<<i, k>>] /\ revMeta'[<<i, k>>] = Saved
      BY <2>0, <2>1, <3>1, <3>2 DEF UpdateSteps
    <3> HIDE DEF Updating, Uninstalling
    <3> QED BY <2>1, <3>1, <3>3, <3>4, <3>5 DEF RevisionsOnDisk, RevisionsOf
  <2>3. CASE RevMetaWrite
    <3>1. /\ bundles' = [bundles EXCEPT ![l].last = k + 1]
          /\ UNCHANGED <<bundleMeta, revDir>> /\ revMeta' = [revMeta EXCEPT ![<<i, k + 1>>] = Saved]
          /\ step = "revMetaWrite" /\ step' = "none"
      BY <1>3, <2>0, <2>3 DEF RevMetaWrite, KeepMetas, UpdateSteps
    <3>2. bundles'[l] = [bundles[l] EXCEPT !.last = k + 1]
      BY <1>0, <3>1 DEF TypeOK
    <3>3. bundles'[l].id = i /\ bundles'[l].last = k + 1
      BY <2>0, <3>2 DEF BundleRecord
    <3>4. k + 1 \in Revisions /\ revDir[<<i, k + 1>>] /\ revMeta'[<<i, k + 1>>] = Saved
      BY <1>0, <2>0, <3>1 DEF OpInv, UpdateSteps, TypeOK, Slots
    <3>5. \A v \in Revisions : revDir[<<i, v>>] => v <= k + 1
      BY <2>1, <3>1
    <3> QED BY <2>1, <3>1, <3>3, <3>4, <3>5 DEF RevisionsOnDisk, RevisionsOf
  <2>4. CASE UninstallDone
    <3>1. /\ bundles' = [bundles EXCEPT ![l].last = IF @ < 1 THEN 0 ELSE @ - 1]
          /\ UNCHANGED bundleMeta /\ revDir' = [revDir EXCEPT ![<<i, bundles[l].cur>>] = FALSE]
          /\ l \in uninstalled' /\ step = "uninstall"
      BY <1>3, <2>0, <2>4 DEF UninstallDone, KeepMetas
    <3>2. bundles'[l] = [bundles[l] EXCEPT !.last = IF @ < 1 THEN 0 ELSE @ - 1]
      BY <1>0, <3>1 DEF TypeOK
    <3>3. /\ bundles'[l].id = i /\ bundles'[l].cur = bundles[l].cur
          /\ bundles'[l].last = IF k < 1 THEN 0 ELSE k - 1
      BY <2>0, <3>2 DEF BundleRecord
    <3>4. ~revDir'[<<i, bundles[l].cur>>] /\ \A v \in Revisions : revDir'[<<i, v>>] => revDir[<<i, v>>]
      BY <1>0, <2>0, <3>1 DEF TypeOK, Slots, BundleRecord
    <3>5. \A v \in Revisions : revDir'[<<i, v>>] => v <= bundles'[l].last + 1
      BY <2>0, <2>1, <3>1, <3>3, <3>4
    <3> QED BY <2>1, <3>1, <3>3, <3>4, <3>5 DEF RevisionsOnDisk, RevisionsOf
  <2>5. CASE \E s \in Slots : DeleteZip(s) \/ DeleteRevMeta(s) \/ DeleteRevDir(s)
    <3>1. step = "uninstall" /\ UNCHANGED <<bundles, bundleMeta, revDir, uninstalled, step, op>>
      BY <2>0, <2>5 DEF DeleteZip, DeleteRevMeta, DeleteRevDir, Deleting, UpdateSteps, KeepMetas,
                        procVars, history
    <3>2. Uninstalling(l)'
      BY <1>3, <3>1 DEF Uninstalling
    <3> HIDE DEF Uninstalling
    <3> QED BY <2>1, <3>1, <3>2 DEF RevisionsOnDisk, RevisionsOf
  <2>6. CASE UNCHANGED vars
    <3>1. /\ UNCHANGED <<bundles, bundleMeta, revDir, revMeta, uninstalled>>
          /\ Updating(l)' <=> Updating(l)
          /\ Uninstalling(l)' <=> Uninstalling(l)
      BY <2>6 DEF vars, diskVars, procVars, history, Updating, Uninstalling
    <3> HIDE DEF Updating, Uninstalling
    <3>2. RevisionsOnDisk(l)
      BY <2>0 DEF DiskPre, Registered
    <3> QED BY <1>0, <2>0, <3>1, <3>2, RevisionsKept
  <2>7. Operation => OpenZip \/ CopyStream \/ RevMetaOpen \/ RevMetaWrite \/ UninstallDone
                     \/ \E s \in Slots : DeleteZip(s) \/ DeleteRevMeta(s) \/ DeleteRevDir(s)
    BY <2>0 DEF Operation, RevisionFails, IOError, DeleteBundleMeta, CleanupDone, BundleMetaOpen,
                BundleMetaWrite, BundleMetaFails, FrameMetaOpen, FrameMetaWrite, FrameMetaFails,
                UpdateSteps
  <2> QED BY <1>0, <1>3, <2>2, <2>3, <2>4, <2>5, <2>6, <2>7, OperationGoesOn
<1> QED BY <1>1, <1>2, <1>3

\* The first revision of a new bundle is complete before the bundle's meta file is written.
LEMMA NewOnDiskStep ==
  ASSUME DiskPre, [Next]_vars, Live', ~ioFailed'
  PROVE  NewOnDisk'
<1> SUFFICES ASSUME step' \in {"bundleMetaOpen", "bundleMetaWrite"}
             PROVE  revDir'[<<op'.id, 1>>] /\ revMeta'[<<op'.id, 1>>] = Saved
  BY DEF NewOnDisk
<1>0. /\ TypeOK /\ OpInv /\ DownInv /\ WorkInv /\ NewOnDisk
      /\ step \in OpSteps => op.rev \in Revisions /\ op.id \in Ids
  BY DEF DiskPre, OwnerPre, ApkInv, OpInv
<1> USE DEF KeepRevs, KeepTable, KeepMetas, diskVars, procVars, OpSteps
<1>1. CASE RevMetaWrite
  <2>1. op.new /\ op' = op /\ revDir' = revDir /\ revMeta' = [revMeta EXCEPT ![Slot] = Saved]
    BY <1>1 DEF RevMetaWrite
  <2>2. revDir[Slot] /\ op.rev = 1 /\ Slot = <<op.id, 1>> /\ Slot \in Slots
    BY <1>0, <1>1, <2>1 DEF RevMetaWrite, OpInv, WorkInv, Slot, Slots
  <2> QED BY <1>0, <2>1, <2>2 DEF TypeOK
<1>2. CASE BundleMetaOpen
  BY <1>0, <1>2 DEF BundleMetaOpen, NewOnDisk
<1>3. CASE UNCHANGED vars
  BY <1>0, <1>3 DEF vars, NewOnDisk
<1>4. CASE ~RevMetaWrite /\ ~BundleMetaOpen /\ ~UNCHANGED vars
  <2>1. Operation => FALSE
    <3>1. ~OpenZip /\ ~CopyStream /\ ~RevMetaOpen /\ ~RevisionFails
      BY DEF OpenZip, CopyStream, RevMetaOpen, RevisionFails
    <3>2. \A s \in Slots : ~DeleteZip(s) /\ ~DeleteRevMeta(s) /\ ~DeleteRevDir(s)
      BY DEF DeleteZip, DeleteRevMeta, DeleteRevDir, Deleting
    <3>3. ~DeleteBundleMeta /\ ~CleanupDone /\ ~BundleMetaWrite /\ ~BundleMetaFails
      BY DEF DeleteBundleMeta, CleanupDone, BundleMetaWrite, BundleMetaFails, Register
    <3>4. ~FrameMetaOpen /\ ~FrameMetaWrite /\ ~FrameMetaFails /\ ~UninstallDone
      BY DEF FrameMetaOpen, FrameMetaWrite, FrameMetaFails, UninstallDone, StoreReturns
    <3> QED BY <1>4, <3>1, <3>2, <3>3, <3>4 DEF Operation
  <2>2. CASE Boot \/ StartUp \/ Crash
    BY <2>2 DEF Boot, StartUp, PurgeBundleDir, PurgeFrameMeta, PurgeDone, Restore, OpenApk,
                InstallBegin, CommitKey, Run, Crash
  <2>3. CASE Request \/ UpgradeApk
    BY <1>0, <2>3 DEF Request, InstallBegin, InstallRejected, UpdateBegin, UninstallBegin,
                RunAgain, UpgradeApk, DownInv
  <2> QED BY <1>4, <2>1, <2>2, <2>3 DEF Next
<1> QED BY <1>1, <1>2, <1>3, <1>4

\* The saved counter is ahead of every bundle of the table, except while it is being saved.
LEMMA CounterStep ==
  ASSUME DiskPre, TypeOK', IdsInv', Live, [Next]_vars, Live', ~ioFailed', ~Restore, ~PurgeDone,
         NEW l \in Locations, bundles'[l] # Absent
  PROVE  CounterOnDisk(l)'
<1> SUFFICES ASSUME step' \notin {"frameOpen", "frameWrite"}
             PROVE  frameMeta' \in Nat /\ frameMeta' > bundles'[l].id
  BY DEF CounterOnDisk
<1>0. TypeOK /\ OpInv /\ DownInv /\ WorkInv /\ BlankInv
  BY DEF DiskPre, OwnerPre, ApkInv
<1>1. CASE FrameMetaWrite
  <2>1. frameMeta' = nextBundleID' /\ nextBundleID' \in Nat
    BY <1>1, BundleAssumption DEF FrameMetaWrite, KeepTable, TypeOK
  <2>2. bundles'[l].id < nextBundleID' /\ bundles'[l].id \in Int
    BY BundleAssumption DEF IdsInv, Registered, TypeOK, BundleRecord, Ids
  <2> QED BY <2>1, <2>2
<1>2. CASE ~FrameMetaWrite
  <2>1. ~FrameMetaOpen /\ ~FrameMetaFails /\ ~BundleMetaWrite /\ ~BundleMetaFails
    BY DEF FrameMetaOpen, FrameMetaFails, IOError, BundleMetaWrite, BundleMetaFails, Register
  <2>2. UNCHANGED frameMeta /\ step \notin {"frameOpen", "frameWrite"}
    <3> USE DEF KeepMetas, diskVars, procVars
    <3>1. CASE Operation
      <4>1. step \notin {"frameOpen", "frameWrite"}
        BY <1>2, <2>1, <3>1 DEF Operation, OpenZip, CopyStream, RevMetaOpen, RevMetaWrite,
          RevisionFails, DeleteZip, DeleteRevMeta, DeleteRevDir, Deleting, DeleteBundleMeta,
          CleanupDone, BundleMetaOpen, UninstallDone
      <4>2. UNCHANGED frameMeta
        BY <1>2, <2>1, <3>1 DEF Operation, OpenZip, CopyStream, RevMetaOpen, RevMetaWrite,
          RevisionFails, DeleteZip, DeleteRevMeta, DeleteRevDir, DeleteBundleMeta, CleanupDone,
          BundleMetaOpen, UninstallDone
      <4> QED BY <4>1, <4>2
    <3>2. CASE StartUp
      BY <3>2 DEF StartUp, PurgeBundleDir, PurgeFrameMeta, OpenApk, InstallBegin, CommitKey, Run,
        Live
    <3>3. CASE Request
      BY <3>3 DEF Request, InstallBegin, InstallRejected, UpdateBegin, UninstallBegin, RunAgain
    <3>4. CASE Boot \/ Crash \/ UpgradeApk \/ UNCHANGED vars
      BY <1>0, <3>4 DEF Boot, Crash, UpgradeApk, vars, Live, DownInv
    <3> QED BY <3>1, <3>2, <3>3, <3>4 DEF Next
  <2>3. bundles[l] # Absent /\ bundles'[l].id = bundles[l].id
    <3>1. CASE ~(step \in OpSteps /\ l = op.loc)
      BY <1>0, <3>1, TableOthers
    <3>2. CASE step \in OpSteps /\ l = op.loc
      <4>1. CASE UNCHANGED bundles
        BY <4>1
      <4>2. CASE (RevMetaWrite /\ ~op.new) \/ UninstallDone
        BY <1>0, <4>2 DEF RevMetaWrite, UninstallDone, OpInv, OpSteps, TypeOK, BundleRecord
      <4>3. CASE RevMetaWrite /\ op.new
        BY <4>1, <4>3 DEF RevMetaWrite
      <4>4. CASE Operation /\ ~RevMetaWrite /\ ~UninstallDone
        BY <1>2, <2>1, <4>1, <4>4 DEF Operation, OpenZip, CopyStream, RevMetaOpen, RevisionFails,
          DeleteZip, DeleteRevMeta, DeleteRevDir, DeleteBundleMeta, CleanupDone, BundleMetaOpen,
          KeepTable, procVars
      <4> QED BY <1>0, <3>2, <4>1, <4>2, <4>3, <4>4, OperationGoesOn DEF vars, procVars
    <3> QED BY <3>1, <3>2
  <2>4. CounterOnDisk(l)
    BY <2>3 DEF DiskPre, Registered
  <2> QED BY <2>2, <2>3, <2>4 DEF CounterOnDisk
<1> QED BY <1>1, <1>2

\* A restart reads back what the storage holds.
LEMMA RestoreOnDisk ==
  ASSUME ApkInv, BlankInv, WorkInv, Restore, IdsInv', Live', NEW l \in Locations, bundles'[l] # Absent
  PROVE  RevisionsOnDisk(l)' /\ CounterOnDisk(l)'
<1>0. UNCHANGED <<frameMeta, bundleMeta, revDir, revMeta>> /\ step' = "run" /\ bundles[l] = Absent
  BY DEF Restore, diskVars, BlankInv, Live, NoBundles
<1>1. PICK i \in DirsOf(l) : bundles'[l] = [id |-> i, cur |-> Newest(i), last |-> Newest(i), opt |-> FALSE]
  <2>1. ASSUME NEW pick \in [Locations -> Ids],
               \A m \in Locations : DirsOf(m) # {} => pick[m] \in DirsOf(m),
               bundles' = [m \in Locations |->
                 IF DirsOf(m) = {} THEN Absent
                 ELSE [id |-> pick[m], cur |-> Newest(pick[m]),
                       last |-> Newest(pick[m]), opt |-> FALSE]]
        PROVE  \E i \in DirsOf(l) :
                 bundles'[l] = [id |-> i, cur |-> Newest(i), last |-> Newest(i), opt |-> FALSE]
    BY <2>1
  <2> QED BY <1>0, <2>1 DEF Restore
<1>2. bundles'[l].id = i /\ bundles'[l].last = Newest(i) /\ i \in Ids
  BY <1>1 DEF DirsOf
<1>3. frameMeta \in Nat /\ nextBundleID' = frameMeta
  BY <1>0 DEF Restore
<1>4. i < frameMeta
  BY <1>2, <1>3 DEF IdsInv, Registered
<1>5. bundleMeta[i] = l /\ Restorable(i)
  BY <1>1 DEF DirsOf
<1>6. /\ Newest(i) \in RevisionsOf(i) /\ \A v \in RevisionsOf(i) : v <= Newest(i)
  <2>1. RevisionsOf(i) \subseteq 0..MaxRevision /\ RevisionsOf(i) # {} /\ MaxRevision \in Nat
    BY <1>5, BundleAssumption DEF Restorable, RevisionsOf, Revisions
  <2> QED BY <2>1, MaxOfBounded DEF Newest
<1>7. Newest(i) \in Revisions /\ revDir[<<i, Newest(i)>>] /\ revMeta[<<i, Newest(i)>>] = Saved
  BY <1>5, <1>6 DEF RevisionsOf, Restorable
<1>8. CounterOnDisk(l)'
  BY <1>0, <1>2, <1>3, <1>4, BundleAssumption DEF CounterOnDisk, Ids
<1>9. RevisionsOnDisk(l)'
  <2>1. \A v \in Revisions : revDir'[<<i, v>>] => v <= bundles'[l].last
    BY <1>0, <1>2, <1>6 DEF RevisionsOf
  <2> QED BY <1>0, <1>2, <1>5, <1>7, <2>1 DEF RevisionsOnDisk, RevisionsOf
<1> QED BY <1>8, <1>9

\* An I/O error is forgotten by the next process only.
LEMMA FailedSteps == [Next]_vars /\ Live' /\ ~ioFailed' => ~ioFailed
<1> SUFFICES ASSUME [Next]_vars, Live', ioFailed PROVE ioFailed'
  OBVIOUS
<1> USE DEF history, IOError, NoIOError
<1>1. CASE Boot
  BY <1>1 DEF Boot, Live
<1>2. CASE StartUp
  BY <1>2 DEF StartUp, PurgeBundleDir, PurgeFrameMeta, PurgeDone, Restore, OpenApk, InstallBegin,
              CommitKey, Run
<1>3. CASE Crash \/ UpgradeApk \/ Request
  BY <1>3 DEF Crash, UpgradeApk, Request, InstallBegin, InstallRejected, UpdateBegin,
              UninstallBegin, RunAgain
<1>4. CASE Operation
  BY <1>4 DEF Operation, OpenZip, CopyStream, RevMetaOpen, RevMetaWrite, RevisionFails, DeleteZip,
              DeleteRevMeta, DeleteRevDir, DeleteBundleMeta, CleanupDone, BundleMetaOpen,
              BundleMetaWrite, BundleMetaFails, FrameMetaOpen, FrameMetaWrite, FrameMetaFails,
              UninstallDone
<1>5. CASE UNCHANGED vars
  BY <1>5 DEF vars
<1> QED BY <1>1, <1>2, <1>3, <1>4, <1>5 DEF Next

\* Every step keeps the storage in agreement with the table.
LEMMA DiskStep == StoreInv /\ ThreadInv /\ DiskInv /\ [Next]_vars => DiskInv'
<1> SUFFICES ASSUME StoreInv, ThreadInv, DiskInv, [Next]_vars, ~reusedIds', ~ioFailed', Live'
             PROVE  NewOnDisk' /\ \A l \in Registered' : RevisionsOnDisk(l)' /\ CounterOnDisk(l)'
  BY DEF DiskInv
<1>0. ApkInv /\ BlankInv /\ WorkInv /\ OwnerInv /\ TypeOK /\ OpInv /\ DownInv
  BY DEF StoreInv, ApkInv
<1>1. IdsInv' /\ TypeOK' /\ \A l \in Registered' : l \in Locations /\ bundles'[l] # Absent
  BY <1>0, OwnerStep, TypeStep DEF OwnerInv, Registered
<1>2. CASE PurgeDone
  <2>1. Registered' = {} /\ step' = "frameOpen"
    BY <1>0, <1>2 DEF PurgeDone, BlankInv, Live, Registered, NoBundles
  <2> QED BY <2>1 DEF NewOnDisk
<1>3. CASE Restore
  <2>1. NewOnDisk'
    BY <1>3 DEF Restore, NewOnDisk
  <2> QED BY <1>0, <1>1, <1>3, <2>1, RestoreOnDisk
<1>4. CASE ~PurgeDone /\ ~Restore
  <2>1. Live
    <3>1. CASE StartUp
      BY <1>0, <1>4, <3>1 DEF StartUp, PurgeBundleDir, PurgeFrameMeta, OpenApk, InstallBegin,
        CommitKey, Run, Live, DownInv, procVars
    <3>2. CASE Operation
      <4>1. step \in OpSteps \cup {"frameOpen", "frameWrite"}
        BY <3>2 DEF Operation, OpenZip, CopyStream, RevMetaOpen, RevMetaWrite, RevisionFails,
          DeleteZip, DeleteRevMeta, DeleteRevDir, Deleting, DeleteBundleMeta, CleanupDone,
          BundleMetaOpen, BundleMetaWrite, BundleMetaFails, FrameMetaOpen, FrameMetaWrite,
          FrameMetaFails, UninstallDone, OpSteps
      <4> QED BY <1>0, <4>1 DEF Live, OpSteps, DownInv
    <3>3. CASE Request
      BY <3>3 DEF Request, InstallBegin, InstallRejected, UpdateBegin, UninstallBegin, RunAgain,
        Live
    <3>4. CASE Boot \/ Crash \/ UpgradeApk \/ UNCHANGED vars
      BY <3>4 DEF Boot, Crash, UpgradeApk, vars, procVars, Live
    <3> QED BY <3>1, <3>2, <3>3, <3>4 DEF Next
  <2>2. DiskPre
    BY <1>0, <1>4, <2>1, ReusedSteps, FailedSteps DEF DiskPre, DiskInv, OwnerPre, OwnerInv
  <2> QED BY <1>1, <1>4, <2>1, <2>2, NewOnDiskStep, RevisionsStep, CounterStep
<1> QED BY <1>2, <1>3, <1>4

-----------------------------------------------------------------------------
(* The first run.                                                          *)

\* Only a completed uninstall enters the record of uninstalls, and only a restore can find the id
\* counter behind.
LEMMA HistorySteps ==
  [Next]_vars => \/ uninstalled' \subseteq uninstalled /\ UNCHANGED reusedIds
                 \/ PurgeDone \/ Restore \/ UninstallDone
<1> SUFFICES ASSUME [Next]_vars, ~PurgeDone, ~Restore, ~UninstallDone
             PROVE  uninstalled' \subseteq uninstalled /\ UNCHANGED reusedIds
  OBVIOUS
<1> USE DEF history
<1>1. CASE Boot \/ Crash \/ UpgradeApk \/ Request
  BY <1>1 DEF Boot, Crash, UpgradeApk, Request, InstallBegin, InstallRejected, UpdateBegin,
              UninstallBegin, RunAgain
<1>2. CASE StartUp
  BY <1>2 DEF StartUp, PurgeBundleDir, PurgeFrameMeta, OpenApk, InstallBegin, CommitKey, Run
<1>3. CASE Operation
  BY <1>3 DEF Operation, OpenZip, CopyStream, RevMetaOpen, RevMetaWrite, RevisionFails, DeleteZip,
              DeleteRevMeta, DeleteRevDir, DeleteBundleMeta, CleanupDone, BundleMetaOpen,
              BundleMetaWrite, BundleMetaFails, FrameMetaOpen, FrameMetaWrite, FrameMetaFails,
              Register
<1>4. CASE UNCHANGED vars
  BY <1>4 DEF vars
<1> QED BY <1>1, <1>2, <1>3, <1>4 DEF Next

\* The first run follows the purge, and nothing but it follows the purge.
LEMMA FirstRunBegins ==
  ASSUME OpInv, DownInv, ThreadInv, [Next]_vars, FirstRun'
  PROVE  FirstRun \/ PurgeDone
<1> USE DEF FirstRun, ThreadInv, DownInv, procVars, KeepTable, OpSteps
<1>1. CASE Boot \/ Crash \/ UpgradeApk
  BY <1>1 DEF Boot, Crash, UpgradeApk
<1>2. CASE StartUp
  BY <1>2 DEF StartUp, PurgeBundleDir, PurgeFrameMeta, Restore, OpenApk, InstallBegin, CommitKey,
              Run
<1>3. CASE Request
  BY <1>3 DEF Request, InstallBegin, InstallRejected, UpdateBegin, UninstallBegin, RunAgain
<1>4. CASE Operation
  <2>1. CASE step \in OpSteps
    <3>1. proc' = proc
      BY <1>4 DEF Operation, OpenZip, CopyStream, RevMetaOpen, RevMetaWrite, RevisionFails,
        DeleteZip, DeleteRevMeta, DeleteRevDir, DeleteBundleMeta, CleanupDone, BundleMetaOpen,
        BundleMetaWrite, BundleMetaFails, FrameMetaOpen, FrameMetaWrite, FrameMetaFails,
        UninstallDone, StoreReturns
    <3> QED BY <2>1, <3>1
  <2>2. CASE FrameMetaOpen \/ FrameMetaWrite \/ FrameMetaFails
    BY <2>2 DEF FrameMetaOpen, FrameMetaWrite, FrameMetaFails, StoreReturns
  <2>3. step \in OpSteps \/ FrameMetaOpen \/ FrameMetaWrite \/ FrameMetaFails
    BY <1>4 DEF Operation, OpenZip, CopyStream, RevMetaOpen, RevMetaWrite, RevisionFails,
      DeleteZip, DeleteRevMeta, DeleteRevDir, Deleting, DeleteBundleMeta, CleanupDone,
      BundleMetaOpen, BundleMetaWrite, BundleMetaFails, UninstallDone
  <2> QED BY <2>1, <2>2, <2>3
<1>5. CASE UNCHANGED vars
  BY <1>5 DEF vars
<1> QED BY <1>1, <1>2, <1>3, <1>4, <1>5 DEF Next

\* A packed bundle waits, is being installed or is in the table.
LEMMA FirstRunStep ==
  StoreInv /\ ThreadInv /\ FirstRunInv /\ [Next]_vars => FirstRunInv'
<1> SUFFICES ASSUME StoreInv, ThreadInv, FirstRunInv, [Next]_vars PROVE FirstRunInv'
  OBVIOUS
<1>0. TypeOK /\ OpInv /\ DownInv /\ BlankInv /\ WorkInv
  BY DEF StoreInv, ApkInv
<1>1. FirstRun' => uninstalled' = {} /\ ~reusedIds'
  <2> SUFFICES ASSUME FirstRun' PROVE uninstalled' = {} /\ ~reusedIds'
    OBVIOUS
  <2>1. CASE PurgeDone
    BY <2>1 DEF PurgeDone
  <2>2. CASE ~PurgeDone
    <3>1. FirstRun /\ uninstalled = {} /\ ~reusedIds
      BY <1>0, <2>2, FirstRunBegins DEF FirstRunInv
    <3>2. ~Restore
      BY <3>1 DEF Restore, FirstRun, ThreadInv
    <3>3. ~UninstallDone
      BY <1>0, <3>1 DEF UninstallDone, FirstRun, ThreadInv, OpSteps, OpInv
    <3> QED BY <2>2, <3>1, <3>2, <3>3, HistorySteps
  <2> QED BY <2>1, <2>2
<1>2. ASSUME proc' = "installing", ~ioFailed', NEW l \in Packed
      PROVE  l \in todo' \/ bundles'[l] # Absent \/ (step' \in OpSteps /\ op'.new /\ op'.loc = l)
  <2>0. l \in Locations
    BY BundleAssumption
  <2>1. CASE OpenApk
    BY <1>2, <2>1 DEF OpenApk, IOError
  <2>2. CASE ~OpenApk
    <3>1. proc = "installing"
      <4>1. CASE Boot \/ Crash \/ UpgradeApk \/ StartUp \/ Request
        BY <1>2, <2>2, <4>1 DEF Boot, Crash, UpgradeApk, StartUp, PurgeBundleDir, PurgeFrameMeta,
          PurgeDone, Restore, InstallBegin, CommitKey, Run, Request, InstallRejected, UpdateBegin,
          UninstallBegin, RunAgain, KeepTable, procVars
      <4>2. CASE Operation
        BY <1>2, <4>2 DEF Operation, OpenZip, CopyStream, RevMetaOpen, RevMetaWrite, RevisionFails,
          DeleteZip, DeleteRevMeta, DeleteRevDir, DeleteBundleMeta, CleanupDone, BundleMetaOpen,
          BundleMetaWrite, BundleMetaFails, FrameMetaOpen, FrameMetaWrite, FrameMetaFails,
          UninstallDone, StoreReturns, KeepTable, procVars
      <4>3. CASE UNCHANGED vars
        BY <1>2, <4>3 DEF vars, procVars
      <4> QED BY <4>1, <4>2, <4>3 DEF Next
    <3>2. Live' /\ ~Restore /\ ~PurgeDone
      <4>1. step \notin {"purge", "restore"} /\ ~Restore /\ ~PurgeDone
        BY <3>1 DEF ThreadInv, Restore, PurgeDone
      <4>2. ThreadInv'
        BY ThreadStep DEF StoreInv
      <4> QED BY <1>2, <4>1, <4>2 DEF Live, ThreadInv
    <3>3. ~ioFailed
      BY <1>2, <3>2, FailedSteps
    <3>4. l \in todo \/ bundles[l] # Absent \/ (step \in OpSteps /\ op.new /\ op.loc = l)
      BY <2>0, <3>1, <3>3 DEF FirstRunInv, Registered
    <3>5. CASE bundles[l] # Absent
      <4>1. ~(step \in OpSteps /\ l = op.loc)
        BY <1>0, <3>1, <3>5 DEF WorkInv, ThreadInv
      <4> QED BY <1>0, <2>0, <3>2, <3>5, <4>1, TableOthers
    <3>6. CASE l \in todo /\ bundles[l] = Absent
      <4>1. CASE \E m \in Locations : InstallBegin(m)
        BY <1>0, <3>6, <4>1 DEF InstallBegin, OpSteps
      <4>2. CASE UNCHANGED todo
        BY <3>6, <4>2
      <4>3. UNCHANGED todo \/ \E m \in Locations : InstallBegin(m)
        <5> USE DEF procVars, KeepTable
        <5>1. CASE Boot \/ UpgradeApk \/ Crash \/ UNCHANGED vars
          BY <1>2, <5>1 DEF Boot, UpgradeApk, Crash, vars
        <5>2. CASE StartUp
          BY <2>2, <5>2 DEF StartUp, PurgeBundleDir, PurgeFrameMeta, PurgeDone, Restore, CommitKey,
            Run
        <5>3. CASE Request
          BY <5>3 DEF Request, InstallRejected, UpdateBegin, UninstallBegin, RunAgain
        <5>4. CASE Operation
          BY <5>4 DEF Operation, OpenZip, CopyStream, RevMetaOpen, RevMetaWrite, RevisionFails,
            DeleteZip, DeleteRevMeta, DeleteRevDir, DeleteBundleMeta, CleanupDone,
            BundleMetaOpen, BundleMetaWrite, BundleMetaFails, FrameMetaOpen, FrameMetaWrite,
            FrameMetaFails, UninstallDone
        <5> QED BY <5>1, <5>2, <5>3, <5>4 DEF Next
      <4> QED BY <4>1, <4>2, <4>3
    <3>7. CASE step \in OpSteps /\ op.new /\ op.loc = l
      <4>1. CASE UNCHANGED vars
        BY <3>7, <4>1 DEF vars, procVars
      <4>2. CASE OpenZip \/ CopyStream \/ RevMetaOpen \/ RevMetaWrite \/ BundleMetaOpen
        BY <3>7, <4>2 DEF OpenZip, CopyStream, RevMetaOpen, RevMetaWrite, BundleMetaOpen, OpSteps
      <4>3. CASE BundleMetaWrite
        <5>1. bundles'[l] = [id |-> op.id, cur |-> 1, last |-> 1, opt |-> FALSE]
          BY <1>0, <2>0, <3>7, <4>3 DEF BundleMetaWrite, Register, TypeOK
        <5>2. [id |-> op.id, cur |-> 1, last |-> 1, opt |-> FALSE] \in BundleRecord
          BY <1>0, <3>7, BundleAssumption DEF OpInv, BundleRecord, Revisions
        <5> QED BY <5>1, <5>2, RecordAssumption
      <4>4. CASE Operation /\ ~(OpenZip \/ CopyStream \/ RevMetaOpen \/ RevMetaWrite
                                \/ BundleMetaOpen \/ BundleMetaWrite)
        <5>1. step # "cleanup" /\ step # "uninstall"
          BY <1>0, <3>3, <3>7 DEF ThreadInv, OpInv
        <5> QED BY <1>2, <3>7, <4>4, <5>1 DEF Operation, RevisionFails, BundleMetaFails, IOError,
              DeleteZip, DeleteRevMeta, DeleteRevDir, Deleting, DeleteBundleMeta, CleanupDone,
              FrameMetaOpen, FrameMetaWrite, FrameMetaFails, UninstallDone, OpSteps
      <4> QED BY <1>0, <3>2, <3>7, <4>1, <4>2, <4>3, <4>4, OperationGoesOn
    <3> QED BY <3>4, <3>5, <3>6, <3>7
  <2> QED BY <2>1, <2>2
<1>3. \A l \in Packed : l \in Locations
  BY BundleAssumption
<1> QED BY <1>1, <1>2, <1>3 DEF FirstRunInv, Registered

\* The whole of it holds in every reachable state.
THEOREM StorageInvariance == Spec => [](ApkInv /\ StorageInv)
<1>1. Init => ApkInv /\ StorageInv
  BY InitApkInv, InitStorageInv
<1>2. (ApkInv /\ StorageInv) /\ [Next]_vars => (ApkInv /\ StorageInv)'
  <2> SUFFICES ASSUME ApkInv, StorageInv, [Next]_vars PROVE ApkInv' /\ StorageInv'
    OBVIOUS
  <2>1. StoreInv /\ ThreadInv /\ DiskInv /\ FirstRunInv
    BY DEF StorageInv, StoreInv
  <2>2. ApkInv'
    BY TypeStep, OpStep, ZipsStep, DownStep, StorageStep, LoadedStep DEF ApkInv
  <2> QED BY <2>1, <2>2, BlankStep, WorkStep, OwnerStep, ThreadStep, DiskStep, FirstRunStep
          DEF StorageInv, StoreInv
<1> QED BY <1>1, <1>2, PTL DEF Spec

\* A start would accept the directory of a bundle the storage agrees about, at its last revision.
LEMMA FoundOnDisk ==
  ASSUME TypeOK, NEW l \in Registered, l \notin uninstalled, RevisionsOnDisk(l), step = "none"
  PROVE  LET i == bundles[l].id
         IN  i \in DirsOf(l) /\ Newest(i) = bundles[l].last
<1> DEFINE i == bundles[l].id
           k == bundles[l].last
<1>1. i \in Ids /\ l \in Locations
  BY DEF TypeOK, BundleRecord, Registered
<1>2. ~Uninstalling(l) /\ ~Updating(l)
  BY DEF Uninstalling, Updating, UpdateSteps
<1>3. /\ bundleMeta[i] = l /\ k \in Revisions /\ revDir[<<i, k>>] /\ revMeta[<<i, k>>] = Saved
      /\ \A v \in RevisionsOf(i) : v <= k
  <2> HIDE DEF Uninstalling, Updating
  <2> QED BY <1>2 DEF RevisionsOnDisk
<1>4. k \in RevisionsOf(i)
  BY <1>3 DEF RevisionsOf
<1>5. Newest(i) = k
  <2>1. RevisionsOf(i) \subseteq 0..MaxRevision /\ RevisionsOf(i) # {} /\ MaxRevision \in Nat
    BY <1>4, BundleAssumption DEF RevisionsOf, Revisions
  <2>2. Newest(i) \in RevisionsOf(i) /\ k <= Newest(i)
    BY <1>4, <2>1, MaxOfBounded DEF Newest
  <2>3. Newest(i) <= k
    <3> HIDE DEF i, k
    <3> QED BY <1>3, <2>2
  <2>4. k \in Int /\ Newest(i) \in Int
    <3> HIDE DEF i, k
    <3> QED BY <1>4, <2>1, <2>2
  <2> QED BY <2>2, <2>3, <2>4
<1>6. Restorable(i)
  BY <1>1, <1>3, <1>4, <1>5 DEF Restorable
<1> QED BY <1>1, <1>3, <1>5, <1>6 DEF DirsOf

\* Between operations, without an I/O error in this process and with no id reused, a restart would
\* find each bundle of the table in the same one directory, at the newest revision, and the
\* counter ahead of it.
THEOREM RestartFaithful == Spec => []RestartMatchesTable
<1>1. ApkInv /\ StorageInv => RestartMatchesTable
  <2> SUFFICES ASSUME ApkInv, StorageInv, step = "none", proc \in {"installing", "running"},
                      ~ioFailed, ~reusedIds, NEW l \in Registered \ uninstalled
               PROVE  /\ WouldRestore(l, bundles[l].id, bundles[l].last)
                      /\ frameMeta \in Nat /\ frameMeta > bundles[l].id
    BY DEF RestartMatchesTable
  <2>1. Live /\ TypeOK /\ OneDirInv
    BY DEF Live, ApkInv, StorageInv, OwnerInv
  <2>2. RevisionsOnDisk(l) /\ CounterOnDisk(l)
    BY <2>1 DEF StorageInv, DiskInv
  <2> DEFINE i == bundles[l].id
  <2>3. i \in DirsOf(l) /\ Newest(i) = bundles[l].last
    BY <2>1, <2>2, FoundOnDisk
  <2>4. ASSUME NEW j \in DirsOf(l) PROVE j = i
    BY <2>1, <2>3 DEF DirsOf, OneDirInv
  <2>5. WouldRestore(l, i, bundles[l].last)
    BY <2>3, <2>4 DEF WouldRestore
  <2> QED BY <2>2, <2>5 DEF CounterOnDisk
<1> QED BY StorageInvariance, <1>1, PTL

\* The key of an APK is stored only when the next start would restore every bundle packed in it,
\* or an I/O error was seen: nothing the first run was to install is forgotten by the code itself.
THEOREM KeyCovers == Spec => CommitCoversBundles
<1>1. ApkInv /\ StorageInv /\ [Next]_vars =>
        (prefKey' # prefKey =>
          /\ prefKey' = apkKey
          /\ ioFailed \/ (frameMeta \in Nat /\ \A l \in Packed : DirsOf(l) # {}))
  <2> SUFFICES ASSUME ApkInv, StorageInv, [Next]_vars, prefKey' # prefKey
               PROVE  /\ prefKey' = apkKey
                      /\ ioFailed \/ (frameMeta \in Nat /\ \A l \in Packed : DirsOf(l) # {})
    OBVIOUS
  <2>1. CommitKey
    <3> USE DEF diskVars, KeepMetas
    <3>1. CASE StartUp
      BY <3>1 DEF StartUp, PurgeBundleDir, PurgeFrameMeta, PurgeDone, Restore, OpenApk,
        InstallBegin, Run
    <3>2. CASE Operation
      BY <3>2 DEF Operation, OpenZip, CopyStream, RevMetaOpen, RevMetaWrite, RevisionFails,
        DeleteZip, DeleteRevMeta, DeleteRevDir, DeleteBundleMeta, CleanupDone, BundleMetaOpen,
        BundleMetaWrite, BundleMetaFails, FrameMetaOpen, FrameMetaWrite, FrameMetaFails,
        UninstallDone
    <3>3. CASE Boot \/ Crash \/ UpgradeApk \/ Request \/ UNCHANGED vars
      BY <3>3 DEF Boot, Crash, UpgradeApk, Request, InstallBegin, InstallRejected, UpdateBegin,
        UninstallBegin, RunAgain, vars
    <3> QED BY <3>1, <3>2, <3>3 DEF Next
  <2>2. /\ prefKey' = apkKey
        /\ proc = "installing" /\ step = "none" /\ todo = {}
    BY <2>1 DEF CommitKey
  <2>3. ASSUME ~ioFailed, NEW l \in Packed PROVE DirsOf(l) # {} /\ frameMeta \in Nat
    <3>1. l \in Registered /\ l \notin uninstalled /\ ~reusedIds /\ Live /\ TypeOK
      BY <2>2, <2>3 DEF StorageInv, FirstRunInv, FirstRun, OpSteps, Live, ApkInv
    <3>2. RevisionsOnDisk(l) /\ CounterOnDisk(l)
      BY <2>3, <3>1 DEF StorageInv, DiskInv
    <3> QED BY <2>2, <3>1, <3>2, FoundOnDisk DEF CounterOnDisk
  <2> QED BY <2>2, <2>3, BundleAssumption
<1> QED BY StorageInvariance, <1>1, PTL DEF Spec, CommitCoversBundles

=============================================================================
