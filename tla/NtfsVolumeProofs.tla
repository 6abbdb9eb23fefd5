--------------------------- MODULE NtfsVolumeProofs ---------------------------
(***************************************************************************)
(* The invariants of NtfsVolume for any number of controllers, volumes and *)
(* handles and any RefCount width that can count the handles.              *)
(***************************************************************************)
EXTENDS NtfsVolume, FiniteSetTheorems, TLAPS

\* The driver starts in a state of the inductive invariant.
LEMMA InitIndInv == Init => IndInv
<1> SUFFICES ASSUME Init PROVE IndInv
    OBVIOUS
<1> USE ConstantsAssumption DEF Init, NoOp, Idle
<1>1. TypeOK
  <2>1. 0 \in 0 .. RefModulus - 1 /\ 0 \in 0 .. MaxMounts
      BY FS_CardinalityType
  <2> QED BY Zenon, <2>1 DEF TypeOK, Operation, OpKinds
<1>2. InstalledIsLive /\ OneValidVolume /\ InFlightProtected
    BY DEF InstalledIsLive, OneValidVolume, InFlightProtected
<1>3. RefCountBalance
  <2> SUFFICES ASSUME NEW v \in Volumes PROVE Cardinality(Files(v)) = 0
      BY FS_CardinalityType DEF RefCountBalance, Plus
  <2>1. Files(v) = {}
      BY DEF Files
  <2> QED BY <2>1, FS_EmptySet
<1>4. OperationIntact /\ VolumeMemory /\ UnloadProgress
    BY DEF OperationIntact, VolumeMemory, UnloadProgress
<1> QED BY <1>1, <1>2, <1>3, <1>4 DEF IndInv

\* The open files of a volume are finitely many, and RefCount can count them.
LEMMA FilesBounded ==
    ASSUME NEW v \in Volumes
    PROVE  /\ IsFiniteSet(Files(v))
           /\ Cardinality(Files(v)) \in Nat
           /\ Cardinality(Files(v)) < RefModulus
<1>1. Files(v) \subseteq Handles
    BY DEF Files
<1>2. IsFiniteSet(Files(v)) /\ Cardinality(Files(v)) <= Cardinality(Handles)
    BY <1>1, FS_Subset, ConstantsAssumption
<1>3. Cardinality(Files(v)) \in Nat /\ Cardinality(Handles) \in Nat
    BY <1>2, FS_CardinalityType, ConstantsAssumption
<1> QED BY <1>2, <1>3, ConstantsAssumption

\* The reference count of every volume whose files, RefCount and drift stay
\* the same stays balanced.
LEMMA BalanceUnchanged ==
    ASSUME RefCountBalance, UNCHANGED <<fileVars, RefCount, drift>>
    PROVE  RefCountBalance'
BY DEF RefCountBalance, Files, fileVars

\* Start, up to the mount, keeps the invariant: a new volume has no
\* references.
LEMMA StartBeginPreserves ==
    ASSUME IndInv, NEW c \in Controllers, NEW v \in Volumes,
           NtfsDriverBindingStartBegin(c, v)
    PROVE  IndInv'
<1> USE DEF IndInv, NtfsDriverBindingStartBegin, Begin, NtfsAcquireLock,
            LockedByMe, imageVars, fileVars
<1>1. TypeOK'
    BY ConstantsAssumption DEF TypeOK, Operation, OpKinds
<1>2. InstalledIsLive'
    BY DEF TypeOK, InstalledIsLive
<1>3. OneValidVolume'
    BY ConstantsAssumption DEF TypeOK, OneValidVolume, VolumeMemory, Ready, Idle, NoOp
<1>4. InFlightProtected'
    BY DEF TypeOK, InFlightProtected
<1>5. RefCountBalance'
    BY BalanceUnchanged
<1>6. OperationIntact'
    BY ConstantsAssumption DEF TypeOK, OperationIntact, OneValidVolume, VolumeMemory, Ready, Idle, NoOp
<1>7. VolumeMemory'
    BY DEF TypeOK, VolumeMemory
<1>8. UnloadProgress'
    BY DEF UnloadProgress
<1> QED BY <1>1, <1>2, <1>3, <1>4, <1>5, <1>6, <1>7, <1>8

\* The arithmetic of UINTN that the next three lemmas use.
LEMMA Wrapping ==
    ASSUME NEW k \in Nat, k < RefModulus, NEW d \in 0 .. RefModulus - 1
    PROVE  /\ k + 1 < RefModulus => Plus(k + 1, d) = Increment(Plus(k, d))
           /\ k > 0 => Plus(k - 1, d) = Decrement(Plus(k, d))
           /\ k > 0 => Plus(k - 1, Increment(d)) = Plus(k, d)
           /\ Plus(k, Decrement(d)) = Decrement(Plus(k, d))
BY ConstantsAssumption DEF Plus, Increment, Decrement

\* Opening a file adds one to the files of its volume and to RefCount.
LEMMA BalanceOpen ==
    ASSUME TypeOK, RefCountBalance, NEW v \in Volumes, NEW g \in Handles,
           NtfsOFileOpen(v, g), UNCHANGED drift
    PROVE  RefCountBalance'
<1> USE DEF TypeOK
<1>1. /\ fileVol[g] = NULL
      /\ fileVol' = [fileVol EXCEPT ![g] = v]
      /\ IsRoot' = [IsRoot EXCEPT ![g] = FALSE]
      /\ RefCount' = [RefCount EXCEPT ![v] = Increment(@)]
    BY ConstantsAssumption DEF NtfsOFileOpen
<1>2. Files(v)' = Files(v) \cup {g} /\ g \notin Files(v)
    BY <1>1, ConstantsAssumption DEF Files
<1>3. Cardinality(Files(v)') = Cardinality(Files(v)) + 1
  <2>1. Cardinality(Files(v) \cup {g}) = Cardinality(Files(v)) + 1
      BY Zenon, <1>2, FilesBounded, FS_AddElement
  <2> QED BY <1>2, <2>1
<1>4. Cardinality(Files(v)') < RefModulus
  <2>1. Files(v)' \subseteq Handles
      BY <1>1 DEF Files
  <2>2. Cardinality(Files(v)') <= Cardinality(Handles)
      BY <2>1, FS_Subset, ConstantsAssumption
  <2> QED BY <2>2, <1>3, FilesBounded, FS_CardinalityType, ConstantsAssumption
<1>5. ASSUME NEW w \in Volumes, w # v PROVE Files(w)' = Files(w)
    BY <1>1, <1>5, ConstantsAssumption DEF Files
<1>6. SUFFICES ASSUME NEW w \in Volumes
               PROVE  RefCount'[w] = Plus(Cardinality(Files(w)'), drift[w])
    BY DEF RefCountBalance
<1>7. CASE w = v
    BY <1>7, <1>1, <1>3, <1>4, FilesBounded, Wrapping DEF RefCountBalance
<1>8. CASE w # v
    BY <1>8, <1>1, <1>5 DEF RefCountBalance
<1> QED BY <1>7, <1>8

\* A root instance is not one of the files of its volume.
LEMMA BalanceOpenRoot ==
    ASSUME TypeOK, RefCountBalance, NEW v \in Volumes, NEW h \in Handles,
           fileVol[h] = NULL,
           fileVol' = [fileVol EXCEPT ![h] = v],
           IsRoot' = [IsRoot EXCEPT ![h] = TRUE],
           UNCHANGED <<RefCount, drift>>
    PROVE  RefCountBalance'
<1>1. ASSUME NEW w \in Volumes PROVE Files(w)' = Files(w)
    BY ConstantsAssumption DEF TypeOK, Files
<1> QED BY <1>1 DEF RefCountBalance

\* Closing an instance: what Close and Delete do to the count is accounted
\* for by the files and the drift.
LEMMA BalanceClose ==
    ASSUME TypeOK, RefCountBalance, NEW h \in Handles, NEW v \in Volumes,
           fileVol[h] = v, NtfsIFileClose(h),
           \/ /\ RefCount' = [RefCount EXCEPT ![v] = Decrement(@)]
              /\ drift' = IF IsRoot[h] THEN [drift EXCEPT ![v] = Decrement(@)]
                                       ELSE drift
           \/ /\ RefCount' = RefCount
              /\ drift' = IF IsRoot[h] THEN drift
                                       ELSE [drift EXCEPT ![v] = Increment(@)]
    PROVE  RefCountBalance'
<1> USE DEF TypeOK
<1>1. /\ fileVol' = [fileVol EXCEPT ![h] = NULL]
      /\ IsRoot' = [IsRoot EXCEPT ![h] = FALSE]
    BY DEF NtfsIFileClose
<1>2. ASSUME NEW w \in Volumes, w # v PROVE Files(w)' = Files(w)
    BY <1>1, <1>2, ConstantsAssumption DEF Files
<1>3. CASE IsRoot[h]
  <2>1. Files(v)' = Files(v)
      BY <1>1, <1>3, ConstantsAssumption, SMT DEF Files
  <2>2. RefCount'[v] = Plus(Cardinality(Files(v)), drift'[v])
      BY <1>3, FilesBounded, Wrapping DEF RefCountBalance
  <2> QED BY <2>1, <2>2, <1>2, <1>3 DEF RefCountBalance
<1>4. CASE ~IsRoot[h]
  <2>1. Files(v)' = Files(v) \ {h} /\ h \in Files(v)
      BY <1>1, <1>4, ConstantsAssumption DEF Files
  <2>2. /\ IsFiniteSet(Files(v) \ {h})
        /\ Cardinality(Files(v) \ {h}) = Cardinality(Files(v)) - 1
      BY <2>1, FilesBounded, FS_RemoveElement
  <2>3. Cardinality(Files(v)) - 1 \in Nat
      BY <2>2, FS_CardinalityType
  <2>4. RefCount'[v] = Plus(Cardinality(Files(v)) - 1, drift'[v])
      BY <2>3, <1>4, FilesBounded, Wrapping DEF RefCountBalance
  <2> QED BY SMTT(30), <2>1, <2>2, <2>4, <1>2, <1>4 DEF RefCountBalance
<1> QED BY <1>3, <1>4

\* Start, after the mount, keeps the invariant.
LEMMA StartEndPreserves ==
    ASSUME IndInv, NEW found \in BOOLEAN, NtfsDriverBindingStartEnd(found)
    PROVE  IndInv'
<1> USE ConstantsAssumption DEF IndInv, NtfsDriverBindingStartEnd,
        NtfsReleaseLock, fileVars, imageVars, NoOp, Idle
<1>0. op.kind = "Start" /\ op.vol \in Volumes /\ op.ctl \in Controllers
    BY DEF OperationIntact
<1>1. TypeOK'
    BY ZenonT(40), <1>0 DEF TypeOK, Operation, OpKinds
<1>2. InstalledIsLive'
    BY <1>0 DEF TypeOK, InstalledIsLive, OperationIntact, OneValidVolume,
                InFlightProtected
<1>3. OneValidVolume'
    BY <1>0 DEF TypeOK, OneValidVolume, OperationIntact
<1>4. InFlightProtected'
    BY DEF InFlightProtected
<1>5. RefCountBalance'
    BY BalanceUnchanged
<1>6. OperationIntact'
    BY DEF OperationIntact
<1>7. VolumeMemory'
    BY <1>0 DEF TypeOK, VolumeMemory, OperationIntact, InFlightProtected
<1>8. UnloadProgress'
    BY <1>0 DEF TypeOK, UnloadProgress
<1> QED BY <1>1, <1>2, <1>3, <1>4, <1>5, <1>6, <1>7, <1>8

\* So does a Start that comes while another one mounts.
LEMMA StartNestedPreserves ==
    ASSUME IndInv, NEW c \in Controllers, NEW v \in Volumes,
           NtfsDriverBindingStartNested(c, v)
    PROVE  IndInv'
<1> USE ConstantsAssumption DEF IndInv, NtfsDriverBindingStartNested, fileVars,
        imageVars
<1>1. TypeOK'
    BY DEF TypeOK
<1>2. InstalledIsLive'
    BY DEF TypeOK, InstalledIsLive, OneValidVolume
<1>3. OneValidVolume'
    BY DEF TypeOK, OneValidVolume, InstalledIsLive
<1>4. InFlightProtected'
    BY DEF TypeOK, InFlightProtected, OperationIntact, Idle
<1>5. RefCountBalance'
    BY BalanceUnchanged
<1>6. OperationIntact'
    BY DEF TypeOK, OperationIntact, InFlightProtected, OneValidVolume, Idle, NoOp
<1>7. VolumeMemory'
    BY DEF TypeOK, VolumeMemory
<1>8. UnloadProgress'
    BY DEF UnloadProgress
<1> QED BY <1>1, <1>2, <1>3, <1>4, <1>5, <1>6, <1>7, <1>8

\* Stop, wherever it is called from, preserves everything but the part about
\* Unload, which depends on the caller.
LEMMA StopPreserves ==
    ASSUME IndInv, NEW c \in Controllers, NtfsDriverBindingStop(c)
    PROVE  /\ InstalledIsLive' /\ OneValidVolume' /\ InFlightProtected'
           /\ RefCountBalance' /\ OperationIntact' /\ VolumeMemory'
           /\ memory' \in [Volumes -> {"unused", "allocated", "freed"}]
           /\ mounts' \in [Volumes -> 0 .. MaxMounts]
<1> USE ConstantsAssumption DEF IndInv, NtfsDriverBindingStop,
        NtfsAbandonVolume, NtfsAcquireLock, LockedByMe, NtfsCleanupVolume,
        Disposable, fileVars
<1> DEFINE v == FileSystem[c]
<1>0. /\ v \in Volumes
      /\ memory[v] = "allocated" /\ Valid[v] /\ Handle[v] = c /\ DiskIoOpen[c]
    BY DEF TypeOK, InstalledIsLive
<1>1. memory' \in [Volumes -> {"unused", "allocated", "freed"}]
    BY <1>0 DEF TypeOK
<1>2. mounts' \in [Volumes -> 0 .. MaxMounts]
    BY <1>0 DEF TypeOK, VolumeMemory
<1>3. InstalledIsLive'
    BY <1>0 DEF TypeOK, InstalledIsLive
<1>4. OneValidVolume'
    BY <1>0 DEF TypeOK, OneValidVolume, OperationIntact, Idle, NoOp
<1>5. InFlightProtected'
    BY <1>0 DEF TypeOK, InFlightProtected, Idle
<1>6. RefCountBalance'
    BY BalanceUnchanged
<1>7. OperationIntact'
    BY <1>0 DEF TypeOK, OperationIntact, InFlightProtected, Idle, NoOp
<1>8. VolumeMemory'
    BY <1>0 DEF TypeOK, VolumeMemory
<1> QED BY <1>1, <1>2, <1>3, <1>4, <1>5, <1>6, <1>7, <1>8

\* Stop, when the firmware calls it, keeps the invariant.
LEMMA DisconnectPreserves ==
    ASSUME IndInv, NEW c \in Controllers, Disconnect(c)
    PROVE  IndInv'
<1> USE DEF IndInv, Disconnect, imageVars
<1>1. TypeOK'
    BY Zenon, StopPreserves DEF TypeOK, NtfsDriverBindingStop, NtfsAbandonVolume,
                         NtfsAcquireLock, fileVars
<1>2. UnloadProgress'
    BY DEF UnloadProgress
<1> QED BY <1>1, <1>2, StopPreserves

\* The ends of Unload keep the invariant.
LEMMA UnloadPreserves ==
    ASSUME IndInv, NtfsUnloadBegin \/ NtfsUnloadEnd
    PROVE  IndInv'
<1> USE DEF IndInv, NtfsUnloadBegin, NtfsUnloadEnd, boundVars, volumeVars,
        fileVars, Ready, Idle
<1>1. TypeOK'
    BY DEF TypeOK
<1>2. InstalledIsLive' /\ OneValidVolume' /\ InFlightProtected'
  <2>1. InstalledIsLive'
      BY DEF InstalledIsLive
  <2>2. OneValidVolume'
      BY DEF OneValidVolume
  <2>3. InFlightProtected'
      BY DEF InFlightProtected
  <2> QED BY <2>1, <2>2, <2>3
<1>3. RefCountBalance'
    BY BalanceUnchanged
<1>4. OperationIntact' /\ VolumeMemory'
    BY DEF OperationIntact, VolumeMemory
<1>5. UnloadProgress'
    BY DEF TypeOK, UnloadProgress
<1> QED BY <1>1, <1>2, <1>3, <1>4, <1>5

\* So does each controller it visits.
LEMMA UnloadVisitPreserves ==
    ASSUME IndInv, NEW c \in Controllers, NtfsUnloadVisit(c)
    PROVE  IndInv'
<1> USE DEF IndInv, NtfsUnloadVisit, UnloadGivesUp, Ready
<1>1. CASE NtfsDriverBindingStop(c) /\ toUnload' = toUnload \ {c} /\ UNCHANGED image
  <2>1. TypeOK'
      BY Zenon, <1>1, StopPreserves DEF TypeOK, NtfsDriverBindingStop,
                                 NtfsAbandonVolume, NtfsAcquireLock, fileVars
  <2>2. UnloadProgress'
      BY <1>1 DEF TypeOK, UnloadProgress, NtfsDriverBindingStop, Idle
  <2> QED BY <1>1, <2>1, <2>2, StopPreserves
<1>2. CASE /\ UNCHANGED <<boundVars, volumeVars, fileVars, lock, op, crashed, drift>>
           /\ \/ UnloadGivesUp
              \/ ~DiskIoOpen[c] /\ toUnload' = toUnload \ {c} /\ UNCHANGED image
  <2> USE <1>2 DEF boundVars, volumeVars, fileVars
  <2>1. TypeOK'
      BY DEF TypeOK
  <2>2. InstalledIsLive' /\ OneValidVolume' /\ InFlightProtected'
      BY DEF InstalledIsLive, OneValidVolume, InFlightProtected, Idle
  <2>3. RefCountBalance'
      BY BalanceUnchanged
  <2>4. OperationIntact' /\ VolumeMemory'
      BY DEF OperationIntact, VolumeMemory, Idle
  <2>5. UnloadProgress'
      BY DEF TypeOK, UnloadProgress, Idle
  <2> QED BY <2>1, <2>2, <2>3, <2>4, <2>5
<1> QED BY <1>1, <1>2

\* A step that changes nothing but `crashed' and, between operations, the lock.
LEMMA IdlePreserves ==
    ASSUME IndInv, crashed' \in BOOLEAN, lock' \in {"released", "acquired"},
           UNCHANGED lock \/ Idle,
           UNCHANGED <<boundVars, volumeVars, fileVars, imageVars, op, drift>>
    PROVE  IndInv'
<1> USE DEF IndInv, boundVars, volumeVars, fileVars, imageVars
<1>1. TypeOK'
    BY SMTT(30) DEF TypeOK
<1>2. InstalledIsLive'
    BY DEF InstalledIsLive
<1>3. OneValidVolume'
    BY DEF OneValidVolume
<1>4. InFlightProtected'
    BY DEF InFlightProtected, Idle
<1>5. RefCountBalance'
    BY BalanceUnchanged
<1>6. OperationIntact'
    BY DEF OperationIntact, Idle
<1>7. VolumeMemory'
    BY DEF VolumeMemory
<1>8. UnloadProgress'
    BY DEF UnloadProgress, Idle
<1> QED BY <1>1, <1>2, <1>3, <1>4, <1>5, <1>6, <1>7, <1>8

\* An operation on the volume v takes the lock and goes to the device.
LEMMA BeginPreserves ==
    ASSUME IndInv, Idle, image = "loaded",
           NEW kind \in {"OpenVolume", "Open", "Delete", "Access", "Info"},
           NEW v \in Volumes, NEW h \in Handles \cup {NULL},
           memory[v] = "allocated",
           kind = "OpenVolume" => mounts[v] < MaxMounts,
           kind # "OpenVolume" => h \in Handles /\ fileVol[h] = v,
           Begin(kind, v, h, NULL, TRUE), NtfsAcquireLock,
           UNCHANGED <<boundVars, volumeVars, fileVars, imageVars, crashed, drift>>
    PROVE  IndInv'
<1> USE ConstantsAssumption DEF IndInv, boundVars, volumeVars, fileVars,
        imageVars, NtfsAcquireLock, Begin
<1>1. op' \in Operation
    BY DEF Operation, OpKinds
<1>2. TypeOK'
    BY <1>1 DEF TypeOK
<1>3. InstalledIsLive'
    BY DEF InstalledIsLive
<1>4. OneValidVolume'
    BY DEF OneValidVolume, Idle, NoOp
<1>5. InFlightProtected'
    BY DEF InFlightProtected
<1>6. RefCountBalance'
    BY BalanceUnchanged
<1>7. OperationIntact'
    BY DEF OperationIntact, Idle, NoOp
<1>8. VolumeMemory'
    BY SMTT(30) DEF VolumeMemory
<1>9. UnloadProgress'
    BY DEF UnloadProgress
<1> QED BY SMTT(30), <1>2, <1>3, <1>4, <1>5, <1>6, <1>7, <1>8, <1>9

\* OpenVolume finds an allocated volume, and adds one operation to it.
LEMMA OpenVolumeBeginPreserves ==
    ASSUME IndInv, NEW c \in Controllers, NtfsOpenVolumeBegin(c)
    PROVE  IndInv'
<1>1. FileSystem[c] \in Volumes /\ memory[FileSystem[c]] = "allocated"
    BY DEF IndInv, TypeOK, InstalledIsLive, NtfsOpenVolumeBegin
<1> QED BY Zenon, <1>1, BeginPreserves DEF NtfsOpenVolumeBegin, Ready

\* An operation on a handle adds one operation to the volume of the handle.
LEMMA FileBeginPreserves ==
    ASSUME IndInv, NEW h \in Handles,
           NEW kind \in {"Open", "Delete", "Access", "Info"}, FileBegin(kind, h)
    PROVE  IndInv'
<1>1. /\ fileVol[h] \in Volumes /\ memory[fileVol[h]] = "allocated"
      /\ Idle /\ image = "loaded"
    BY DEF IndInv, TypeOK, FileBegin, Callable, Ready
<1> QED BY Zenon, <1>1, BeginPreserves DEF FileBegin

\* Every handler's last step, the reference check: freeing the volume v that
\* the handler worked on breaks nothing, since the volume is not valid and so
\* no file system is installed on it.
LEMMA CleanupPreserves ==
    ASSUME IndInv, NEW v \in Volumes, memory[v] = "allocated",
           NEW m \in [Volumes -> 0 .. MaxMounts],
           VolInfo'[v] => m[v] > 0,
           NtfsCleanupVolume(v, m), UNCHANGED <<boundVars, Handle, Valid>>
    PROVE  /\ memory' \in [Volumes -> {"unused", "allocated", "freed"}]
           /\ mounts' \in [Volumes -> 0 .. MaxMounts]
           /\ InstalledIsLive'
           /\ memory'[v] # "unused"
           /\ memory'[v] = "freed" => RefCount'[v] = 0
           /\ memory'[v] = "allocated" /\ VolInfo'[v] => mounts'[v] > 0
           /\ \A w \in Volumes \ {v} :
                 memory'[w] = memory[w] /\ mounts'[w] = m[w]
<1> USE ConstantsAssumption DEF IndInv, NtfsCleanupVolume, Disposable, boundVars
<1>1. memory' \in [Volumes -> {"unused", "allocated", "freed"}]
    BY DEF TypeOK
<1>2. mounts' \in [Volumes -> 0 .. MaxMounts]
    OBVIOUS
<1>3. InstalledIsLive'
    BY SMTT(30) DEF TypeOK, InstalledIsLive
<1> QED BY <1>1, <1>2, <1>3 DEF TypeOK

\* The end of OpenVolume keeps the invariant, mounted or not.
LEMMA OpenVolumeEndPreserves ==
    ASSUME IndInv, NEW mounted \in BOOLEAN, NEW h \in Handles \cup {NULL},
           NtfsOpenVolumeEnd(mounted, h)
    PROVE  IndInv'
<1> DEFINE m == IF mounted THEN [mounts EXCEPT ![op.vol] = @ + 1] ELSE mounts
<1> USE ConstantsAssumption DEF IndInv, NtfsOpenVolumeEnd, NtfsReleaseLock
<1>0. /\ op.vol \in Volumes /\ memory[op.vol] = "allocated"
      /\ mounts[op.vol] < MaxMounts
    BY SMTT(30) DEF OperationIntact, InFlightProtected, Idle, NoOp
<1>1. m \in [Volumes -> 0 .. MaxMounts] /\ (VolInfo'[op.vol] => m[op.vol] > 0)
    BY SMTT(30), <1>0 DEF TypeOK
<1>2. PICK v \in Volumes : v = op.vol
    BY Zenon, <1>0
<1>3. NtfsCleanupVolume(v, m) /\ UNCHANGED <<boundVars, Handle, Valid>>
    BY <1>2
<1> HIDE DEF m
<1>4. /\ memory' \in [Volumes -> {"unused", "allocated", "freed"}]
      /\ mounts' \in [Volumes -> 0 .. MaxMounts]
      /\ InstalledIsLive'
      /\ memory'[v] # "unused"
      /\ memory'[v] = "freed" => RefCount'[v] = 0
      /\ memory'[v] = "allocated" /\ VolInfo'[v] => mounts'[v] > 0
      /\ \A w \in Volumes \ {v} :
            memory'[w] = memory[w] /\ mounts'[w] = m[w]
    BY SMTT(30), <1>0, <1>1, <1>2, <1>3, CleanupPreserves
<1>5. TypeOK'
    BY ZenonT(40), <1>0, <1>4 DEF TypeOK, Operation, OpKinds, NoOp, boundVars, fileVars, imageVars
<1>6. OneValidVolume' /\ InFlightProtected'
    BY Zenon DEF OneValidVolume, InFlightProtected, Idle, NoOp, boundVars
<1>7. RefCountBalance'
  <2>1. CASE h = NULL
      BY <2>1, BalanceUnchanged DEF fileVars
  <2>2. CASE h # NULL
      BY SMTT(30), <1>2, <2>2, BalanceOpenRoot
  <2> QED BY Zenon, <2>1, <2>2
<1>8. OperationIntact'
    BY DEF OperationIntact, Idle, NoOp
<1>9. VolumeMemory'
    BY SMTT(30), <1>2, <1>4 DEF m, TypeOK, VolumeMemory, fileVars
<1>10. UnloadProgress'
    BY Zenon DEF UnloadProgress, boundVars, imageVars, Idle
<1> QED BY SMTT(30), <1>4, <1>5, <1>6, <1>7, <1>8, <1>9, <1>10

\* A repair that faults inside OpenVolume leaves the volume and its count alone.
LEMMA FixMountFaultPreserves ==
    ASSUME IndInv, FixMountFault
    PROVE  IndInv'
<1> USE DEF IndInv, FixMountFault
<1>1. TypeOK' /\ InstalledIsLive' /\ OneValidVolume'
    BY Zenon DEF TypeOK, InstalledIsLive, OneValidVolume, boundVars, fileVars, imageVars
<1>2. InFlightProtected' /\ OperationIntact' /\ UnloadProgress'
    BY DEF InFlightProtected, OperationIntact, UnloadProgress, Idle, NoOp,
           boundVars, fileVars, imageVars
<1>3. RefCountBalance'
    BY BalanceUnchanged DEF fileVars
<1>4. VolumeMemory'
    BY DEF TypeOK, VolumeMemory, fileVars
<1> QED BY SMTT(30), <1>1, <1>2, <1>3, <1>4

\* The rest of Open, Delete, Read, Write, GetInfo and SetInfo on the volume v.
LEMMA FileEndPreserves ==
    ASSUME IndInv,
           \/ \E g \in Handles \cup {NULL} : NtfsOpenEnd(g)
           \/ NtfsDeleteEnd
           \/ \E ok \in BOOLEAN : NtfsAccessEnd(ok)
           \/ NtfsSetOrGetInfoEnd
    PROVE  IndInv'
<1> USE ConstantsAssumption DEF IndInv
<1>0. PICK v \in Volumes : /\ v = op.vol /\ op.kind # "Start"
                           /\ memory[v] = "allocated"
                           /\ op.file \in Handles /\ fileVol[op.file] = v
    BY ZenonT(40) DEF OperationIntact, InFlightProtected, Idle, NoOp, NtfsOpenEnd,
           NtfsDeleteEnd, NtfsAccessEnd, NtfsSetOrGetInfoEnd
<1>1. /\ lock' = "released" /\ op' = NoOp
      /\ UNCHANGED <<boundVars, Handle, Valid, VolInfo, imageVars, crashed>>
    BY ZenonT(40) DEF NtfsOpenEnd, NtfsDeleteEnd, NtfsAccessEnd, NtfsSetOrGetInfoEnd,
           NtfsReleaseLock
<1>2. NtfsCleanupVolume(v, mounts) \/ UNCHANGED <<memory, mounts>>
    BY SMTT(30), <1>0 DEF NtfsOpenEnd, NtfsDeleteEnd, NtfsAccessEnd, NtfsSetOrGetInfoEnd
<1>3. \/ \E g \in Handles \cup {NULL} : NtfsOFileOpen(v, g) /\ UNCHANGED drift
      \/ /\ NtfsIFileClose(op.file)
         /\ UNCHANGED RefCount
         /\ drift' = IF IsRoot[op.file] THEN drift
                      ELSE [drift EXCEPT ![v] = Increment(@)]
      \/ UNCHANGED <<fileVars, RefCount, drift>>
    BY SMTT(30), <1>0 DEF NtfsOpenEnd, NtfsDeleteEnd, NtfsAccessEnd, NtfsSetOrGetInfoEnd
<1>4. /\ memory' \in [Volumes -> {"unused", "allocated", "freed"}]
      /\ mounts' \in [Volumes -> 0 .. MaxMounts]
      /\ InstalledIsLive'
      /\ memory'[v] # "unused"
      /\ memory'[v] = "freed" => RefCount'[v] = 0
      /\ memory'[v] = "allocated" /\ VolInfo'[v] => mounts'[v] > 0
      /\ \A w \in Volumes \ {v} :
            memory'[w] = memory[w] /\ mounts'[w] = mounts[w]
  <2>1. CASE NtfsCleanupVolume(v, mounts)
    <3>1. /\ mounts \in [Volumes -> 0 .. MaxMounts]
          /\ VolInfo'[v] => mounts[v] > 0
        BY SMTT(30), <1>0, <1>1 DEF TypeOK, VolumeMemory
    <3> HIDE DEF IndInv
    <3> QED BY ZenonT(40), <1>0, <1>1, <2>1, <3>1, CleanupPreserves
  <2>2. CASE UNCHANGED <<memory, mounts>>
      BY SMTT(30), <1>0, <1>1, <2>2 DEF TypeOK, InstalledIsLive, VolumeMemory, boundVars
  <2> QED BY SMTT(30), <1>2, <2>1, <2>2
<1>5. /\ fileVol' \in [Handles -> Volumes \cup {NULL}]
      /\ IsRoot' \in [Handles -> BOOLEAN]
      /\ RefCount' \in [Volumes -> 0 .. RefModulus - 1]
      /\ drift' \in [Volumes -> 0 .. RefModulus - 1]
      /\ \A h \in Handles : fileVol'[h] \in {fileVol[h], v, NULL}
      /\ \A w \in Volumes \ {v} : RefCount'[w] = RefCount[w] /\ drift'[w] = drift[w]
  <2>1. CASE \E g \in Handles \cup {NULL} : NtfsOFileOpen(v, g) /\ UNCHANGED drift
    <3>1. CASE NtfsOFileOpen(v, NULL) /\ UNCHANGED drift
        BY <3>1 DEF TypeOK, NtfsOFileOpen, fileVars
    <3>2. ASSUME NEW g \in Handles, NtfsOFileOpen(v, g), UNCHANGED drift
          PROVE  <1>5!:
      <4>1. /\ fileVol' = [fileVol EXCEPT ![g] = v]
            /\ IsRoot' = [IsRoot EXCEPT ![g] = FALSE]
            /\ RefCount' = [RefCount EXCEPT ![v] = Increment(@)]
          BY <3>2 DEF NtfsOFileOpen
      <4>2. Increment(RefCount[v]) \in 0 .. RefModulus - 1
          BY SMTT(30) DEF TypeOK, Increment
      <4> QED BY SMTT(30), <3>2, <4>1, <4>2 DEF TypeOK
    <3> QED BY Zenon, <2>1, <3>1, <3>2
  <2>2. CASE /\ NtfsIFileClose(op.file)
             /\ UNCHANGED RefCount
             /\ drift' = IF IsRoot[op.file] THEN drift
                          ELSE [drift EXCEPT ![v] = Increment(@)]
      BY <1>0, <2>2 DEF TypeOK, NtfsIFileClose, Increment
  <2>3. CASE UNCHANGED <<fileVars, RefCount, drift>>
      BY SMTT(30), <2>3 DEF TypeOK, fileVars
  <2> QED BY ZenonT(40), <1>3, <2>1, <2>2, <2>3
<1>6. TypeOK'
    BY SMTT(30), <1>1, <1>4, <1>5 DEF TypeOK, Operation, OpKinds, NoOp, boundVars, imageVars
<1>7. OneValidVolume' /\ InFlightProtected' /\ OperationIntact' /\ UnloadProgress'
    BY SMTT(30), <1>0, <1>1 DEF OneValidVolume, InFlightProtected, OperationIntact,
                      UnloadProgress, Idle, NoOp, boundVars, imageVars
<1>8. RefCountBalance'
  <2>1. CASE \E g \in Handles : NtfsOFileOpen(v, g) /\ UNCHANGED drift
      BY SMTT(30), <2>1, BalanceOpen
  <2>2. CASE /\ NtfsIFileClose(op.file)
             /\ UNCHANGED RefCount
             /\ drift' = IF IsRoot[op.file] THEN drift
                          ELSE [drift EXCEPT ![v] = Increment(@)]
    <3>1. PICK h \in Handles : h = op.file
        BY <1>0
    <3> QED BY Zenon, <1>0, <2>2, <3>1, BalanceClose
  <2>3. CASE UNCHANGED <<fileVars, RefCount, drift>>
      BY <2>3, BalanceUnchanged
  <2> QED BY Zenon, <1>3, <2>1, <2>2, <2>3 DEF NtfsOFileOpen
<1>9. VolumeMemory'
    BY <1>1, <1>4, <1>5, SMTT(30) DEF TypeOK, VolumeMemory
<1> QED BY SMTT(30), <1>4, <1>6, <1>7, <1>8, <1>9

\* Close takes back what its handle added, and may unmount and free.
LEMMA ClosePreserves ==
    ASSUME IndInv, NEW h \in Handles, NtfsClose(h)
    PROVE  IndInv'
<1> USE ConstantsAssumption DEF IndInv, NtfsClose, Callable, Ready,
        NtfsReleaseLock
<1>0. PICK v \in Volumes : v = fileVol[h] /\ memory[v] = "allocated"
    BY SMTT(30) DEF TypeOK
<1>1. /\ RefCount' = [RefCount EXCEPT ![v] = Decrement(@)]
      /\ drift' = IF IsRoot[h] THEN [drift EXCEPT ![v] = Decrement(@)] ELSE drift
      /\ NtfsIFileClose(h)
    BY ZenonT(40), <1>0
<1>2. /\ memory' \in [Volumes -> {"unused", "allocated", "freed"}]
      /\ mounts' \in [Volumes -> 0 .. MaxMounts]
      /\ InstalledIsLive'
      /\ memory'[v] # "unused"
      /\ memory'[v] = "freed" => RefCount'[v] = 0
      /\ memory'[v] = "allocated" /\ VolInfo'[v] => mounts'[v] > 0
      /\ \A w \in Volumes \ {v} :
            memory'[w] = memory[w] /\ mounts'[w] = mounts[w]
  <2>1. /\ mounts \in [Volumes -> 0 .. MaxMounts]
        /\ VolInfo'[v] => mounts[v] > 0
      BY SMTT(30), <1>0 DEF TypeOK, VolumeMemory
  <2>2. NtfsCleanupVolume(v, mounts) /\ UNCHANGED <<boundVars, Handle, Valid>>
      BY Zenon, <1>0
  <2> HIDE DEF IndInv, NtfsClose
  <2> QED BY Zenon, <1>0, <2>1, <2>2, CleanupPreserves
<1>3. /\ fileVol' \in [Handles -> Volumes \cup {NULL}]
      /\ IsRoot' \in [Handles -> BOOLEAN]
      /\ RefCount' \in [Volumes -> 0 .. RefModulus - 1]
      /\ drift' \in [Volumes -> 0 .. RefModulus - 1]
    BY <1>1 DEF TypeOK, NtfsIFileClose, Decrement
<1>4. TypeOK'
    BY SMTT(30), <1>2, <1>3 DEF TypeOK, boundVars, imageVars
<1>5. OneValidVolume' /\ InFlightProtected' /\ OperationIntact' /\ UnloadProgress'
    BY SMTT(30) DEF OneValidVolume, InFlightProtected, OperationIntact, UnloadProgress,
           Idle, NoOp, boundVars, imageVars
<1>6. RefCountBalance'
    BY ZenonT(40), <1>0, <1>1, BalanceClose
<1>7. VolumeMemory'
    BY SMTT(30), <1>1, <1>2, <1>3 DEF TypeOK, VolumeMemory, NtfsIFileClose
<1> QED BY Zenon, <1>2, <1>4, <1>5, <1>6, <1>7

\* Flush keeps the invariant.
LEMMA FlushPreserves ==
    ASSUME IndInv, NEW h \in Handles, NtfsFlush(h)
    PROVE  IndInv'
<1> USE ConstantsAssumption DEF IndInv, NtfsFlush, Callable, Ready,
        NtfsReleaseLock, NtfsAcquireLock
<1>0. PICK v \in Volumes : v = fileVol[h] /\ memory[v] = "allocated"
    BY SMTT(30) DEF TypeOK
<1>1. /\ memory' \in [Volumes -> {"unused", "allocated", "freed"}]
      /\ mounts' \in [Volumes -> 0 .. MaxMounts]
      /\ InstalledIsLive'
      /\ memory'[v] # "unused"
      /\ memory'[v] = "freed" => RefCount'[v] = 0
      /\ memory'[v] = "allocated" /\ VolInfo'[v] => mounts'[v] > 0
      /\ \A w \in Volumes \ {v} :
            memory'[w] = memory[w] /\ mounts'[w] = mounts[w]
  <2>1. CASE VolInfo[v]
    <3>1. /\ mounts \in [Volumes -> 0 .. MaxMounts]
          /\ VolInfo'[v] => mounts[v] > 0
        BY SMTT(30), <1>0 DEF TypeOK, VolumeMemory
    <3>2. NtfsCleanupVolume(v, mounts) /\ UNCHANGED <<boundVars, Handle, Valid>>
        BY ZenonT(40), <1>0, <2>1
    <3> HIDE DEF IndInv, NtfsFlush
    <3> QED BY Zenon, <1>0, <3>1, <3>2, CleanupPreserves
  <2>2. CASE ~VolInfo[v]
      BY SMTT(30), <1>0, <2>2 DEF TypeOK, InstalledIsLive, VolumeMemory, boundVars
  <2> QED BY SMTT(30), <2>1, <2>2
<1>2. TypeOK'
    BY Zenon, <1>1 DEF TypeOK, boundVars, fileVars, imageVars
<1>3. OneValidVolume' /\ InFlightProtected' /\ OperationIntact' /\ UnloadProgress'
    BY ZenonT(40) DEF OneValidVolume, InFlightProtected, OperationIntact, UnloadProgress,
           Idle, NoOp, boundVars, imageVars
<1>4. RefCountBalance'
    BY ZenonT(40), BalanceUnchanged
<1>5. VolumeMemory'
    BY <1>1 DEF TypeOK, VolumeMemory, fileVars
<1> QED BY Zenon, <1>1, <1>2, <1>3, <1>4, <1>5

\* Every state the driver reaches satisfies the inductive invariant.
THEOREM Invariance == Spec => []IndInv
<1>1. ASSUME IndInv, [Next]_vars PROVE IndInv'
  <2>1. CASE UNCHANGED vars
    <3>1. crashed \in BOOLEAN /\ lock \in {"released", "acquired"}
        BY <1>1 DEF IndInv, TypeOK
    <3> QED BY <1>1, <2>1, <3>1, IdlePreserves DEF vars
  <2>2. ASSUME NEW c \in Controllers, NEW v \in Volumes,
               \/ NtfsDriverBindingStartBegin(c, v)
               \/ NtfsDriverBindingStartNested(c, v)
        PROVE  IndInv'
      BY <1>1, <2>2, StartBeginPreserves, StartNestedPreserves
  <2>3. ASSUME NEW c \in Controllers,
               Disconnect(c) \/ NtfsUnloadVisit(c) \/ NtfsOpenVolumeBegin(c)
        PROVE  IndInv'
      BY <1>1, <2>3, DisconnectPreserves, UnloadVisitPreserves,
         OpenVolumeBeginPreserves
  <2>4. CASE NtfsUnloadBegin \/ NtfsUnloadEnd
      BY <1>1, <2>4, UnloadPreserves
  <2>5. ASSUME NEW h \in Handles,
               \/ \E kind \in {"Open", "Delete", "Access", "Info"} : FileBegin(kind, h)
               \/ NtfsClose(h)
               \/ NtfsFlush(h)
        PROVE  IndInv'
      BY <1>1, <2>5, FileBeginPreserves, ClosePreserves, FlushPreserves
  <2>6. ASSUME NEW h \in Handles, CallDangling(h) \/ RootFault(h)
        PROVE  IndInv'
    <3>1. crashed' \in BOOLEAN /\ lock \in {"released", "acquired"}
        BY Zenon, <1>1, <2>6 DEF IndInv, TypeOK, CallDangling, RootFault
    <3> QED BY SMTT(30), <1>1, <2>6, <3>1, IdlePreserves DEF CallDangling, RootFault
  <2>7. CASE EndOperation
    <3>1. ASSUME NullInode PROVE IndInv'
      <4>1. crashed' \in BOOLEAN /\ lock \in {"released", "acquired"}
          BY <1>1, <3>1 DEF IndInv, TypeOK, NullInode
      <4> QED BY <1>1, <3>1, <4>1, IdlePreserves DEF NullInode
    <3> QED
      BY <1>1, <2>7, <3>1, StartEndPreserves, OpenVolumeEndPreserves, FileEndPreserves,
         FixMountFaultPreserves
         DEF EndOperation
  <2>8. CASE Halted
      BY <2>1, <2>8 DEF Halted
  <2> QED BY <1>1, <2>1, <2>2, <2>3, <2>4, <2>5, <2>6, <2>7, <2>8 DEF Next
<1> QED BY <1>1, InitIndInv, PTL DEF Spec

\* Type correctness of the volume life cycle.
THEOREM TypeCorrectness == Spec => []TypeOK
<1>1. IndInv => TypeOK
    BY DEF IndInv
<1> QED BY <1>1, Invariance, PTL

\* An installed file system interface never points into freed memory.
THEOREM InstalledFileSystemsAreLive == Spec => []InstalledIsLive
<1>1. IndInv => InstalledIsLive
    BY DEF IndInv
<1> QED BY <1>1, Invariance, PTL

\* No path of Start or Stop leaks the BY_DRIVER open of DiskIo.
THEOREM OneValidVolumePerController == Spec => []OneValidVolume
<1>1. IndInv => OneValidVolume
    BY DEF IndInv
<1> QED BY <1>1, Invariance, PTL

\* A Stop called inside an operation does not free the operation's volume.
THEOREM OperationsAreProtected == Spec => []InFlightProtected
<1>1. IndInv => InFlightProtected
    BY DEF IndInv
<1> QED BY <1>1, Invariance, PTL

\* RefCount is the open files plus the recorded drift, for any width of RefCount.
THEOREM RefCountIsBalanced == Spec => []RefCountBalance
<1>1. IndInv => RefCountBalance
    BY DEF IndInv
<1> QED BY <1>1, Invariance, PTL

\* Where the count has not drifted it protects every open file.
THEOREM CountedFilesAreProtected == Spec => []CountedFilesKeepVolume
<1>1. ASSUME IndInv PROVE CountedFilesKeepVolume
  <2> SUFFICES ASSUME NEW v \in Volumes, memory[v] = "freed", drift[v] = 0
               PROVE  Files(v) = {}
      BY DEF CountedFilesKeepVolume
  <2>1. Cardinality(Files(v)) = 0
      BY <1>1, FilesBounded, SMTT(30) DEF IndInv, VolumeMemory, RefCountBalance,
                                          Plus
  <2> QED BY <2>1, FilesBounded, FS_EmptySet
<1> QED BY <1>1, Invariance, PTL

\* NtfsUnload lets the image go only when no controller is left started.
THEOREM UnloadIsClean == Spec => []UnloadedLeavesNothing
<1>1. ASSUME IndInv PROVE UnloadedLeavesNothing
    BY <1>1 DEF IndInv, UnloadProgress, InstalledIsLive, UnloadedLeavesNothing
<1> QED BY <1>1, Invariance, PTL

=============================================================================
