-------------------------- MODULE DocsCacheProofs --------------------------
(***************************************************************************)
(* Proofs about DocsCache: type correctness, the safety of skipping a file *)
(* whose mtime and size are unchanged, and the exactness of a scan that    *)
(* ran alone, for any files, bodies, goroutines and bounds.  The last two  *)
(* assume that the file system never gives two writes the same mtime.      *)
(***************************************************************************)
EXTENDS DocsCache, FiniteSetTheorems, TLAPS

-----------------------------------------------------------------------------
(* The inductive invariant *)

\* No time stamp anywhere is later than the file system's clock, and none on
\* disk is zero, the stamp of the zero docMeta.
StampsBounded ==
    \A f \in Files :
        /\ disk[f] # Absent => 0 < disk[f].mtime /\ disk[f].mtime <= clock
        /\ docMeta[f] # Absent => docMeta[f].modTime <= clock
        /\ \A p \in Procs : current[p][f] # Absent => current[p][f].modTime <= clock

\* What os.WriteFile is about to write is a part of the upload not yet handled.
WritesPending ==
    \A p \in Procs : pc[p] = "write" => \A f \in todo[p] : pending[p][f] # Absent

\* A scan's maps are empty until the walk that fills them.
LocalsEmpty ==
    \A p \in Procs :
        /\ pc[p] \notin {"read", "respond"} => content[p] = NoFiles
        /\ pc[p] \in {"idle", "open", "write", "walk"} => current[p] = NoFiles

\* What a scan has read of a file is current, or the file has been stamped since
\* with a later time than the first walk saw.
ReadsCurrent ==
    \A p \in Procs, f \in Files :
        /\ content[p][f] # Absent
        /\ disk[f] # Absent
        /\ NewMeta(p)[f] = MetaOf(disk[f])
        => content[p][f] = disk[f].body

\* docsContent and docMeta have the same keys.
SameKeys == \A f \in Files : docMeta[f] = Absent <=> docsContent[f] = Absent

MetaOnDisk(f) == IF disk[f] = Absent THEN Absent ELSE MetaOf(disk[f])
BodyOnDisk(f) == IF disk[f] = Absent THEN Absent ELSE disk[f].body

\* A scan that runs alone has seen the present state of each quiet file.
QuietSeen ==
    \A p \in Procs : quiet[p] # {} =>
        /\ pc[p] \in {"stat", "reread", "read", "respond"}
        /\ \A q \in Procs \ {p} : pc[q] \notin {"stat", "reread", "read", "respond"}
        /\ \A f \in quiet[p] :
            /\ pc[p] = "stat" =>
                IF f \in todo[p] THEN disk[f] # Absent
                ELSE current[p][f] = MetaOnDisk(f)
            /\ pc[p] = "read" =>
                IF f \in todo[p] THEN disk[f] # Absent
                ELSE content[p][f] = BodyOnDisk(f)
            /\ pc[p] = "respond" => Reflects(f)

FreshInv ==
    /\ TypeOK
    /\ WritesPending
    /\ StampsBounded
    /\ LocalsEmpty
    /\ ReadsCurrent
    /\ FreshMetaFreshContent

QuietInv == SameKeys /\ QuietSeen

-----------------------------------------------------------------------------
(* Type correctness *)

LEMMA MetaOfType ==
    ASSUME NEW d \in DiskFile
    PROVE  MetaOf(d) \in DocMeta
  BY DEF MetaOf, DiskFile, DocMeta, Size

LEMMA NewMetaType ==
    ASSUME TypeOK, NEW p \in Procs
    PROVE  NewMeta(p) \in [Files -> DocMeta \cup {Absent}]
  BY DEF TypeOK, NewMeta, ZeroMeta, DocMeta

LEMMA PutType ==
    ASSUME TypeOK, NEW f \in Files, NEW b \in Body, Put(f, b)
    PROVE  /\ disk' \in [Files -> DiskFile \cup {Absent}]
           /\ clock' \in Nat
           /\ quiet' \in [Procs -> SUBSET Files]
  <1>1. clock' \in Nat
    BY DEF TypeOK, Put, Stamps
  <1>2. [mtime |-> clock', body |-> b] \in DiskFile
    BY <1>1 DEF DiskFile
  <1>3. QED
    BY <1>1, <1>2 DEF TypeOK, Put

LEMMA WeightType ==
    ASSUME NEW b
    PROVE  Weight(b) \in Nat
  BY FilesAssumption, FS_Subset, FS_CardinalityType DEF Weight

LEMMA TypeInit == Init => TypeOK
  BY DEF Init, TypeOK, Boot, BootOp, NoFiles, PCs, ScanStates, Procs, DiskFile, Body

LEMMA TypeStep == TypeOK /\ WritesPending /\ [Next]_vars => TypeOK'
  <1> SUFFICES ASSUME TypeOK, WritesPending, [Next]_vars PROVE TypeOK'
    OBVIOUS
  <1> USE DEF TypeOK
  <1>1. CASE UNCHANGED vars
    BY <1>1 DEF vars, diskVars, cacheVars, uploadVars, scanVars, boundVars
  <1>2. ASSUME NEW p \in Handlers, StartList(p) PROVE TypeOK'
    BY <1>2 DEF StartList, diskVars, cacheVars, uploadVars, scanVars, boundVars,
                PCs, ScanStates, Procs
  <1>3. ASSUME NEW p \in Handlers, StartUpload(p) PROVE TypeOK'
    BY <1>3, WeightType
    DEF StartUpload, Batches, diskVars, cacheVars, scanVars, PCs, Procs
  <1>4. ASSUME NEW p \in Handlers, OpenTruncate(p) PROVE TypeOK'
    <2>1. PICK f \in Files : todo' = [todo EXCEPT ![p] = {f}] /\ Put(f, Empty)
      BY <1>4 DEF OpenTruncate
    <2>2. QED
      BY <1>4, <2>1, PutType
      DEF OpenTruncate, cacheVars, uploadVars, boundVars, PCs, Procs, Body
  <1>5. ASSUME NEW p \in Handlers, WriteBody(p) PROVE TypeOK'
    <2>1. PICK f \in todo[p] :
              /\ IF p \in orphaned THEN UNCHANGED <<diskVars, quiet>>
                 ELSE Put(f, pending[p][f])
              /\ pending' = [pending EXCEPT ![p][f] = Absent]
              /\ uploaded' = [uploaded EXCEPT ![p] = @ \cup {f}]
      BY <1>5 DEF WriteBody
    <2>2. p \in Procs /\ f \in Files
      BY DEF Procs
    <2>3. pending[p][f] \in Body
      BY <1>5, <2>1, <2>2 DEF WriteBody, WritesPending, Body
    <2>4. /\ disk' \in [Files -> DiskFile \cup {Absent}]
          /\ clock' \in Nat
          /\ quiet' \in [Procs -> SUBSET Files]
      <3>1. CASE p \in orphaned
        BY <2>1, <3>1 DEF diskVars
      <3>2. CASE p \notin orphaned
        BY <2>1, <2>2, <2>3, <3>2, PutType
      <3>3. QED
        BY <3>1, <3>2
    <2>5. /\ pending' \in [Procs -> [Files -> Bodies \cup {Absent}]]
          /\ uploaded' \in [Procs -> SUBSET Files]
      BY <2>1, <2>2
    <2>6. /\ orphaned' \subseteq Procs
          /\ todo' \in [Procs -> SUBSET Files]
          /\ pc' \in [Procs -> PCs]
          /\ UNCHANGED <<cacheVars, op, current, content, boundVars>>
      BY <1>5 DEF WriteBody, PCs
    <2>7. QED
      BY <2>4, <2>5, <2>6 DEF cacheVars, boundVars
  <1>6. ASSUME NEW p \in Handlers, SkipFile(p) PROVE TypeOK'
    <2>1. pending' \in [Procs -> [Files -> Bodies \cup {Absent}]]
      BY <1>6 DEF SkipFile, Procs
    <2>2. QED
      BY <1>6, <2>1 DEF SkipFile, diskVars, cacheVars, boundVars, PCs
  <1>7. ASSUME NEW p \in Handlers, EndUpload(p) PROVE TypeOK'
    BY <1>7 DEF EndUpload, diskVars, cacheVars, uploadVars, scanVars, boundVars,
                PCs, ScanStates, Procs
  <1>8. ASSUME NEW p \in Procs, BeginScan(p) PROVE TypeOK'
    BY <1>8 DEF BeginScan, OnDisk, diskVars, cacheVars, uploadVars, boundVars,
                PCs, ScanStates
  <1>9. ASSUME NEW p \in Procs, Stat(p) PROVE TypeOK'
    BY <1>9, MetaOfType DEF Stat, diskVars, cacheVars, uploadVars, boundVars
  <1>10. ASSUME NEW p \in Procs, Compare(p) PROVE TypeOK'
    BY <1>10 DEF Compare, diskVars, cacheVars, uploadVars, scanVars, boundVars,
                 PCs, ScanStates
  <1>11. ASSUME NEW p \in Procs, ReRead(p) PROVE TypeOK'
    BY <1>11 DEF ReRead, OnDisk, diskVars, cacheVars, uploadVars, boundVars,
                 PCs, ScanStates
  <1>12. ASSUME NEW p \in Procs, Read(p) PROVE TypeOK'
    BY <1>12 DEF Read, DiskFile, diskVars, cacheVars, uploadVars, boundVars
  <1>13. ASSUME NEW p \in Procs, Install(p) PROVE TypeOK'
    <2>1. docsList' \subseteq [name : Files, title : Body]
      BY <1>13 DEF Install, Entries
    <2>2. QED
      BY <1>13, <2>1, NewMetaType
      DEF Install, diskVars, uploadVars, scanVars, boundVars, PCs, ScanStates
  <1>14. ASSUME NEW p \in Procs, Respond(p) PROVE TypeOK'
    BY <1>14 DEF Respond, NoFiles, diskVars, cacheVars, boundVars, PCs
  <1>15. ASSUME NEW f \in Files, EditorRemoves(f) PROVE TypeOK'
    BY <1>15 DEF EditorRemoves, Remove, Stamps, cacheVars, scanVars
  <1>16. ASSUME NEW f \in Files, NEW b \in Bodies, EditorWrites(f, b) PROVE TypeOK'
    BY <1>16, PutType DEF EditorWrites, Body, cacheVars, uploadVars, scanVars
  <1>17. CASE Crash
    BY <1>17 DEF Crash, Boot, BootOp, NoFiles, PCs, ScanStates, diskVars
  <1>18. QED
    BY <1>1, <1>2, <1>3, <1>4, <1>5, <1>6, <1>7, <1>8, <1>9, <1>10, <1>11, <1>12,
       <1>13, <1>14, <1>15, <1>16, <1>17
    DEF Next, Upload, Scan

LEMMA WritesPendingStep ==
    TypeOK /\ WritesPending /\ [Next]_vars => WritesPending'
  <1> SUFFICES ASSUME TypeOK, WritesPending, [Next]_vars PROVE WritesPending'
    OBVIOUS
  <1> USE DEF TypeOK, WritesPending
  <1>1. CASE UNCHANGED <<pc, todo, pending>>
    BY <1>1
  <1>2. ASSUME NEW p \in Handlers, StartList(p) \/ StartUpload(p) \/ EndUpload(p)
        PROVE  WritesPending'
    BY <1>2 DEF StartList, StartUpload, EndUpload, scanVars, uploadVars, Procs
  <1>3. ASSUME NEW p \in Handlers, OpenTruncate(p) PROVE WritesPending'
    BY <1>3 DEF OpenTruncate, uploadVars, Procs
  <1>4. ASSUME NEW p \in Handlers, WriteBody(p) PROVE WritesPending'
    BY <1>4 DEF WriteBody, Procs
  <1>5. ASSUME NEW p \in Handlers, SkipFile(p) PROVE WritesPending'
    BY <1>5 DEF SkipFile, Procs
  <1>6. ASSUME NEW p \in Procs, BeginScan(p) \/ ReRead(p) PROVE WritesPending'
    BY <1>6 DEF BeginScan, ReRead, uploadVars
  <1>12. ASSUME NEW p \in Procs, Compare(p) \/ Install(p) PROVE WritesPending'
    <2>1. UNCHANGED <<todo, pending>>
      BY <1>12 DEF Compare, Install, scanVars, uploadVars
    <2>2. pc'[p] # "write" /\ \A q \in Procs \ {p} : pc'[q] = pc[q]
      BY <1>12 DEF Compare, Install
    <2>3. QED
      BY <2>1, <2>2
  <1>7. ASSUME NEW p \in Procs, Stat(p) PROVE WritesPending'
    BY <1>7 DEF Stat, uploadVars
  <1>8. ASSUME NEW p \in Procs, Read(p) PROVE WritesPending'
    BY <1>8 DEF Read, uploadVars
  <1>9. ASSUME NEW p \in Procs, Respond(p) PROVE WritesPending'
    BY <1>9 DEF Respond
  <1>10. CASE Crash
    BY <1>10 DEF Crash, Boot, Procs
  <1>11. CASE \E f \in Files : EditorRemoves(f) \/ \E b \in Bodies : EditorWrites(f, b)
    BY <1>11 DEF EditorRemoves, EditorWrites, scanVars, uploadVars
  <1>13. QED
    BY <1>1, <1>2, <1>3, <1>4, <1>5, <1>6, <1>7, <1>8, <1>9, <1>10, <1>11, <1>12
    DEF Next, Upload, Scan, vars, scanVars, uploadVars

\* In every reachable state the directory, the cache and the goroutines' locals
\* are of the types the code gives them.
THEOREM TypeCorrect == Spec => [](TypeOK /\ WritesPending)
  <1>1. Init => TypeOK /\ WritesPending
    BY TypeInit DEF Init, WritesPending, Boot, Procs
  <1>2. QED
    BY <1>1, TypeStep, WritesPendingStep, PTL DEF Spec

-----------------------------------------------------------------------------
(* What a step may do to the directory, to the cache and to a scan's maps  *)

LEMMA DiskStep ==
    ASSUME TypeOK, ~CoarseClock, [Next]_vars
    PROVE  /\ clock' \in Nat /\ clock <= clock'
           /\ \A f \in Files :
                \/ disk'[f] = disk[f]
                \/ disk'[f] = Absent
                \/ /\ disk'[f] = [mtime |-> clock', body |-> disk'[f].body]
                   /\ clock < clock'
  <1> USE DEF TypeOK
  <1> DEFINE Goal ==
        /\ clock' \in Nat /\ clock <= clock'
        /\ \A f \in Files :
             \/ disk'[f] = disk[f]
             \/ disk'[f] = Absent
             \/ /\ disk'[f] = [mtime |-> clock', body |-> disk'[f].body]
                /\ clock < clock'
  <1>1. CASE UNCHANGED diskVars
    BY <1>1 DEF diskVars
  <1>2. ASSUME NEW f \in Files, NEW b, Put(f, b) PROVE Goal
    BY <1>2 DEF Put, Stamps
  <1>3. ASSUME NEW f \in Files, Remove(f) PROVE Goal
    BY <1>3 DEF Remove, Stamps
  <1>4. ASSUME NEW p \in Handlers, OpenTruncate(p) PROVE Goal
    BY <1>2, <1>4 DEF OpenTruncate
  <1>5. ASSUME NEW p \in Handlers, WriteBody(p) PROVE Goal
    <2>1. PICK f \in todo[p] :
              IF p \in orphaned THEN UNCHANGED <<diskVars, quiet>>
              ELSE Put(f, pending[p][f])
      BY <1>5 DEF WriteBody
    <2>2. f \in Files
      BY DEF Procs
    <2>3. CASE p \in orphaned
      BY <1>1, <2>1, <2>3
    <2>4. CASE p \notin orphaned
      BY <1>2, <2>1, <2>2, <2>4
    <2>5. QED
      BY <2>3, <2>4
  <1>6. ASSUME NEW f \in Files,
               EditorRemoves(f) \/ \E b \in Bodies : EditorWrites(f, b)
        PROVE  Goal
    BY <1>2, <1>3, <1>6 DEF EditorRemoves, EditorWrites
  <1>7. ASSUME NEW p \in Handlers,
               StartList(p) \/ StartUpload(p) \/ SkipFile(p) \/ EndUpload(p)
        PROVE  UNCHANGED diskVars
    BY <1>7 DEF StartList, StartUpload, SkipFile, EndUpload
  <1>8. ASSUME NEW p \in Procs, Scan(p) PROVE UNCHANGED diskVars
    BY <1>8 DEF Scan, BeginScan, Stat, Compare, ReRead, Read, Install, Respond
  <1>9. CASE Crash
    BY <1>1, <1>9 DEF Crash
  <1>10. QED
    BY <1>1, <1>4, <1>5, <1>6, <1>7, <1>8, <1>9 DEF Next, Upload, vars

LEMMA CacheStep ==
    ASSUME [Next]_vars
    PROVE  \/ UNCHANGED cacheVars
           \/ docsContent' = NoFiles /\ docMeta' = NoFiles
           \/ \E p \in Procs : Install(p)
  <1>1. ASSUME NEW p \in Handlers, StartList(p) \/ StartUpload(p) \/ Upload(p)
        PROVE  UNCHANGED cacheVars
    BY <1>1 DEF StartList, StartUpload, Upload, OpenTruncate, WriteBody, SkipFile,
                EndUpload
  <1>2. ASSUME NEW p \in Procs, Scan(p), ~Install(p) PROVE UNCHANGED cacheVars
    BY <1>2 DEF Scan, BeginScan, Stat, Compare, ReRead, Read, Respond
  <1>3. ASSUME NEW f \in Files,
               EditorRemoves(f) \/ \E b \in Bodies : EditorWrites(f, b)
        PROVE  UNCHANGED cacheVars
    BY <1>3 DEF EditorRemoves, EditorWrites
  <1>4. QED
    BY <1>1, <1>2, <1>3 DEF Next, vars, Crash

LEMMA LocalStep ==
    ASSUME TypeOK, [Next]_vars, NEW p \in Procs
    PROVE  \/ current'[p] = current[p] /\ content'[p] = content[p]
           \/ current'[p] = NoFiles /\ content'[p] = NoFiles
           \/ Stat(p)
           \/ Read(p)
  <1> USE DEF TypeOK
  <1>1. ASSUME NEW q \in Handlers, StartList(q) \/ StartUpload(q) \/ Upload(q)
        PROVE  UNCHANGED <<current, content>>
    BY <1>1 DEF StartList, StartUpload, Upload, OpenTruncate, WriteBody, SkipFile,
                EndUpload, scanVars
  <1>2. ASSUME NEW q \in Procs,
               BeginScan(q) \/ Compare(q) \/ ReRead(q) \/ Install(q)
        PROVE  UNCHANGED <<current, content>>
    BY <1>2 DEF BeginScan, Compare, ReRead, Install, scanVars
  <1>3. ASSUME NEW q \in Procs, Stat(q) \/ Read(q), q # p
        PROVE  current'[p] = current[p] /\ content'[p] = content[p]
    BY <1>3 DEF Stat, Read
  <1>4. ASSUME NEW q \in Procs, Respond(q)
        PROVE  \/ current'[p] = current[p] /\ content'[p] = content[p]
               \/ current'[p] = NoFiles /\ content'[p] = NoFiles
    BY <1>4 DEF Respond
  <1>5. ASSUME NEW f \in Files,
               EditorRemoves(f) \/ \E b \in Bodies : EditorWrites(f, b)
        PROVE  UNCHANGED <<current, content>>
    BY <1>5 DEF EditorRemoves, EditorWrites, scanVars
  <1>6. CASE Crash
    BY <1>6 DEF Crash
  <1>7. QED
    BY <1>1, <1>2, <1>3, <1>4, <1>5, <1>6 DEF Next, Scan, vars, scanVars

-----------------------------------------------------------------------------
(* Each part of FreshInv is preserved                                      *)

LEMMA MetaNotAbsent ==
    ASSUME NEW d \in DiskFile
    PROVE  MetaOf(d) # Absent /\ MetaOf(d).modTime = d.mtime
  BY AbsentAssumption DEF MetaOf, DiskFile, Size

LEMMA NewMetaStamped ==
    ASSUME TypeOK, StampsBounded, NEW p \in Procs, NEW f \in Files,
           NewMeta(p)[f] # Absent
    PROVE  content[p][f] # Absent /\ NewMeta(p)[f].modTime <= clock
  BY DEF TypeOK, StampsBounded, NewMeta, ZeroMeta

LEMMA StampsBoundedStep ==
    ASSUME TypeOK, StampsBounded, ~CoarseClock, [Next]_vars
    PROVE  StampsBounded'
  <1> USE DEF TypeOK
  <1>1. clock' \in Nat /\ clock <= clock'
    BY DiskStep
  <1>2. ASSUME NEW f \in Files, disk'[f] # Absent
        PROVE  0 < disk'[f].mtime /\ disk'[f].mtime <= clock'
    <2>1. disk'[f] = disk[f] \/ (clock < clock' /\ disk'[f].mtime = clock')
      <3>1. \/ disk'[f] = disk[f]
            \/ /\ disk'[f] = [mtime |-> clock', body |-> disk'[f].body]
               /\ clock < clock'
        BY <1>2, DiskStep
      <3>2. QED
        BY <3>1
    <2>2. CASE disk'[f] = disk[f]
      <3>1. disk[f].mtime \in Nat /\ 0 < disk[f].mtime /\ disk[f].mtime <= clock
        BY <1>2, <2>2 DEF StampsBounded, DiskFile
      <3>2. QED
        BY <1>1, <2>2, <3>1
    <2>3. QED
      BY <1>1, <2>1, <2>2
  <1>3. ASSUME NEW f \in Files, docMeta'[f] # Absent
        PROVE  docMeta'[f].modTime <= clock'
    <2>1. CASE UNCHANGED cacheVars
      BY <1>1, <1>3, <2>1 DEF cacheVars, StampsBounded, DocMeta
    <2>2. CASE docMeta' = NoFiles
      BY <1>3, <2>2 DEF NoFiles
    <2>3. ASSUME NEW p \in Procs, Install(p) PROVE docMeta'[f].modTime <= clock'
      <3>1. docMeta'[f] = NewMeta(p)[f] /\ clock' = clock
        BY <2>3 DEF Install, diskVars
      <3>2. QED
        BY <1>3, <3>1, NewMetaStamped
    <2>4. QED
      BY <2>1, <2>2, <2>3, CacheStep
  <1>4. ASSUME NEW p \in Procs, NEW f \in Files, current'[p][f] # Absent
        PROVE  current'[p][f].modTime <= clock'
    <2>1. CASE current'[p] = current[p]
      BY <1>1, <1>4, <2>1 DEF StampsBounded, DocMeta
    <2>2. CASE current'[p] = NoFiles
      BY <1>4, <2>2 DEF NoFiles
    <2>3. CASE Stat(p)
      <3>1. current'[p][f] = current[p][f]
            \/ (disk[f] # Absent /\ current'[p][f] = MetaOf(disk[f]))
        BY <1>4, <2>3 DEF Stat
      <3>2. CASE current'[p][f] = current[p][f]
        BY <1>1, <1>4, <3>2 DEF StampsBounded, DocMeta
      <3>3. CASE disk[f] # Absent /\ current'[p][f] = MetaOf(disk[f])
        <4>1. disk[f] \in DiskFile /\ disk[f].mtime <= clock
          BY <3>3 DEF StampsBounded
        <4>2. QED
          BY <1>1, <3>3, <4>1, MetaNotAbsent DEF DiskFile
      <3>4. QED
        BY <3>1, <3>2, <3>3
    <2>4. CASE Read(p)
      BY <2>1, <2>4 DEF Read
    <2>5. QED
      BY <2>1, <2>2, <2>3, <2>4, LocalStep
  <1>5. QED
    BY <1>2, <1>3, <1>4 DEF StampsBounded

LEMMA LocalsEmptyStep ==
    ASSUME TypeOK, LocalsEmpty, [Next]_vars
    PROVE  LocalsEmpty'
  <1> USE DEF TypeOK, LocalsEmpty
  <1>1. CASE UNCHANGED <<pc, current, content>>
    BY <1>1
  <1>2. ASSUME NEW p \in Handlers, StartList(p) PROVE LocalsEmpty'
    BY <1>2 DEF StartList, scanVars, Procs
  <1>3. ASSUME NEW p \in Handlers, StartUpload(p) PROVE LocalsEmpty'
    BY <1>3 DEF StartUpload, scanVars, Procs
  <1>4. ASSUME NEW p \in Handlers, OpenTruncate(p) \/ WriteBody(p) \/ SkipFile(p)
        PROVE  LocalsEmpty'
    <2>1. UNCHANGED <<current, content>>
      BY <1>4 DEF OpenTruncate, WriteBody, SkipFile
    <2>2. /\ pc[p] \in {"open", "write"} /\ pc'[p] \in {"open", "write"}
          /\ \A q \in Procs \ {p} : pc'[q] = pc[q]
      BY <1>4 DEF OpenTruncate, WriteBody, SkipFile, Procs
    <2>3. p \in Procs
      BY DEF Procs
    <2>4. QED
      BY <2>1, <2>2, <2>3
  <1>5. ASSUME NEW p \in Handlers, EndUpload(p) PROVE LocalsEmpty'
    BY <1>5 DEF EndUpload, scanVars, Procs
  <1>6. ASSUME NEW p \in Procs, BeginScan(p) PROVE LocalsEmpty'
    BY <1>6 DEF BeginScan
  <1>7. ASSUME NEW p \in Procs, Stat(p) PROVE LocalsEmpty'
    BY <1>7 DEF Stat
  <1>8. ASSUME NEW p \in Procs, Compare(p) PROVE LocalsEmpty'
    BY <1>8 DEF Compare, scanVars
  <1>9. ASSUME NEW p \in Procs, ReRead(p) PROVE LocalsEmpty'
    BY <1>9 DEF ReRead
  <1>10. ASSUME NEW p \in Procs, Read(p) PROVE LocalsEmpty'
    BY <1>10 DEF Read
  <1>11. ASSUME NEW p \in Procs, Install(p) PROVE LocalsEmpty'
    BY <1>11 DEF Install, scanVars
  <1>12. ASSUME NEW p \in Procs, Respond(p) PROVE LocalsEmpty'
    BY <1>12 DEF Respond
  <1>13. CASE \E f \in Files : EditorRemoves(f) \/ \E b \in Bodies : EditorWrites(f, b)
    BY <1>1, <1>13 DEF EditorRemoves, EditorWrites, scanVars
  <1>14. CASE Crash
    BY <1>14 DEF Crash, Boot
  <1>15. QED
    BY <1>1, <1>2, <1>3, <1>4, <1>5, <1>6, <1>7, <1>8, <1>9, <1>10, <1>11, <1>12,
       <1>13, <1>14
    DEF Next, Upload, Scan, vars, scanVars

LEMMA ReadsCurrentStep ==
    ASSUME TypeOK, StampsBounded, LocalsEmpty, ReadsCurrent, ~CoarseClock, [Next]_vars
    PROVE  ReadsCurrent'
  <1> USE DEF TypeOK
  <1> SUFFICES ASSUME NEW p \in Procs, NEW f \in Files,
                      content'[p][f] # Absent, disk'[f] # Absent,
                      NewMeta(p)'[f] = MetaOf(disk'[f])
               PROVE  content'[p][f] = disk'[f].body
    BY DEF ReadsCurrent
  <1>1. CASE current'[p] = current[p] /\ content'[p] = content[p]
    <2>1. NewMeta(p)'[f] = NewMeta(p)[f]
      BY <1>1 DEF NewMeta
    <2>2. CASE disk'[f] = disk[f]
      BY <1>1, <2>1, <2>2 DEF ReadsCurrent
    <2>3. ASSUME disk'[f] = [mtime |-> clock', body |-> disk'[f].body], clock < clock'
          PROVE  FALSE
      <3>1. MetaOf(disk'[f]).modTime = clock'
        BY <2>3 DEF MetaOf
      <3>2. NewMeta(p)[f] # Absent
        BY <1>1, AbsentAssumption DEF NewMeta, ZeroMeta, DocMeta
      <3>3. NewMeta(p)[f].modTime <= clock /\ NewMeta(p)[f] \in DocMeta
        BY <3>2, NewMetaStamped, NewMetaType
      <3>4. QED
        BY <2>1, <2>3, <3>1, <3>3, DiskStep DEF DocMeta
    <2>4. QED
      BY <2>2, <2>3, DiskStep
  <1>2. CASE content'[p] = NoFiles
    BY <1>2 DEF NoFiles
  <1>3. CASE Stat(p)
    <2>1. content' = content /\ content[p] = NoFiles
      BY <1>3 DEF Stat, LocalsEmpty
    <2>2. QED
      BY <2>1 DEF NoFiles
  <1>4. CASE Read(p)
    <2>1. disk' = disk /\ current' = current
      BY <1>4 DEF Read, diskVars
    <2>2. content'[p][f] = disk[f].body \/ content'[p][f] = content[p][f]
      BY <1>4 DEF Read
    <2>3. CASE content'[p][f] = content[p][f]
      <3>1. NewMeta(p)'[f] = NewMeta(p)[f]
        BY <2>1, <2>3 DEF NewMeta
      <3>2. QED
        BY <2>1, <2>3, <3>1 DEF ReadsCurrent
    <2>4. QED
      BY <2>1, <2>2, <2>3
  <1>5. QED
    BY <1>1, <1>2, <1>3, <1>4, LocalStep

LEMMA FreshMetaStep ==
    ASSUME TypeOK, StampsBounded, ReadsCurrent, FreshMetaFreshContent,
           ~CoarseClock, [Next]_vars, TypeOK'
    PROVE  FreshMetaFreshContent'
  <1> USE DEF TypeOK
  <1> SUFFICES ASSUME NEW f \in Files, disk'[f] # Absent, docMeta'[f] = MetaOf(disk'[f])
               PROVE  docsContent'[f] = disk'[f].body
    BY DEF FreshMetaFreshContent, Reflects
  <1>1. docMeta'[f] # Absent /\ docMeta'[f].modTime = disk'[f].mtime
    BY MetaNotAbsent
  <1>2. CASE UNCHANGED cacheVars
    <2>1. docMeta[f] = docMeta'[f] /\ docsContent[f] = docsContent'[f]
      BY <1>2 DEF cacheVars
    <2>2. CASE disk'[f] = disk[f]
      BY <2>1, <2>2 DEF FreshMetaFreshContent, Reflects
    <2>3. ASSUME disk'[f] = [mtime |-> clock', body |-> disk'[f].body], clock < clock'
          PROVE  FALSE
      <3>1. docMeta[f].modTime <= clock /\ docMeta[f] \in DocMeta
        BY <1>1, <2>1 DEF StampsBounded
      <3>2. QED
        BY <1>1, <2>1, <2>3, <3>1, DiskStep DEF DocMeta
    <2>4. QED
      BY <2>2, <2>3, DiskStep
  <1>3. CASE docMeta' = NoFiles
    BY <1>1, <1>3 DEF NoFiles
  <1>4. ASSUME NEW p \in Procs, Install(p) PROVE docsContent'[f] = disk'[f].body
    <2>1. disk' = disk /\ docMeta'[f] = NewMeta(p)[f] /\ docsContent'[f] = content[p][f]
      BY <1>4 DEF Install, diskVars
    <2>2. content[p][f] # Absent
      BY <1>1, <2>1, NewMetaStamped
    <2>3. QED
      BY <2>1, <2>2 DEF ReadsCurrent
  <1>5. QED
    BY <1>2, <1>3, <1>4, CacheStep

LEMMA FreshInvInit == Init => FreshInv
  <1> SUFFICES ASSUME Init PROVE FreshInv
    OBVIOUS
  <1>1. TypeOK /\ WritesPending
    BY TypeInit DEF Init, WritesPending, Boot, Procs
  <1>2. StampsBounded /\ LocalsEmpty /\ ReadsCurrent
    BY DEF Init, StampsBounded, LocalsEmpty, ReadsCurrent, NoFiles
  <1>3. FreshMetaFreshContent
    BY <1>1, MetaNotAbsent DEF Init, FreshMetaFreshContent, NoFiles, TypeOK
  <1>4. QED
    BY <1>1, <1>2, <1>3 DEF FreshInv

LEMMA FreshInvStep == ~CoarseClock /\ FreshInv /\ [Next]_vars => FreshInv'
  BY TypeStep, WritesPendingStep, StampsBoundedStep, LocalsEmptyStep,
     ReadsCurrentStep, FreshMetaStep
  DEF FreshInv

\* Skipping unchanged files is safe: if no two writes share an mtime, then a file
\* whose cached metadata equals the metadata on disk has its current bytes in the
\* cache, however scans, uploads, edits and restarts interleave.
THEOREM SkippingIsSafe ==
    ASSUME ~CoarseClock
    PROVE  Spec => []FreshMetaFreshContent
  <1>1. Init => FreshInv
    BY FreshInvInit
  <1>2. FreshInv /\ [Next]_vars => FreshInv'
    BY FreshInvStep
  <1>3. FreshInv => FreshMetaFreshContent
    BY DEF FreshInv
  <1>4. QED
    BY <1>1, <1>2, <1>3, PTL DEF Spec

-----------------------------------------------------------------------------
(* A scan that runs alone is exact                                         *)

\* The comparison of scanDocs, a count and a look-up of each new key, says
\* "changed" exactly when the two maps differ.
LEMMA ChangedExact ==
    ASSUME TypeOK, NEW cur \in [Files -> DocMeta \cup {Absent}]
    PROVE  Changed(cur) <=> cur # docMeta
  <1>1. IsFiniteSet(Keys(docMeta))
    BY FilesAssumption, FS_Subset DEF Keys
  <1>2. ASSUME ~Changed(cur) PROVE cur = docMeta
    <2>1. Keys(cur) \subseteq Keys(docMeta)
      BY <1>2 DEF Changed, Keys
    <2>2. Keys(cur) = Keys(docMeta)
      BY <1>1, <1>2, <2>1, FS_Subset DEF Changed
    <2>3. \A f \in Files : cur[f] = docMeta[f]
      BY <1>2, <2>2 DEF Changed, Keys
    <2>4. QED
      BY <2>3 DEF TypeOK
  <1>3. ASSUME cur = docMeta PROVE ~Changed(cur)
    BY <1>3 DEF Changed, Keys
  <1>4. QED
    BY <1>2, <1>3

LEMMA SameKeysStep ==
    ASSUME TypeOK, SameKeys, [Next]_vars
    PROVE  SameKeys'
  <1>1. CASE UNCHANGED cacheVars
    BY <1>1 DEF SameKeys, cacheVars
  <1>2. CASE docsContent' = NoFiles /\ docMeta' = NoFiles
    BY <1>2 DEF SameKeys, NoFiles
  <1>3. ASSUME NEW p \in Procs, Install(p) PROVE SameKeys'
    BY <1>3, AbsentAssumption DEF Install, SameKeys, NewMeta, ZeroMeta
  <1>4. QED
    BY <1>1, <1>2, <1>3, CacheStep

InScan == {"stat", "reread", "read", "respond"}

\* Steps by requests that are not scanning leave what quiet scans saw as it was.
LEMMA QuietFrame ==
    ASSUME TypeOK, QuietSeen,
           \A q \in Procs :
                \/ pc'[q] = pc[q] /\ todo'[q] = todo[q]
                \/ pc[q] \notin InScan /\ pc'[q] \notin InScan,
           UNCHANGED <<docsContent, current, content>>,
           \A q \in Procs : quiet'[q] \subseteq quiet[q],
           \A q \in Procs : \A f \in quiet'[q] : disk'[f] = disk[f]
    PROVE  QuietSeen'
  <1> SUFFICES ASSUME NEW q \in Procs, quiet'[q] # {}
               PROVE  /\ pc'[q] \in InScan
                      /\ \A r \in Procs \ {q} : pc'[r] \notin InScan
                      /\ \A f \in quiet'[q] :
                          /\ pc'[q] = "stat" =>
                              IF f \in todo'[q] THEN disk'[f] # Absent
                              ELSE current'[q][f] = MetaOnDisk(f)'
                          /\ pc'[q] = "read" =>
                              IF f \in todo'[q] THEN disk'[f] # Absent
                              ELSE content'[q][f] = BodyOnDisk(f)'
                          /\ pc'[q] = "respond" => Reflects(f)'
    BY DEF QuietSeen, InScan
  <1>1. quiet[q] # {} /\ pc[q] \in InScan
    BY DEF QuietSeen, InScan
  <1>2. pc'[q] \in InScan /\ \A r \in Procs \ {q} : pc'[r] \notin InScan
    BY <1>1 DEF QuietSeen, InScan
  <1>3. ASSUME NEW f \in quiet'[q]
        PROVE  /\ pc'[q] = "stat" =>
                   IF f \in todo'[q] THEN disk'[f] # Absent
                   ELSE current'[q][f] = MetaOnDisk(f)'
               /\ pc'[q] = "read" =>
                   IF f \in todo'[q] THEN disk'[f] # Absent
                   ELSE content'[q][f] = BodyOnDisk(f)'
               /\ pc'[q] = "respond" => Reflects(f)'
    <2>1. f \in quiet[q] /\ disk'[f] = disk[f] /\ pc'[q] = pc[q] /\ todo'[q] = todo[q]
      BY <1>1, <1>3
    <2>2. /\ MetaOnDisk(f)' = MetaOnDisk(f)
          /\ BodyOnDisk(f)' = BodyOnDisk(f)
          /\ Reflects(f)' = Reflects(f)
      BY <2>1 DEF MetaOnDisk, BodyOnDisk, Reflects
    <2>3. QED
      BY <2>1, <2>2 DEF QuietSeen
  <1>4. QED
    BY <1>2, <1>3

LEMMA PutQuiet ==
    ASSUME TypeOK, NEW f \in Files,
           (\E b : Put(f, b)) \/ Remove(f)
    PROVE  /\ \A q \in Procs : quiet'[q] \subseteq quiet[q]
           /\ \A q \in Procs : \A g \in quiet'[q] : disk'[g] = disk[g]
  BY DEF TypeOK, Put, Remove

LEMMA QuietRequest ==
    ASSUME TypeOK, QuietSeen, NEW p \in Handlers,
           StartList(p) \/ StartUpload(p) \/ Upload(p)
    PROVE  QuietSeen'
  <1> USE DEF TypeOK, InScan
  <1>1. p \in Procs
    BY DEF Procs
  <1>2. /\ pc[p] \notin InScan /\ pc'[p] \notin InScan
        /\ \A q \in Procs \ {p} : pc'[q] = pc[q] /\ todo'[q] = todo[q]
        /\ UNCHANGED <<docsContent, current, content>>
    BY <1>1 DEF StartList, StartUpload, Upload, OpenTruncate, WriteBody, SkipFile,
                EndUpload, scanVars, cacheVars
  <1>3. /\ \A q \in Procs : quiet'[q] \subseteq quiet[q]
        /\ \A q \in Procs : \A f \in quiet'[q] : disk'[f] = disk[f]
    <2>1. CASE StartList(p) \/ StartUpload(p) \/ SkipFile(p) \/ EndUpload(p)
      <3>1. UNCHANGED <<disk, quiet>>
        BY <2>1 DEF StartList, StartUpload, SkipFile, EndUpload, diskVars
      <3>2. QED
        BY <3>1
    <2>2. CASE OpenTruncate(p)
      <3>1. PICK f \in Files : Put(f, Empty)
        BY <2>2 DEF OpenTruncate
      <3>2. QED
        BY <3>1, PutQuiet
    <2>3. CASE WriteBody(p)
      <3>1. PICK f \in todo[p] :
                IF p \in orphaned THEN UNCHANGED <<diskVars, quiet>>
                ELSE Put(f, pending[p][f])
        BY <2>3 DEF WriteBody
      <3>2. CASE p \in orphaned
        BY <3>1, <3>2 DEF diskVars
      <3>3. CASE p \notin orphaned
        BY <1>1, <3>1, <3>3, PutQuiet
      <3>4. QED
        BY <3>2, <3>3
    <2>4. QED
      BY <2>1, <2>2, <2>3 DEF Upload
  <1>4. ASSUME NEW q \in Procs
        PROVE  \/ pc'[q] = pc[q] /\ todo'[q] = todo[q]
               \/ pc[q] \notin InScan /\ pc'[q] \notin InScan
    BY <1>2
  <1>5. UNCHANGED <<docsContent, current, content>>
    BY <1>2
  <1> HIDE DEF TypeOK, InScan
  <1>6. QED
    BY <1>3, <1>4, <1>5, QuietFrame

LEMMA QuietEditor ==
    ASSUME TypeOK, QuietSeen, NEW f \in Files,
           EditorRemoves(f) \/ \E b \in Bodies : EditorWrites(f, b)
    PROVE  QuietSeen'
  <1>1. UNCHANGED <<pc, todo, docsContent, current, content>>
    BY DEF EditorRemoves, EditorWrites, cacheVars, scanVars
  <1>2. (\E b : Put(f, b)) \/ Remove(f)
    BY DEF EditorRemoves, EditorWrites
  <1>3. /\ \A q \in Procs : quiet'[q] \subseteq quiet[q]
        /\ \A q \in Procs : \A g \in quiet'[q] : disk'[g] = disk[g]
    BY <1>2, PutQuiet
  <1>4. \A q \in Procs : pc'[q] = pc[q] /\ todo'[q] = todo[q]
    BY <1>1
  <1>5. UNCHANGED <<docsContent, current, content>>
    BY <1>1
  <1>6. QED
    BY <1>3, <1>4, <1>5, QuietFrame

\* While a file stays quiet, no other goroutine takes a step of a scan.
LEMMA QuietAlone ==
    ASSUME QuietSeen, NEW p \in Procs, quiet[p] # {},
           NEW q \in Procs, pc[q] \in InScan
    PROVE  q = p
  BY DEF QuietSeen, InScan

LEMMA QuietBegin ==
    ASSUME TypeOK, LocalsEmpty, NEW p \in Procs, BeginScan(p)
    PROVE  QuietSeen'
  <1> USE DEF TypeOK
  <1> SUFFICES ASSUME NEW q \in Procs, quiet'[q] # {}
               PROVE  /\ pc'[q] = "stat"
                      /\ \A r \in Procs \ {q} : pc'[r] \notin InScan
                      /\ \A f \in Files : IF f \in todo'[q] THEN disk'[f] # Absent
                                          ELSE current'[q][f] = MetaOnDisk(f)'
    BY DEF QuietSeen, InScan, BeginScan
  <1>1. q = p /\ ~ \E r \in Procs \ {p} : Scanning(r)
    BY DEF BeginScan
  <1>2. pc'[q] = "stat" /\ \A r \in Procs \ {q} : pc'[r] \notin InScan
    BY <1>1 DEF BeginScan, Scanning, ScanStates, InScan
  <1>3. current[p] = NoFiles
    BY DEF LocalsEmpty, BeginScan
  <1>4. \A f \in Files : IF f \in todo'[q] THEN disk'[f] # Absent
                         ELSE current'[q][f] = MetaOnDisk(f)'
    BY <1>1, <1>3 DEF BeginScan, OnDisk, MetaOnDisk, NoFiles, diskVars
  <1>5. QED
    BY <1>2, <1>4

\* A step inside the one scan that has quiet files keeps its place alone.
LEMMA QuietScanStep ==
    ASSUME TypeOK, LocalsEmpty, SameKeys, FreshMetaFreshContent, QuietSeen,
           NEW p \in Procs,
           Stat(p) \/ Compare(p) \/ ReRead(p) \/ Read(p) \/ Install(p)
    PROVE  QuietSeen'
  <1> USE DEF TypeOK
  <1> DEFINE Seen(f) ==
        /\ pc[p] = "stat" =>
            IF f \in todo[p] THEN disk[f] # Absent ELSE current[p][f] = MetaOnDisk(f)
        /\ pc[p] = "read" =>
            IF f \in todo[p] THEN disk[f] # Absent ELSE content[p][f] = BodyOnDisk(f)
        /\ pc[p] = "respond" => Reflects(f)
  <1>1. pc[p] \in InScan /\ pc'[p] \in InScan
    <2>1. CASE Stat(p) \/ Read(p)
      BY <2>1 DEF Stat, Read, InScan
    <2>2. CASE Compare(p)
      BY <2>2 DEF Compare, InScan
    <2>3. CASE ReRead(p) \/ Install(p)
      BY <2>3 DEF ReRead, Install, InScan
    <2>4. QED
      BY <2>1, <2>2, <2>3
  <1>2. /\ UNCHANGED <<disk, quiet>>
        /\ \A q \in Procs \ {p} : pc'[q] = pc[q]
    BY DEF Stat, Compare, ReRead, Read, Install, diskVars
  <1>3. /\ \A f \in Files : MetaOnDisk(f)' = MetaOnDisk(f)
        /\ \A f \in Files : BodyOnDisk(f)' = BodyOnDisk(f)
    BY <1>2 DEF MetaOnDisk, BodyOnDisk
  <1> SUFFICES ASSUME NEW q \in Procs, quiet'[q] # {}
               PROVE  /\ pc'[q] \in InScan
                      /\ \A r \in Procs \ {q} : pc'[r] \notin InScan
                      /\ q = p
                      /\ \A f \in quiet'[q] : Seen(f)'
    BY DEF QuietSeen, InScan, Seen
  <1>4. q = p
    BY <1>1, <1>2, QuietAlone
  <1>5. \A r \in Procs \ {q} : pc'[r] \notin InScan
    BY <1>2, <1>4 DEF QuietSeen, InScan
  <1>6. ASSUME NEW f \in quiet[p] PROVE Seen(f)'
    <2>1. Seen(f) /\ f \in Files
      BY <1>2, <1>4, <1>6 DEF QuietSeen
    <2>2. CASE Stat(p)
      BY <1>2, <1>3, <2>1, <2>2 DEF Stat, MetaOnDisk
    <2>3. CASE Compare(p)
      <3>1. current[p][f] = MetaOnDisk(f)
        BY <2>1, <2>3 DEF Compare
      <3>2. ASSUME ~Changed(current[p]) PROVE Reflects(f)
        <4>1. docMeta[f] = MetaOnDisk(f)
          BY <3>1, <3>2, ChangedExact
        <4>2. CASE disk[f] = Absent
          BY <2>1, <4>1, <4>2 DEF MetaOnDisk, SameKeys, Reflects
        <4>3. CASE disk[f] # Absent
          BY <2>1, <4>1, <4>3 DEF MetaOnDisk, FreshMetaFreshContent
        <4>4. QED
          BY <4>2, <4>3
      <3>3. Reflects(f)' = Reflects(f)
        BY <1>2, <2>3 DEF Compare, cacheVars, Reflects
      <3>4. QED
        BY <2>3, <3>2, <3>3 DEF Compare
    <2>4. CASE ReRead(p)
      <3>1. content'[p] = NoFiles /\ pc'[p] = "read" /\ todo'[p] = OnDisk
        BY <2>4 DEF ReRead, LocalsEmpty
      <3>2. QED
        BY <1>2, <1>3, <2>1, <3>1 DEF OnDisk, BodyOnDisk, NoFiles
    <2>5. CASE Read(p)
      BY <1>2, <1>3, <2>1, <2>5 DEF Read, BodyOnDisk
    <2>6. CASE Install(p)
      BY <1>2, <2>1, <2>6 DEF Install, Reflects, BodyOnDisk
    <2>7. QED
      BY <2>2, <2>3, <2>4, <2>5, <2>6
  <1>7. QED
    BY <1>1, <1>2, <1>4, <1>5, <1>6

LEMMA QuietRespond ==
    ASSUME TypeOK, QuietSeen, NEW p \in Procs, Respond(p)
    PROVE  QuietSeen'
  <1> USE DEF TypeOK
  <1>1. \A q \in Procs : quiet'[q] = {}
    <2> SUFFICES ASSUME NEW q \in Procs, quiet[q] # {} PROVE q = p
      BY DEF Respond
    <2>1. QED
      BY QuietAlone DEF Respond, InScan
  <1>2. QED
    BY <1>1 DEF QuietSeen

LEMMA QuietSeenStep ==
    ASSUME FreshInv, QuietInv, [Next]_vars
    PROVE  QuietSeen'
  <1> USE DEF FreshInv, QuietInv
  <1>1. CASE UNCHANGED vars
    BY <1>1 DEF QuietSeen, MetaOnDisk, BodyOnDisk, Reflects, vars, diskVars, cacheVars,
                scanVars
  <1>2. CASE \E p \in Handlers : StartList(p) \/ StartUpload(p) \/ Upload(p)
    BY <1>2, QuietRequest
  <1>3. ASSUME NEW p \in Procs, Scan(p) PROVE QuietSeen'
    BY <1>3, QuietBegin, QuietScanStep, QuietRespond DEF Scan
  <1>4. CASE \E f \in Files : EditorRemoves(f) \/ \E b \in Bodies : EditorWrites(f, b)
    BY <1>4, QuietEditor
  <1>5. CASE Crash
    BY <1>5 DEF Crash, QuietSeen
  <1>6. QED
    BY <1>1, <1>2, <1>3, <1>4, <1>5 DEF Next

\* If no two writes share an mtime, a scan that overlapped no other one ends with
\* the cache equal to the directory on each file nobody touched meanwhile.
THEOREM LoneScanIsExact ==
    ASSUME ~CoarseClock
    PROVE  Spec => []QuietScanReflectsDisk
  <1>1. Init => FreshInv /\ QuietInv
    BY FreshInvInit DEF Init, QuietInv, SameKeys, QuietSeen, NoFiles
  <1>2. FreshInv /\ QuietInv /\ [Next]_vars => (FreshInv /\ QuietInv)'
    <2>1. FreshInv /\ [Next]_vars => FreshInv'
      BY FreshInvStep
    <2>2. FreshInv /\ QuietInv /\ [Next]_vars => QuietInv'
      BY SameKeysStep, QuietSeenStep DEF FreshInv, QuietInv
    <2>3. QED
      BY <2>1, <2>2
  <1>3. QuietInv => QuietScanReflectsDisk
    BY DEF QuietInv, QuietSeen, QuietScanReflectsDisk
  <1>4. QED
    BY <1>1, <1>2, <1>3, PTL DEF Spec
=============================================================================
