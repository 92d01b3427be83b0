------------------------ MODULE MigrateChartsProofs ------------------------
(***************************************************************************)
(* Proofs about MigrateCharts, for any chart, any users' lines, options    *)
(* and bounds: type correctness, that a backup precedes what it is of,     *)
(* when plugin configs and values.yaml agree, what a clean report means,   *)
(* and that an annotation is lost only with the plugin config it is in.    *)
(***************************************************************************)
EXTENDS MigrateCharts, ChartTemplatesProofs

-----------------------------------------------------------------------------
(* The inductive invariant *)

\* What is read of a file: nothing, or one thing.
Brief(f) == f = <<>> \/ f = <<f[1]>>

FilesInv ==
    /\ files = [t \in Templates |-> files[t]]
    /\ \A t \in Templates :
        /\ Brief(files[t])
        /\ files[t] # <<>> => IsTemplate(files[t][1])
    /\ bak = [t \in Templates |-> bak[t]]
    /\ \A t \in Templates : Brief(bak[t])
    /\ Brief(plugins) /\ Brief(bakPlugins)

\* What a run has in hand is the template as it was before the run wrote it.
WorkInv ==
    /\ step \in {"backup", "template"} => work = files[Here]
    /\ step \notin {"idle", "read"} =>
        work = <<work[1]>> /\ IsTemplate(work[1]) /\ ~opts.dryRun
    /\ step \in {"savePlugins", "plugins", "values"} =>
        HasPlugins(work[1]) /\ files[Here] = <<Migrated(work[1])>>

\* What the rest of TypeOK says: of the plugin configs, and of the run.
NoEmptyConfig == \A p \in Range(plugins) \cup Range(bakPlugins) : p.plugins # {}
FlagsType ==
    /\ inChart \in BOOLEAN /\ warned \in BOOLEAN /\ unread \in BOOLEAN
    /\ opts \in Options
    /\ report \in {"none", "preview", "clean", "warned"}
PlaceType ==
    /\ step \in {"idle", "read", "backup", "template", "savePlugins", "plugins", "values"}
    /\ at \in 0 .. Len(Walk) /\ (at = 0 <=> step = "idle")
    /\ work # <<>> <=> step \notin {"idle", "read"}
    /\ faults \in 0 .. MaxFaults /\ edits \in 0 .. MaxEdits

BaseInv == TypeOK /\ FilesInv /\ WorkInv

-----------------------------------------------------------------------------
(* The walk, and the outcomes of a write *)

LEMMA WalkFacts ==
    /\ Len(Walk) \in Nat \ {0}
    /\ DOMAIN Walk = 1 .. Len(Walk)
    /\ \A i \in 1 .. Len(Walk) : Walk[i] \in Templates
  BY WalkAssumption DEF Templates, Range

LEMMA HereIsThere ==
    ASSUME TypeOK, step # "idle"
    PROVE  at \in 1 .. Len(Walk) /\ Here \in Templates
  BY WalkFacts DEF TypeOK, Here

LEMMA OutcomeCases ==
    ASSUME NEW old, NEW new, NEW o \in Outcomes(old, new)
    PROVE  /\ o.ok \in BOOLEAN
           /\ o.ok => o.now = new
           /\ ~o.ok => o.now \in {old, <<>>} /\ faults < MaxFaults
  <1>1. CASE o = [now |-> new, ok |-> TRUE]
    BY <1>1
  <1>2. CASE MayFail /\ o \in {[now |-> x, ok |-> FALSE] : x \in {old, <<>>}}
    <2>1. PICK x \in {old, <<>>} : o = [now |-> x, ok |-> FALSE]
      BY <1>2
    <2>2. QED
      BY <1>2, <2>1 DEF MayFail
  <1>3. QED
    BY <1>1, <1>2 DEF Outcomes

LEMMA CountStep ==
    ASSUME TypeOK, NEW ok \in BOOLEAN, ok \/ faults < MaxFaults, Count(ok)
    PROVE  /\ faults' \in 0 .. MaxFaults
           /\ faults' = 0 => ok /\ faults = 0
  BY RoomForAll DEF TypeOK, Count

\* After a template the walk goes on, or the run ends.
WalkedOn(w) ==
    /\ work' = <<>> /\ warned' \in BOOLEAN /\ opts' \in Options
    /\ report' \in {"none", "preview", "clean", "warned"}
    /\ at' \in 0 .. Len(Walk)
    /\ \/ /\ step' = "read" /\ at' = at + 1 /\ at < Len(Walk)
          /\ warned' = w /\ opts' = opts /\ report' = report
       \/ /\ step' = "idle" /\ at' = 0 /\ at = Len(Walk)
          /\ report' = Verdict(w)

LEMMA ContinueStep ==
    ASSUME TypeOK, step # "idle", NEW w \in BOOLEAN, Continue(w)
    PROVE  WalkedOn(w)
  <1>1. at \in 1 .. Len(Walk) /\ Len(Walk) \in Nat
    BY HereIsThere, WalkFacts
  <1>2. NoOptions \in Options
    BY DEF NoOptions, Options
  <1>3. CASE at < Len(Walk)
    <2>1. /\ at' = at + 1 /\ step' = "read" /\ work' = <<>> /\ warned' = w
          /\ opts' = opts /\ report' = report
      BY <1>3 DEF Continue
    <2>2. at' \in 0 .. Len(Walk)
      BY <1>1, <1>3, <2>1
    <2>3. warned' \in BOOLEAN
      BY <2>1
    <2>4. opts' \in Options /\ report' \in {"none", "preview", "clean", "warned"}
      BY <2>1 DEF TypeOK
    <2>5. QED
      BY <1>3, <2>1, <2>2, <2>3, <2>4 DEF WalkedOn
  <1>4. CASE ~(at < Len(Walk))
    <2>1. Stop /\ report' = Verdict(w) /\ at = Len(Walk)
      BY <1>1, <1>4 DEF Continue
    <2>2. Verdict(w) \in {"none", "preview", "clean", "warned"}
      BY DEF Verdict
    <2>3. step' = "idle" /\ at' = 0 /\ work' = <<>> /\ opts' \in Options /\ warned' = FALSE
      BY <1>2, <2>1 DEF Stop
    <2>4. at' \in 0 .. Len(Walk)
      BY <1>1, <2>3
    <2>5. report' \in {"none", "preview", "clean", "warned"}
      BY <2>1, <2>2
    <2>6. QED
      BY <2>1, <2>3, <2>4, <2>5 DEF WalkedOn
  <1>5. QED
    BY <1>3, <1>4

LEMMA WalkedOnBase ==
    ASSUME TypeOK, step # "idle", NEW w, WalkedOn(w), UNCHANGED <<inChart, edits>>,
           unread' \in BOOLEAN, faults' \in 0 .. MaxFaults
    PROVE  FlagsType' /\ PlaceType' /\ WorkInv'
  <1>1. at \in 1 .. Len(Walk)
    BY HereIsThere
  <1>2. FlagsType'
    BY DEF WalkedOn, FlagsType, TypeOK
  <1>3. step' \in {"idle", "read"} /\ (at' = 0 <=> step' = "idle") /\ work' = <<>>
    BY <1>1 DEF WalkedOn
  <1>4. at' \in 0 .. Len(Walk) /\ edits' \in 0 .. MaxEdits
    BY DEF WalkedOn, TypeOK
  <1>5. PlaceType'
    BY <1>3, <1>4 DEF PlaceType
  <1>6. WorkInv'
    BY <1>3 DEF WorkInv
  <1>7. QED
    BY <1>2, <1>5, <1>6

LEMMA StopStep ==
    ASSUME Stop
    PROVE  /\ step' = "idle" /\ at' = 0 /\ work' = <<>> /\ warned' = FALSE
           /\ opts' \in Options /\ at' \in 0 .. Len(Walk)
  BY WalkFacts DEF Stop, NoOptions, Options

\* The plugin config of a template is of some plugins, if there is one.
LEMMA ConfigType ==
    ASSUME NEW c, HasPlugins(c)
    PROVE  Config(c).plugins # {} /\ Config(c).plugins = Plugins(c) /\ Config(c).name = c.name
  BY DEF Config, HasPlugins

LEMMA BriefLen ==
    ASSUME NEW f, Brief(f)
    PROVE  /\ Len(f) <= 1
           /\ f = <<>> => Range(f) = {}
           /\ f # <<>> => Range(f) = {f[1]}
  <1>1. CASE f = <<>>
    BY <1>1 DEF Range
  <1>2. CASE f # <<>> /\ f = <<f[1]>>
    <2> DEFINE x == f[1]
    <2>1. f = <<x>>
      BY <1>2
    <2> HIDE DEF x
    <2>2. Len(f) = 1 /\ Range(f) = {x} /\ f # <<>>
      BY <2>1 DEF Range
    <2>3. QED
      BY <2>2 DEF x
  <1>3. QED
    BY <1>1, <1>2 DEF Brief

LEMMA BaseFromParts == FilesInv /\ NoEmptyConfig /\ FlagsType /\ PlaceType /\ WorkInv => BaseInv
  <1> SUFFICES ASSUME FilesInv, NoEmptyConfig, FlagsType, PlaceType, WorkInv
               PROVE  TypeOK
    BY DEF BaseInv
  <1>1. \A t \in Templates : Len(files[t]) <= 1 /\ Len(bak[t]) <= 1
    BY BriefLen DEF FilesInv
  <1>2. QED
    BY <1>1 DEF NoEmptyConfig, FlagsType, PlaceType, TypeOK

LEMMA BaseParts == BaseInv => FilesInv /\ NoEmptyConfig /\ FlagsType /\ PlaceType /\ WorkInv /\ TypeOK
  BY DEF BaseInv, TypeOK, NoEmptyConfig, FlagsType, PlaceType

LEMMA BriefOne == Brief(<<>>) /\ \A x : Brief(<<x>>)
  BY DEF Brief

-----------------------------------------------------------------------------
(* The base invariant, action by action *)

LEMMA InitBase == Init => BaseInv
  <1> SUFFICES ASSUME Init
               PROVE  BaseInv
    OBVIOUS
  <1>1. \A t \in Templates : files[t] = <<files[t][1]>> /\ files[t][1] \in Charts[t]
    <2> SUFFICES ASSUME NEW t \in Templates
                 PROVE  files[t] = <<files[t][1]>> /\ files[t][1] \in Charts[t]
      OBVIOUS
    <2>1. PICK S \in {{<<c>> : c \in Charts[u]} : u \in Templates} : files[t] \in S
      BY DEF Init
    <2>2. PICK u \in Templates : S = {<<c>> : c \in Charts[u]}
      BY <2>1
    <2>3. PICK c \in Charts[u] : files[t] = <<c>>
      BY <2>1, <2>2
    <2>4. files[t][1] \in Charts[t]
      BY DEF Init
    <2>5. QED
      BY <2>3, <2>4
  <1>2. FilesInv
    <2>1. files = [t \in Templates |-> files[t]]
      BY DEF Init
    <2>2. \A t \in Templates : Brief(files[t]) /\ (files[t] # <<>> => IsTemplate(files[t][1]))
      BY <1>1, ChartAssumption DEF Brief, Templates
    <2>3. QED
      BY <2>1, <2>2, BriefOne DEF Init, FilesInv
  <1>3. NoEmptyConfig
    BY DEF Init, NoEmptyConfig, Range
  <1>4. FlagsType /\ PlaceType
    <2>1. 0 \in 0 .. Len(Walk)
      BY WalkFacts
    <2>2. 0 \in 0 .. MaxFaults /\ 0 \in 0 .. MaxEdits
      BY RoomForAll
    <2>3. NoOptions \in Options
      BY DEF NoOptions, Options
    <2>4. QED
      BY <2>1, <2>2, <2>3 DEF Init, FlagsType, PlaceType
  <1>5. WorkInv
    BY DEF Init, WorkInv
  <1>6. QED
    BY <1>2, <1>3, <1>4, <1>5, BaseFromParts

\* What no step but a write changes.
LEMMA FilesStay ==
    ASSUME BaseInv, UNCHANGED <<files, bak, plugins, bakPlugins>>
    PROVE  FilesInv' /\ NoEmptyConfig'
  BY BaseParts DEF FilesInv, NoEmptyConfig, Brief

LEMMA StartRunBase == BaseInv /\ StartRun => BaseInv'
  <1> SUFFICES ASSUME BaseInv, StartRun
               PROVE  BaseInv'
    OBVIOUS
  <1>1. FilesInv' /\ NoEmptyConfig'
    BY FilesStay DEF StartRun, disk
  <1>2. FlagsType'
    BY BaseParts DEF StartRun, FlagsType
  <1>2a. PlaceType'
    <2>1. 1 \in 0 .. Len(Walk)
      BY WalkFacts
    <2>2. QED
      BY <2>1, BaseParts DEF StartRun, PlaceType
  <1>3. WorkInv'
    BY DEF StartRun, WorkInv
  <1>4. QED
    BY <1>1, <1>2, <1>2a, <1>3, BaseFromParts, PTL

LEMMA ReadAndSkipBase == BaseInv /\ ReadAndSkip => BaseInv'
  <1> SUFFICES ASSUME BaseInv, ReadAndSkip
               PROVE  BaseInv'
    OBVIOUS
  <1>1. TypeOK /\ FlagsType /\ PlaceType
    BY BaseParts
  <1>2. FilesInv' /\ NoEmptyConfig'
    BY FilesStay DEF ReadAndSkip, disk
  <1>3. faults' \in 0 .. MaxFaults
    <2>1. faults' = faults \/ (faults < MaxFaults /\ faults' = faults + 1)
      BY DEF ReadAndSkip, MayFail
    <2>2. QED
      BY <1>1, <2>1, RoomForAll DEF PlaceType
  <1>4. unread' \in BOOLEAN
    BY <1>1 DEF ReadAndSkip, FlagsType
  <1>5. step # "idle" /\ warned \in BOOLEAN /\ Continue(warned)
    BY <1>1 DEF ReadAndSkip, FlagsType
  <1>6. WalkedOn(warned)
    BY <1>1, <1>5, ContinueStep
  <1>7. FlagsType' /\ PlaceType' /\ WorkInv'
    <2>1. UNCHANGED <<inChart, edits>>
      BY DEF ReadAndSkip
    <2>2. QED
      BY <1>1, <1>3, <1>4, <1>5, <1>6, <2>1, WalkedOnBase
  <1>8. QED
    BY <1>2, <1>7, BaseFromParts, PTL

LEMMA Updated ==
    ASSUME NEW S, NEW f, f = [t \in S |-> f[t]], NEW s \in S, NEW v, NEW g,
           g = [f EXCEPT ![s] = v]
    PROVE  /\ g = [t \in S |-> g[t]] /\ g[s] = v
           /\ \A t \in S : t # s => g[t] = f[t]
  OBVIOUS

\* A step that leaves the run at its template.
LEMMA MidStepBase ==
    ASSUME TypeOK, step \notin {"idle", "read"},
           UNCHANGED <<inChart, edits, at, opts, work, report, unread>>,
           step' \in {"template", "savePlugins", "plugins", "values"},
           warned' \in BOOLEAN, faults' \in 0 .. MaxFaults
    PROVE  FlagsType' /\ PlaceType' /\ Here' = Here
  <1>1. FlagsType'
    BY DEF FlagsType, TypeOK
  <1>2. at' \in 0 .. Len(Walk) /\ edits' \in 0 .. MaxEdits /\ at' # 0 /\ work' # <<>>
    BY DEF TypeOK
  <1>3. PlaceType'
    BY <1>2 DEF PlaceType
  <1>4. QED
    BY <1>1, <1>3 DEF Here

LEMMA WarnedType ==
    ASSUME TypeOK, NEW ok \in BOOLEAN
    PROVE  Warned(ok) \in BOOLEAN
  BY DEF TypeOK, Warned

LEMMA ReadBase == BaseInv /\ Read => BaseInv'
  <1> SUFFICES ASSUME BaseInv, Read
               PROVE  BaseInv'
    OBVIOUS
  <1>1. TypeOK /\ FilesInv /\ FlagsType /\ PlaceType
    BY BaseParts
  <1>2. FilesInv' /\ NoEmptyConfig'
    BY FilesStay DEF Read, disk
  <1>3. at \in 1 .. Len(Walk) /\ Here \in Templates
    BY <1>1, HereIsThere DEF Read
  <1>4. files[Here] # <<>> /\ ~opts.dryRun
    BY DEF Read, ToMigrate, Range
  <1>5. work' = files[Here] /\ work' = <<work'[1]>> /\ work' # <<>> /\ IsTemplate(work'[1])
    BY <1>1, <1>3, <1>4 DEF Read, FilesInv, Brief
  <1>6. step' \in {"backup", "template"}
    BY DEF Read, FirstWrite
  <1>7. UNCHANGED <<disk, inChart, at, opts, warned, report, unread, faults, edits>>
    BY DEF Read, history
  <1>8. FlagsType'
    BY <1>1, <1>7 DEF FlagsType
  <1>9. PlaceType'
    BY <1>1, <1>3, <1>5, <1>6, <1>7 DEF PlaceType
  <1>10. WorkInv'
    <2>1. work' = files'[Here'] /\ ~opts'.dryRun
      BY <1>4, <1>5, <1>7 DEF disk, Here
    <2>2. QED
      BY <1>5, <1>6, <2>1 DEF WorkInv
  <1>11. QED
    BY <1>2, <1>8, <1>9, <1>10, BaseFromParts, PTL

LEMMA SaveTemplateBase == BaseInv /\ SaveTemplate => BaseInv'
  <1> SUFFICES ASSUME BaseInv, SaveTemplate
               PROVE  BaseInv'
    OBVIOUS
  <1>1. TypeOK /\ FilesInv /\ NoEmptyConfig /\ WorkInv
    BY BaseParts
  <1>2. PICK o \in Outcomes(bak[Here], work) :
            /\ bak' = [bak EXCEPT ![Here] = o.now]
            /\ warned' = Warned(o.ok)
            /\ Count(o.ok)
    BY DEF SaveTemplate
  <1>3. /\ step = "backup" /\ step' = "template"
        /\ UNCHANGED <<files, plugins, bakPlugins, values, inChart, at, opts, work, report, unread, edits>>
    BY DEF SaveTemplate, history
  <1>4. /\ o.ok \in BOOLEAN
        /\ o.ok => o.now = work
        /\ ~o.ok => o.now \in {bak[Here], <<>>} /\ faults < MaxFaults
    BY OutcomeCases
  <1>5. Here \in Templates
    BY <1>1, <1>3, HereIsThere
  <1>6. faults' \in 0 .. MaxFaults
    BY <1>1, <1>2, <1>4, CountStep
  <1>7. warned' \in BOOLEAN
    BY <1>1, <1>2, <1>4, WarnedType
  <1>8. FlagsType' /\ PlaceType' /\ Here' = Here
    BY <1>1, <1>3, <1>6, <1>7, MidStepBase
  <1>9. work = <<work[1]>> /\ IsTemplate(work[1]) /\ ~opts.dryRun /\ work = files[Here]
    BY <1>1, <1>3 DEF WorkInv
  <1>10. bak' = [t \in Templates |-> bak'[t]] /\ \A t \in Templates : Brief(bak'[t])
    <2>1. Brief(o.now)
      BY <1>1, <1>4, <1>5, <1>9, BriefOne DEF FilesInv
    <2>2. bak = [t \in Templates |-> bak[t]]
      BY <1>1 DEF FilesInv
    <2>3. /\ bak' = [t \in Templates |-> bak'[t]] /\ bak'[Here] = o.now
          /\ \A t \in Templates : t # Here => bak'[t] = bak[t]
      BY <1>2, <1>5, <2>2, Updated
    <2>4. QED
      BY <1>1, <2>1, <2>3 DEF FilesInv
  <1>11. FilesInv'
    BY <1>1, <1>3, <1>10 DEF FilesInv, Brief
  <1>12. NoEmptyConfig'
    BY <1>1, <1>3 DEF NoEmptyConfig
  <1>13. WorkInv'
    BY <1>3, <1>8, <1>9 DEF WorkInv
  <1>14. QED
    BY <1>8, <1>11, <1>12, <1>13, BaseFromParts, PTL

LEMMA WriteTemplateBase == BaseInv /\ WriteTemplate => BaseInv'
  <1> SUFFICES ASSUME BaseInv, WriteTemplate
               PROVE  BaseInv'
    OBVIOUS
  <1>1. TypeOK /\ FilesInv /\ NoEmptyConfig /\ WorkInv
    BY BaseParts
  <1>2. PICK o \in Outcomes(files[Here], <<Migrated(work[1])>>) :
            /\ files' = [files EXCEPT ![Here] = o.now]
            /\ Count(o.ok)
            /\ IF o.ok /\ HasPlugins(work[1])
               THEN /\ step' = IF opts.backup THEN "savePlugins" ELSE "plugins"
                    /\ UNCHANGED <<at, opts, work, warned, report>>
               ELSE Continue(Warned(o.ok))
    BY DEF WriteTemplate
  <1>3. /\ step = "template"
        /\ UNCHANGED <<bak, plugins, bakPlugins, values, inChart, unread, asked, edits>>
    BY DEF WriteTemplate
  <1>4. /\ o.ok \in BOOLEAN
        /\ o.ok => o.now = <<Migrated(work[1])>>
        /\ ~o.ok => o.now \in {files[Here], <<>>} /\ faults < MaxFaults
    BY OutcomeCases
  <1>5. Here \in Templates
    BY <1>1, <1>3, HereIsThere
  <1>6. faults' \in 0 .. MaxFaults
    BY <1>1, <1>2, <1>4, CountStep
  <1>7. work = <<work[1]>> /\ IsTemplate(work[1]) /\ ~opts.dryRun
    BY <1>1, <1>3 DEF WorkInv
  <1>8. /\ files' = [t \in Templates |-> files'[t]] /\ files'[Here] = o.now
        /\ \A t \in Templates : t # Here => files'[t] = files[t]
    BY <1>1, <1>2, <1>5, Updated DEF FilesInv
  <1>9. Brief(o.now) /\ (o.now # <<>> => IsTemplate(o.now[1]))
    <2>1. CASE o.ok
      <3>1. IsTemplate(Migrated(work[1]))
        BY <1>7, MigratedTemplate
      <3>2. o.now[1] = Migrated(work[1])
        BY <1>4, <2>1
      <3>3. QED
        BY <1>4, <2>1, <3>1, <3>2, BriefOne
    <2>2. CASE ~o.ok
      BY <1>1, <1>4, <1>5, <2>2, BriefOne DEF FilesInv
    <2>3. QED
      BY <1>4, <2>1, <2>2
  <1>10. FilesInv'
    <2>1. \A t \in Templates : Brief(files'[t]) /\ (files'[t] # <<>> => IsTemplate(files'[t][1]))
      BY <1>1, <1>8, <1>9 DEF FilesInv
    <2>2. QED
      BY <1>1, <1>3, <1>8, <2>1 DEF FilesInv, Brief
  <1>11. NoEmptyConfig'
    BY <1>1, <1>3 DEF NoEmptyConfig
  <1>12. Warned(o.ok) \in BOOLEAN
    BY <1>1, <1>4, WarnedType
  <1>13. CASE o.ok /\ HasPlugins(work[1])
    <2>1. step' \in {"savePlugins", "plugins"} /\ UNCHANGED <<at, opts, work, warned, report>>
      BY <1>2, <1>13
    <2>2. warned' \in BOOLEAN
      BY <1>1, <2>1 DEF TypeOK
    <2>3. FlagsType' /\ PlaceType' /\ Here' = Here
      BY <1>1, <1>3, <1>6, <2>1, <2>2, MidStepBase
    <2>4. files'[Here'] = <<Migrated(work[1])>>
      BY <1>4, <1>8, <1>13, <2>3
    <2>5. WorkInv'
      BY <1>7, <1>13, <2>1, <2>4 DEF WorkInv
    <2>6. QED
      BY <1>10, <1>11, <2>3, <2>5, BaseFromParts, PTL
  <1>14. CASE ~(o.ok /\ HasPlugins(work[1]))
    <2>1. WalkedOn(Warned(o.ok))
      BY <1>1, <1>2, <1>3, <1>12, <1>14, ContinueStep
    <2>2. unread' \in BOOLEAN
      BY <1>1, <1>3 DEF TypeOK
    <2>3. FlagsType' /\ PlaceType' /\ WorkInv'
      BY <1>1, <1>3, <1>6, <2>1, <2>2, WalkedOnBase
    <2>4. QED
      BY <1>10, <1>11, <2>3, BaseFromParts, PTL
  <1>15. QED
    BY <1>13, <1>14

LEMMA SavePluginsBase == BaseInv /\ SavePlugins => BaseInv'
  <1> SUFFICES ASSUME BaseInv, SavePlugins
               PROVE  BaseInv'
    OBVIOUS
  <1>1. TypeOK /\ FilesInv /\ NoEmptyConfig /\ WorkInv
    BY BaseParts
  <1>2. /\ step = "savePlugins" /\ step' = "plugins"
        /\ UNCHANGED <<files, bak, plugins, values, inChart, at, opts, work, warned, report, unread, edits>>
    BY DEF SavePlugins, history
  <1>3. bakPlugins' \in {bakPlugins, plugins, <<>>} /\ faults' \in 0 .. MaxFaults
    <2>1. PICK o \in Outcomes(bakPlugins, plugins) : bakPlugins' = o.now /\ Count(o.ok)
      BY DEF SavePlugins
    <2>2. /\ o.ok \in BOOLEAN
          /\ o.ok => o.now = plugins
          /\ ~o.ok => o.now \in {bakPlugins, <<>>} /\ faults < MaxFaults
      BY OutcomeCases
    <2>3. faults' \in 0 .. MaxFaults
      BY <1>1, <2>1, <2>2, CountStep
    <2>4. QED
      BY <2>1, <2>2, <2>3
  <1>4. warned' \in BOOLEAN
    BY <1>1, <1>2 DEF TypeOK
  <1>5. FlagsType' /\ PlaceType' /\ Here' = Here
    BY <1>1, <1>2, <1>3, <1>4, MidStepBase
  <1>6. FilesInv'
    BY <1>1, <1>2, <1>3, BriefOne DEF FilesInv, Brief
  <1>7. NoEmptyConfig'
    BY <1>1, <1>2, <1>3 DEF NoEmptyConfig, Range
  <1>8. WorkInv'
    BY <1>1, <1>2, <1>5 DEF WorkInv
  <1>9. QED
    BY <1>5, <1>6, <1>7, <1>8, BaseFromParts, PTL

\* The one plugin config file after a write or half of one.
LEMMA PluginsWritten ==
    ASSUME FilesInv, NoEmptyConfig, NEW c, HasPlugins(c),
           plugins' \in {plugins, <<>>, <<Config(c)>>},
           UNCHANGED <<files, bak, bakPlugins>>
    PROVE  FilesInv' /\ NoEmptyConfig'
  <1>1. Brief(plugins')
    BY BriefOne DEF FilesInv
  <1>2. FilesInv'
    BY <1>1 DEF FilesInv, Brief
  <1>3. \A p \in Range(plugins') : p.plugins # {}
    <2>1. CASE plugins' = <<Config(c)>>
      <3>1. Range(plugins') = {Config(c)}
        BY <2>1 DEF Range
      <3>2. QED
        BY <3>1, ConfigType
    <2>2. CASE plugins' = <<>>
      BY <2>2 DEF Range
    <2>3. CASE plugins' = plugins
      BY <2>3 DEF NoEmptyConfig
    <2>4. QED
      BY <2>1, <2>2, <2>3
  <1>4. NoEmptyConfig'
    BY <1>3 DEF NoEmptyConfig
  <1>5. QED
    BY <1>2, <1>4

LEMMA WritePluginsBase == BaseInv /\ WritePlugins => BaseInv'
  <1> SUFFICES ASSUME BaseInv, WritePlugins
               PROVE  BaseInv'
    OBVIOUS
  <1>1. TypeOK /\ FilesInv /\ NoEmptyConfig /\ WorkInv
    BY BaseParts
  <1>2. PICK o \in Outcomes(plugins, <<Config(work[1])>>) :
            /\ plugins' = o.now
            /\ Count(o.ok)
            /\ IF inChart /\ DOMAIN NewValues(work[1]) # {}
               THEN step' = "values" /\ warned' = Warned(o.ok) /\ UNCHANGED <<at, opts, work, report>>
               ELSE Continue(Warned(o.ok))
    BY DEF WritePlugins
  <1>3. step = "plugins" /\ UNCHANGED <<files, bak, bakPlugins, values, inChart, unread, asked, edits>>
    BY DEF WritePlugins
  <1>4. /\ o.ok \in BOOLEAN
        /\ o.ok => o.now = <<Config(work[1])>>
        /\ ~o.ok => o.now \in {plugins, <<>>} /\ faults < MaxFaults
    BY OutcomeCases
  <1>5. faults' \in 0 .. MaxFaults
    BY <1>1, <1>2, <1>4, CountStep
  <1>6. /\ work = <<work[1]>> /\ IsTemplate(work[1]) /\ ~opts.dryRun
        /\ HasPlugins(work[1]) /\ files[Here] = <<Migrated(work[1])>>
    BY <1>1, <1>3 DEF WorkInv
  <1>7. FilesInv' /\ NoEmptyConfig'
    BY <1>1, <1>2, <1>3, <1>4, <1>6, PluginsWritten
  <1>8. Warned(o.ok) \in BOOLEAN
    BY <1>1, <1>4, WarnedType
  <1>9. CASE inChart /\ DOMAIN NewValues(work[1]) # {}
    <2>1. step' = "values" /\ warned' = Warned(o.ok) /\ UNCHANGED <<at, opts, work, report>>
      BY <1>2, <1>9
    <2>2. FlagsType' /\ PlaceType' /\ Here' = Here
      BY <1>1, <1>3, <1>5, <1>8, <2>1, MidStepBase
    <2>3. WorkInv'
      BY <1>3, <1>6, <2>1, <2>2 DEF WorkInv
    <2>4. QED
      BY <1>7, <2>2, <2>3, BaseFromParts, PTL
  <1>10. CASE ~(inChart /\ DOMAIN NewValues(work[1]) # {})
    <2>1. WalkedOn(Warned(o.ok))
      BY <1>1, <1>2, <1>3, <1>8, <1>10, ContinueStep
    <2>2. unread' \in BOOLEAN
      BY <1>1, <1>3 DEF TypeOK
    <2>3. FlagsType' /\ PlaceType' /\ WorkInv'
      BY <1>1, <1>3, <1>5, <2>1, <2>2, WalkedOnBase
    <2>4. QED
      BY <1>7, <2>3, BaseFromParts, PTL
  <1>11. QED
    BY <1>9, <1>10

\* What values.yaml may hold after a run's step at it.
LEMMA ValuesCases ==
    ASSUME WriteValues
    PROVE  \E o, old :
            /\ values' = o.now /\ Count(o.ok /\ old = values) /\ Continue(Warned(o.ok))
            /\ apart' = (apart \/ ~o.ok)
            /\ o.ok \in BOOLEAN
            /\ o.ok => o.now = Appended(NewValues(work[1]), old)
            /\ ~o.ok => o.now \in {values, <<>>} /\ old = values
            /\ old \in {values, <<>>}
            /\ (o.ok /\ old = values) \/ faults < MaxFaults
  <1>1. PICK old \in {values} \cup (IF MayFail THEN {<<>>} ELSE {}) :
        \E o \in IF old = values THEN Outcomes(values, Appended(NewValues(work[1]), values))
                 ELSE {[now |-> Appended(NewValues(work[1]), old), ok |-> TRUE]} :
            /\ values' = o.now
            /\ Count(o.ok /\ old = values)
            /\ apart' = (apart \/ ~o.ok)
            /\ Continue(Warned(o.ok))
    BY DEF WriteValues
  <1>2. PICK o \in IF old = values THEN Outcomes(values, Appended(NewValues(work[1]), values))
                   ELSE {[now |-> Appended(NewValues(work[1]), old), ok |-> TRUE]} :
            /\ values' = o.now
            /\ Count(o.ok /\ old = values)
            /\ apart' = (apart \/ ~o.ok)
            /\ Continue(Warned(o.ok))
    BY <1>1
  <1>3. CASE old = values
    <2>1. /\ o.ok \in BOOLEAN
          /\ o.ok => o.now = Appended(NewValues(work[1]), values)
          /\ ~o.ok => o.now \in {values, <<>>} /\ faults < MaxFaults
      BY <1>3, OutcomeCases
    <2>2. QED
      BY <1>2, <1>3, <2>1
  <1>4. CASE old # values
    <2>1. o = [now |-> Appended(NewValues(work[1]), old), ok |-> TRUE]
      BY <1>4
    <2>2. o.ok = TRUE /\ o.now = Appended(NewValues(work[1]), old)
      BY <2>1
    <2>3. old = <<>> /\ faults < MaxFaults
      BY <1>4 DEF MayFail
    <2>4. QED
      BY <1>2, <2>2, <2>3
  <1>5. QED
    BY <1>3, <1>4

LEMMA WriteValuesBase == BaseInv /\ WriteValues => BaseInv'
  <1> SUFFICES ASSUME BaseInv, WriteValues
               PROVE  BaseInv'
    OBVIOUS
  <1>1. TypeOK
    BY BaseParts
  <1>2. PICK o, old :
            /\ Count(o.ok /\ old = values) /\ Continue(Warned(o.ok))
            /\ o.ok \in BOOLEAN
            /\ (o.ok /\ old = values) \/ faults < MaxFaults
    BY ValuesCases
  <1>3. step = "values" /\ UNCHANGED <<files, bak, plugins, bakPlugins, inChart, unread, asked, edits>>
    BY DEF WriteValues
  <1>4. faults' \in 0 .. MaxFaults
    <2> DEFINE ok == o.ok /\ old = values
    <2>1. ok \in BOOLEAN /\ (ok \/ faults < MaxFaults) /\ Count(ok)
      BY <1>2
    <2> HIDE DEF ok
    <2>2. QED
      BY <1>1, <2>1, CountStep
  <1>5. Warned(o.ok) \in BOOLEAN
    BY <1>1, <1>2, WarnedType
  <1>6. WalkedOn(Warned(o.ok))
    BY <1>1, <1>2, <1>3, <1>5, ContinueStep
  <1>7. unread' \in BOOLEAN
    BY <1>1, <1>3 DEF TypeOK
  <1>8. FlagsType' /\ PlaceType' /\ WorkInv'
    BY <1>1, <1>3, <1>4, <1>6, <1>7, WalkedOnBase
  <1>9. FilesInv' /\ NoEmptyConfig'
    BY <1>3, FilesStay
  <1>10. QED
    BY <1>8, <1>9, BaseFromParts, PTL

LEMMA CrashCases ==
    ASSUME Crash
    PROVE  /\ bak' = bak \/ (step = "backup" /\ \E x \in {bak[Here], <<>>} : bak' = [bak EXCEPT ![Here] = x])
           /\ \/ files' = files
              \/ step = "template" /\ \E x \in {files[Here], <<>>} : files' = [files EXCEPT ![Here] = x]
           /\ bakPlugins' \in {bakPlugins, <<>>}
           /\ plugins' = plugins \/ (step = "plugins" /\ plugins' = <<>>)
           /\ values' = values \/ (step = "values" /\ values' = <<>>)
  BY DEF Crash, Torn

LEMMA CrashBase == BaseInv /\ Crash => BaseInv'
  <1> SUFFICES ASSUME BaseInv, Crash
               PROVE  BaseInv'
    OBVIOUS
  <1>1. TypeOK /\ FilesInv /\ NoEmptyConfig /\ WorkInv
    BY BaseParts
  <1>2. /\ step # "idle" /\ faults < MaxFaults /\ faults' = faults + 1 /\ Stop
        /\ UNCHANGED <<inChart, report, unread, asked, edits>>
    BY DEF Crash, MayFail
  <1>3. Here \in Templates
    BY <1>1, <1>2, HereIsThere
  <1>4. /\ step' = "idle" /\ at' = 0 /\ work' = <<>> /\ warned' = FALSE
        /\ opts' \in Options /\ at' \in 0 .. Len(Walk)
    BY <1>2, StopStep
  <1>5. FlagsType'
    BY <1>1, <1>2, <1>4 DEF TypeOK, FlagsType
  <1>6. PlaceType'
    <2>1. faults' \in 0 .. MaxFaults
      BY <1>1, <1>2, RoomForAll DEF TypeOK
    <2>2. edits' \in 0 .. MaxEdits
      BY <1>1, <1>2 DEF TypeOK
    <2>3. QED
      BY <1>4, <2>1, <2>2 DEF PlaceType
  <1>7. WorkInv'
    BY <1>4 DEF WorkInv
  <1>8. bak' = [t \in Templates |-> bak'[t]] /\ \A t \in Templates : Brief(bak'[t])
    <2>1. CASE bak' = bak
      BY <1>1, <2>1 DEF FilesInv
    <2>2. CASE \E x \in {bak[Here], <<>>} : bak' = [bak EXCEPT ![Here] = x]
      <3>1. PICK x \in {bak[Here], <<>>} : bak' = [bak EXCEPT ![Here] = x]
        BY <2>2
      <3>2. Brief(x)
        BY <1>1, <1>3, BriefOne DEF FilesInv
      <3>3. /\ bak' = [t \in Templates |-> bak'[t]] /\ bak'[Here] = x
            /\ \A t \in Templates : t # Here => bak'[t] = bak[t]
        BY <1>1, <1>3, <3>1, Updated DEF FilesInv
      <3>4. QED
        BY <1>1, <3>2, <3>3 DEF FilesInv
    <2>3. QED
      BY <2>1, <2>2, CrashCases
  <1>9. /\ files' = [t \in Templates |-> files'[t]]
        /\ \A t \in Templates : Brief(files'[t]) /\ (files'[t] # <<>> => IsTemplate(files'[t][1]))
    <2>1. CASE files' = files
      BY <1>1, <2>1 DEF FilesInv
    <2>2. CASE \E x \in {files[Here], <<>>} : files' = [files EXCEPT ![Here] = x]
      <3>1. PICK x \in {files[Here], <<>>} : files' = [files EXCEPT ![Here] = x]
        BY <2>2
      <3>2. Brief(x) /\ (x # <<>> => IsTemplate(x[1]))
        BY <1>1, <1>3, BriefOne DEF FilesInv
      <3>3. /\ files' = [t \in Templates |-> files'[t]] /\ files'[Here] = x
            /\ \A t \in Templates : t # Here => files'[t] = files[t]
        BY <1>1, <1>3, <3>1, Updated DEF FilesInv
      <3>4. QED
        BY <1>1, <3>2, <3>3 DEF FilesInv
    <2>3. QED
      BY <2>1, <2>2, CrashCases
  <1>10. Brief(plugins') /\ Brief(bakPlugins')
    BY <1>1, CrashCases, BriefOne DEF FilesInv
  <1>11. FilesInv'
    BY <1>8, <1>9, <1>10 DEF FilesInv, Brief
  <1>12. NoEmptyConfig'
    BY <1>1, CrashCases DEF NoEmptyConfig, Range
  <1>13. QED
    BY <1>5, <1>6, <1>7, <1>11, <1>12, BaseFromParts, PTL

\* A template to which a line was added.
With(c, l) == [c EXCEPT !.lines = Append(@, l)]

LEMMA WithLine ==
    ASSUME NEW c, IsTemplate(c), NEW l \in Annotating,
           \A m \in Range(c.lines) : <<m.prefix, m.key>> # <<l.prefix, l.key>>
    PROVE  /\ IsTemplate(With(c, l))
           /\ With(c, l).name = c.name
           /\ Range(With(c, l).lines) = Range(c.lines) \cup {l}
  <1> DEFINE lines == c.lines
             more == Append(lines, l)
             d == With(c, l)
  <1>1. /\ c = [name |-> c.name, class |-> c.class, lines |-> c.lines,
                todos |-> c.todos, newline |-> c.newline]
        /\ lines \in Seq(Range(lines))
        /\ \A m \in Range(lines) : ClassLine(m) => m.key = "ingress.class"
        /\ DistinctKeys(c)
    BY DEF IsTemplate
  <1>2. d = [name |-> c.name, class |-> c.class, lines |-> more,
             todos |-> c.todos, newline |-> c.newline]
    <2>1. PICK n, k, x, td, nl :
            c = [name |-> n, class |-> k, lines |-> x, todos |-> td, newline |-> nl]
      BY <1>1
    <2>2. d = [c EXCEPT !.lines = more]
      BY DEF With
    <2> HIDE DEF d, more, lines
    <2>3. d = [name |-> n, class |-> k, lines |-> more, todos |-> td, newline |-> nl]
      BY <2>1, <2>2
    <2>4. c.name = n /\ c.class = k /\ c.todos = td /\ c.newline = nl
      BY <2>1
    <2>5. QED
      BY <2>3, <2>4
  <1>3. /\ d.name = c.name /\ d.class = c.class /\ d.lines = more
        /\ d.todos = c.todos /\ d.newline = c.newline
    BY <1>2
  <1>4. /\ Len(lines) \in Nat /\ DOMAIN lines = 1 .. Len(lines)
        /\ \A i \in 1 .. Len(lines) : lines[i] \in Range(lines)
    BY <1>1 DEF Range
  <1>5. /\ DOMAIN more = 1 .. Len(lines) + 1
        /\ \A i \in 1 .. Len(lines) : more[i] = lines[i]
        /\ more[Len(lines) + 1] = l
        /\ more \in Seq(Range(lines) \cup {l})
    BY <1>1, <1>4
  <1> HIDE DEF d, more, lines
  <1>6. Range(more) = Range(lines) \cup {l}
    <2>1. Range(more) \subseteq Range(lines) \cup {l}
      BY <1>4, <1>5 DEF Range
    <2>2. Range(lines) \subseteq Range(more)
      BY <1>4, <1>5 DEF Range
    <2>3. l \in Range(more)
      BY <1>4, <1>5 DEF Range
    <2>4. QED
      BY <2>1, <2>2, <2>3
  <1>7. DistinctKeys(d)
    <2> SUFFICES ASSUME NEW i \in DOMAIN more, NEW j \in DOMAIN more,
                        more[i].prefix \in NginxPrefixes, more[i].prefix = more[j].prefix,
                        more[i].key = more[j].key
                 PROVE  i = j
      BY <1>3 DEF DistinctKeys
    <2>1. CASE i \in 1 .. Len(lines) /\ j \in 1 .. Len(lines)
      BY <1>1, <1>4, <1>5, <2>1 DEF DistinctKeys, lines
    <2>2. CASE i \in 1 .. Len(lines) /\ j = Len(lines) + 1
      BY <1>4, <1>5, <2>2 DEF lines
    <2>3. CASE i = Len(lines) + 1 /\ j \in 1 .. Len(lines)
      BY <1>4, <1>5, <2>3 DEF lines
    <2>4. CASE i = Len(lines) + 1 /\ j = Len(lines) + 1
      BY <2>4
    <2>5. QED
      BY <1>4, <1>5, <2>1, <2>2, <2>3, <2>4
  <1>8. \A m \in Range(more) : ClassLine(m) => m.key = "ingress.class"
    BY <1>1, <1>6, AnnotatingAssumption
  <1>9. IsTemplate(d)
    BY <1>2, <1>3, <1>5, <1>6, <1>7, <1>8 DEF IsTemplate
  <1>10. QED
    BY <1>3, <1>6, <1>9 DEF d, lines

LEMMA AnnotatesCases ==
    ASSUME FilesInv, UserAnnotates
    PROVE  \E t \in Templates, l \in Annotating :
            /\ files[t] # <<>> /\ IsTemplate(files[t][1])
            /\ \A m \in Range(files[t][1].lines) : <<m.prefix, m.key>> # <<l.prefix, l.key>>
            /\ files' = [files EXCEPT ![t] = <<With(files[t][1], l)>>]
            /\ files'[t] = <<With(files[t][1], l)>>
            /\ asked' = [asked EXCEPT ![t] = @ \cup {l}]
  BY DEF UserAnnotates, With, FilesInv

LEMMA UserAnnotatesBase == BaseInv /\ UserAnnotates => BaseInv'
  <1> SUFFICES ASSUME BaseInv, UserAnnotates
               PROVE  BaseInv'
    OBVIOUS
  <1>1. TypeOK /\ FilesInv /\ NoEmptyConfig /\ WorkInv
    BY BaseParts
  <1>2. PICK t \in Templates, l \in Annotating :
            /\ files[t] # <<>> /\ IsTemplate(files[t][1])
            /\ \A m \in Range(files[t][1].lines) : <<m.prefix, m.key>> # <<l.prefix, l.key>>
            /\ files' = [files EXCEPT ![t] = <<With(files[t][1], l)>>]
    BY <1>1, AnnotatesCases
  <1>3. /\ step = "idle" /\ edits < MaxEdits /\ edits' = edits + 1 /\ report' = "none"
        /\ UNCHANGED <<bak, plugins, bakPlugins, values, inChart, step, at, opts, work, warned, unread, faults>>
    BY DEF UserAnnotates
  <1>4. IsTemplate(With(files[t][1], l))
    BY <1>2, WithLine
  <1>5. /\ files' = [u \in Templates |-> files'[u]] /\ files'[t] = <<With(files[t][1], l)>>
        /\ \A u \in Templates : u # t => files'[u] = files[u]
    BY <1>1, <1>2, Updated DEF FilesInv
  <1>6. \A u \in Templates : Brief(files'[u]) /\ (files'[u] # <<>> => IsTemplate(files'[u][1]))
    <2>1. Brief(files'[t]) /\ files'[t][1] = With(files[t][1], l)
      BY <1>5, BriefOne
    <2>2. QED
      BY <1>1, <1>4, <1>5, <2>1 DEF FilesInv
  <1>7. FilesInv'
    BY <1>1, <1>3, <1>5, <1>6 DEF FilesInv, Brief
  <1>8. NoEmptyConfig'
    BY <1>1, <1>3 DEF NoEmptyConfig
  <1>9. FlagsType'
    BY <1>1, <1>3 DEF TypeOK, FlagsType
  <1>10. PlaceType'
    <2>1. edits' \in 0 .. MaxEdits
      BY <1>1, <1>3, RoomForAll DEF TypeOK
    <2>2. QED
      BY <1>1, <1>3, <2>1 DEF TypeOK, PlaceType
  <1>11. WorkInv'
    BY <1>3 DEF WorkInv
  <1>12. QED
    BY <1>7, <1>8, <1>9, <1>10, <1>11, BaseFromParts, PTL

LEMMA StutterBase == BaseInv /\ UNCHANGED vars => BaseInv'
  <1> SUFFICES ASSUME BaseInv, UNCHANGED vars
               PROVE  BaseInv'
    OBVIOUS
  <1>1. FilesInv' /\ NoEmptyConfig'
    BY FilesStay DEF vars, disk
  <1>2. FlagsType' /\ PlaceType'
    <2>1. FlagsType'
      BY BaseParts DEF vars, history, FlagsType
    <2>2. PlaceType'
      BY BaseParts DEF vars, PlaceType
    <2>3. QED
      BY <2>1, <2>2
  <1>3. WorkInv'
    BY BaseParts DEF vars, disk, WorkInv, Here
  <1>4. QED
    BY <1>1, <1>2, <1>3, BaseFromParts, PTL

LEMMA BaseInductive == BaseInv /\ [Next]_vars => BaseInv'
  BY StartRunBase, ReadAndSkipBase, ReadBase, SaveTemplateBase, WriteTemplateBase,
     SavePluginsBase, WritePluginsBase, WriteValuesBase, CrashBase, UserAnnotatesBase,
     StutterBase DEF Next, RunStep

LEMMA BaseAlways == Spec => []BaseInv
  BY InitBase, BaseInductive, PTL DEF Spec

\* TypeOK: whatever fails, wherever the program is killed and whatever users add, each
\* file holds what it may, no plugin config is of no plugins, and a run has a template
\* in hand exactly while it is at work on one.
THEOREM TypeCorrect == Spec => []TypeOK
  <1>1. BaseInv => TypeOK
    BY DEF BaseInv
  <1>2. QED
    BY <1>1, BaseAlways, PTL

-----------------------------------------------------------------------------
(* A backup precedes what it is of *)

\* As long as no write has failed, a run with backups has saved what it is about to write.
BackupInv ==
    /\ step = "template" /\ opts.backup /\ faults = 0 => bak[Here] = work
    /\ step = "plugins" /\ opts.backup /\ faults = 0 /\ plugins # <<>> => bakPlugins = plugins

\* Where a step that may leave the template goes on.
LEMMA ContinueGoesOn ==
    ASSUME NEW w, Continue(w)
    PROVE  step' \in {"idle", "read"}
  BY DEF Continue, Stop

LEMMA BackupStep == BaseInv /\ BackupInv /\ [Next]_vars => BackupInv'
  <1> SUFFICES ASSUME BaseInv, BackupInv, [Next]_vars
               PROVE  BackupInv'
    OBVIOUS
  <1>0. TypeOK /\ FilesInv
    BY BaseParts
  <1>1. CASE step' \notin {"template", "plugins"}
    BY <1>1 DEF BackupInv
  <1>2. CASE StartRun
    BY <1>1, <1>2 DEF StartRun
  <1>3. CASE ReadAndSkip
    BY <1>1, <1>3, ContinueGoesOn DEF ReadAndSkip
  <1>4. CASE Read
    <2>1. step' = FirstWrite(opts) /\ opts' = opts
      BY <1>4 DEF Read
    <2>2. QED
      BY <2>1 DEF FirstWrite, BackupInv
  <1>5. CASE SaveTemplate
    <2>1. PICK o \in Outcomes(bak[Here], work) : bak' = [bak EXCEPT ![Here] = o.now] /\ Count(o.ok)
      BY <1>5 DEF SaveTemplate
    <2>2. o.ok \in BOOLEAN /\ (o.ok => o.now = work) /\ (~o.ok => faults < MaxFaults)
      BY OutcomeCases
    <2>3. faults' = 0 => o.ok
      BY <1>0, <2>1, <2>2, CountStep
    <2>4. Here \in Templates
      BY <1>0, <1>5, HereIsThere DEF SaveTemplate
    <2>5. bak'[Here] = o.now
      BY <1>0, <2>1, <2>4 DEF FilesInv
    <2>6. step' = "template" /\ at' = at /\ work' = work
      BY <1>5 DEF SaveTemplate
    <2>7. QED
      BY <2>2, <2>3, <2>5, <2>6 DEF BackupInv, Here
  <1>6. CASE WriteTemplate
    <2>1. PICK ok :
            IF ok /\ HasPlugins(work[1])
            THEN /\ step' = IF opts.backup THEN "savePlugins" ELSE "plugins"
                 /\ UNCHANGED <<at, opts, work, warned, report>>
            ELSE Continue(Warned(ok))
      BY <1>6 DEF WriteTemplate
    <2>2. CASE step' \in {"idle", "read"}
      BY <1>1, <2>2
    <2>3. CASE step' = (IF opts.backup THEN "savePlugins" ELSE "plugins") /\ opts' = opts
      BY <2>3 DEF BackupInv
    <2>4. QED
      BY <2>1, <2>2, <2>3, ContinueGoesOn
  <1>7. CASE SavePlugins
    <2>1. PICK o \in Outcomes(bakPlugins, plugins) : bakPlugins' = o.now /\ Count(o.ok)
      BY <1>7 DEF SavePlugins
    <2>2. o.ok \in BOOLEAN /\ (o.ok => o.now = plugins) /\ (~o.ok => faults < MaxFaults)
      BY OutcomeCases
    <2>3. faults' = 0 => o.ok
      BY <1>0, <2>1, <2>2, CountStep
    <2>4. step' = "plugins" /\ plugins' = plugins
      BY <1>7 DEF SavePlugins
    <2>5. QED
      BY <2>1, <2>2, <2>3, <2>4 DEF BackupInv
  <1>8. CASE WritePlugins
    <2>1. PICK ok : IF inChart /\ DOMAIN NewValues(work[1]) # {}
                    THEN step' = "values" /\ warned' = Warned(ok) /\ UNCHANGED <<at, opts, work, report>>
                    ELSE Continue(Warned(ok))
      BY <1>8 DEF WritePlugins
    <2>2. QED
      BY <1>1, <2>1, ContinueGoesOn
  <1>9. CASE WriteValues
    <2>1. PICK o, old : Continue(Warned(o.ok)) /\ old \in {values, <<>>}
      BY <1>9, ValuesCases
    <2>2. QED
      BY <1>1, <2>1, ContinueGoesOn
  <1>10. CASE Crash
    BY <1>1, <1>10 DEF Crash, Stop
  <1>11. CASE UserAnnotates
    BY <1>1, <1>11 DEF UserAnnotates
  <1>12. CASE UNCHANGED vars
    BY <1>12 DEF vars, disk, BackupInv, Here
  <1>13. QED
    BY <1>2, <1>3, <1>4, <1>5, <1>6, <1>7, <1>8, <1>9, <1>10, <1>11, <1>12 DEF Next, RunStep

\* BackupPrecedes: a run with --migrate-backup changes a template, or the plugin configs,
\* only when its .bak file holds what it held, as long as no write has failed.
THEOREM BackupTheorem == Spec => BackupPrecedes
  <1>1. Init => BackupInv
    BY DEF Init, BackupInv
  <1>2. Spec => []BackupInv
    BY <1>1, BackupStep, BaseAlways, PTL DEF Spec
  <1> DEFINE Kept ==
        (RunStep /\ opts.backup /\ faults = 0) =>
            /\ \A t \in Templates : files'[t] # files[t] => bak[t] = files[t]
            /\ plugins # <<>> /\ plugins' # plugins => bakPlugins = plugins
  <1>3. BaseInv /\ BackupInv /\ [Next]_vars => [Kept]_vars
    <2> SUFFICES ASSUME BaseInv, BackupInv, RunStep, opts.backup, faults = 0
                 PROVE  /\ \A t \in Templates : files'[t] # files[t] => bak[t] = files[t]
                        /\ plugins # <<>> /\ plugins' # plugins => bakPlugins = plugins
      OBVIOUS
    <2>1. CASE WriteTemplate
      <3>1. PICK x : files' = [files EXCEPT ![Here] = x]
        BY <2>1 DEF WriteTemplate
      <3>2. step = "template" /\ plugins' = plugins
        BY <2>1 DEF WriteTemplate
      <3>3. bak[Here] = work /\ work = files[Here]
        BY <3>2, BaseParts DEF BackupInv, WorkInv
      <3>4. \A t \in Templates : t # Here => files'[t] = files[t]
        BY <3>1, BaseParts DEF FilesInv
      <3>5. QED
        BY <3>2, <3>3, <3>4
    <2>2. CASE WritePlugins
      BY <2>2 DEF WritePlugins, BackupInv
    <2>3. CASE ReadAndSkip
      BY <2>3 DEF ReadAndSkip, disk
    <2>4. CASE Read \/ SaveTemplate \/ SavePlugins \/ WriteValues
      BY <2>4 DEF Read, disk, SaveTemplate, SavePlugins, WriteValues
    <2>5. QED
      BY <2>1, <2>2, <2>3, <2>4 DEF RunStep
  <1>4. QED
    BY <1>2, <1>3, BaseAlways, PTL DEF Spec, BackupPrecedes

-----------------------------------------------------------------------------
(* Plugin configs and values.yaml *)

\* As long as the plugin config and values.yaml are not apart, a run between the two has
\* written the config it has in hand, and any other finds them in agreement.
ConfigsMatch ==
    ~apart =>
        IF step = "values" THEN plugins = <<Config(work[1])>>
        ELSE \A p \in Range(plugins) : Agrees(p)
OwnStay ==
    faults = 0 => \A k \in DOMAIN OwnValues \ Limits : k \in DOMAIN values /\ values[k] = OwnValues[k]

LEMMA NewKeys ==
    ASSUME NEW c
    PROVE  /\ DOMAIN NewValues(c) \subseteq Limits
           /\ \A e \in Plugins(c) : FromValues(e) => e.key \in DOMAIN NewValues(c)
  BY DEF NewValues, FromValues

LEMMA OneConfig ==
    ASSUME NEW p, NEW s, s = <<p>>
    PROVE  Range(s) = {p} /\ s[1] = p /\ s # <<>>
  BY DEF Range

\* A config agrees with values.yaml when it takes nothing from it, and once what it takes
\* is appended.
LEMMA AgreesWithNone ==
    ASSUME NEW c, HasPlugins(c), ~(inChart /\ DOMAIN NewValues(c) # {}), UNCHANGED inChart
    PROVE  Agrees(Config(c))'
  <1> SUFFICES ASSUME inChart, NEW e \in Plugins(c), FromValues(e)
               PROVE  FALSE
    BY ConfigType DEF Agrees
  <1>1. QED
    BY NewKeys

LEMMA AgreesOnceAppended ==
    ASSUME NEW c, IsTemplate(c), HasPlugins(c), NEW old, values' = Appended(NewValues(c), old)
    PROVE  Agrees(Config(c))'
  <1> SUFFICES ASSUME NEW e \in Plugins(c), FromValues(e)
               PROVE  e.key \in DOMAIN values' /\ values'[e.key] = e.value
    BY ConfigType DEF Agrees
  <1> DEFINE new == NewValues(c)
  <1>1. e.key \in DOMAIN new /\ new[e.key] = e.value
    BY NewValuesMatch
  <1>2. values' = Appended(new, old)
    OBVIOUS
  <1> HIDE DEF new
  <1>3. QED
    BY <1>1, <1>2 DEF Appended

LEMMA MatchStays ==
    ASSUME ConfigsMatch, UNCHANGED <<values, inChart>>, Range(plugins') \subseteq Range(plugins),
           ~apart' => ~apart, step # "values", step' # "values"
    PROVE  ConfigsMatch'
  BY DEF ConfigsMatch, Agrees

LEMMA WritePluginsMatch ==
    ASSUME BaseInv, WritePlugins
    PROVE  ConfigsMatch'
  <1>0. PICK c : c = work[1]
    OBVIOUS
  <1>1. PICK o \in Outcomes(plugins, <<Config(c)>>) :
            /\ plugins' = o.now
            /\ apart' = ~o.ok
            /\ IF inChart /\ DOMAIN NewValues(c) # {}
               THEN step' = "values" /\ warned' = Warned(o.ok) /\ UNCHANGED <<at, opts, work, report>>
               ELSE Continue(Warned(o.ok))
    BY <1>0 DEF WritePlugins
  <1>2. o.ok => o.now = <<Config(c)>>
    BY OutcomeCases
  <1>3. HasPlugins(c) /\ UNCHANGED inChart
    BY <1>0, BaseParts DEF WritePlugins, WorkInv
  <1>4. CASE ~o.ok
    BY <1>1, <1>4 DEF ConfigsMatch
  <1>5. CASE o.ok /\ inChart /\ DOMAIN NewValues(c) # {}
    BY <1>0, <1>1, <1>2, <1>5 DEF ConfigsMatch
  <1>6. CASE o.ok /\ ~(inChart /\ DOMAIN NewValues(c) # {})
    <2>1. step' # "values"
      BY <1>1, <1>6, ContinueGoesOn
    <2>2. Agrees(Config(c))'
      BY <1>3, <1>6, AgreesWithNone
    <2>3. Range(plugins') = {Config(c)}
      BY <1>1, <1>2, <1>6, OneConfig
    <2>4. QED
      BY <2>1, <2>2, <2>3 DEF ConfigsMatch, Agrees
  <1>7. QED
    BY <1>4, <1>5, <1>6

LEMMA WriteValuesMatch ==
    ASSUME BaseInv, ConfigsMatch, WriteValues
    PROVE  ConfigsMatch'
  <1>0. PICK c : c = work[1]
    OBVIOUS
  <1>1. PICK o, old :
            /\ values' = o.now /\ Continue(Warned(o.ok))
            /\ apart' = (apart \/ ~o.ok)
            /\ o.ok => o.now = Appended(NewValues(c), old)
    BY <1>0, ValuesCases
  <1>2. step = "values" /\ UNCHANGED <<plugins, inChart>> /\ step' # "values"
    BY <1>1, ContinueGoesOn DEF WriteValues
  <1>3. IsTemplate(c) /\ HasPlugins(c)
    BY <1>0, <1>2, BaseParts DEF WorkInv
  <1> SUFFICES ASSUME ~apart, o.ok
               PROVE  \A p \in Range(plugins') : Agrees(p)'
    BY <1>1, <1>2 DEF ConfigsMatch
  <1>4. Range(plugins') = {Config(c)}
    BY <1>0, <1>2, OneConfig DEF ConfigsMatch
  <1>5. Agrees(Config(c))'
    BY <1>1, <1>3, AgreesOnceAppended
  <1>6. QED
    BY <1>4, <1>5 DEF Agrees

LEMMA CrashMatch ==
    ASSUME BaseInv, ConfigsMatch, Crash
    PROVE  ConfigsMatch'
  <1>1. inChart' = inChart /\ step' = "idle" /\ apart' = (apart \/ step = "values")
    BY DEF Crash, Stop
  <1>2. CASE step = "values"
    BY <1>1, <1>2 DEF ConfigsMatch
  <1>3. CASE step # "values"
    <2>1. Range(plugins') \subseteq Range(plugins) /\ values' = values
      BY <1>3, CrashCases DEF Range
    <2>2. ~apart' => ~apart
      BY <1>1
    <2>3. QED
      BY <1>1, <1>3, <2>1, <2>2, MatchStays
  <1>4. QED
    BY <1>2, <1>3

LEMMA MatchStep == BaseInv /\ ConfigsMatch /\ [Next]_vars => ConfigsMatch'
  <1> SUFFICES ASSUME BaseInv, ConfigsMatch, [Next]_vars
               PROVE  ConfigsMatch'
    OBVIOUS
  <1>1. CASE StartRun
    BY <1>1, MatchStays DEF StartRun, disk
  <1>2. CASE ReadAndSkip
    BY <1>2, MatchStays, ContinueGoesOn DEF ReadAndSkip, disk
  <1>3. CASE Read
    BY <1>3, MatchStays DEF Read, disk, history, FirstWrite
  <1>4. CASE SaveTemplate
    BY <1>4, MatchStays DEF SaveTemplate, history
  <1>5. CASE WriteTemplate
    <2>1. step = "template" /\ UNCHANGED <<plugins, values, inChart, apart>>
      BY <1>5 DEF WriteTemplate
    <2>2. PICK ok :
            IF ok /\ HasPlugins(work[1])
            THEN /\ step' = IF opts.backup THEN "savePlugins" ELSE "plugins"
                 /\ UNCHANGED <<at, opts, work, warned, report>>
            ELSE Continue(Warned(ok))
      BY <1>5 DEF WriteTemplate
    <2>3. step' # "values"
      BY <2>2, ContinueGoesOn
    <2>4. QED
      BY <2>1, <2>3, MatchStays
  <1>6. CASE SavePlugins
    BY <1>6, MatchStays DEF SavePlugins, history
  <1>7. CASE UserAnnotates
    BY <1>7, MatchStays DEF UserAnnotates
  <1>8. CASE UNCHANGED vars
    BY <1>8 DEF vars, disk, history, ConfigsMatch, Agrees
  <1>9. QED
    BY <1>1, <1>2, <1>3, <1>4, <1>5, <1>6, <1>7, <1>8, WritePluginsMatch, WriteValuesMatch, CrashMatch
       DEF Next, RunStep

LEMMA FaultsStay == BaseInv /\ [Next]_vars => (faults' = 0 => faults = 0)
  <1> SUFFICES ASSUME BaseInv, [Next]_vars
               PROVE  faults' = 0 => faults = 0
    OBVIOUS
  <1>1. faults \in Nat
    BY BaseParts, RoomForAll DEF PlaceType
  <1>2. ASSUME NEW ok, Count(ok)
        PROVE  faults' = 0 => faults = 0
    BY <1>1, <1>2 DEF Count
  <1>3. CASE ReadAndSkip
    BY <1>1, <1>3 DEF ReadAndSkip
  <1>4. CASE SaveTemplate \/ WriteTemplate \/ SavePlugins \/ WritePlugins
    BY <1>2, <1>4 DEF SaveTemplate, WriteTemplate, SavePlugins, WritePlugins
  <1>5. CASE WriteValues
    BY <1>2, <1>5 DEF WriteValues
  <1>6. CASE Crash
    BY <1>1, <1>6 DEF Crash
  <1>7. CASE StartRun \/ Read \/ UserAnnotates \/ UNCHANGED vars
    BY <1>7 DEF StartRun, Read, UserAnnotates, vars
  <1>8. QED
    BY <1>3, <1>4, <1>5, <1>6, <1>7 DEF Next, RunStep

LEMMA OwnStep == BaseInv /\ OwnStay /\ [Next]_vars => OwnStay'
  <1> SUFFICES ASSUME BaseInv, OwnStay, [Next]_vars
               PROVE  OwnStay'
    OBVIOUS
  <1>1. CASE values' = values
    BY <1>1, FaultsStay DEF OwnStay
  <1>2. CASE WriteValues
    <2> DEFINE new == NewValues(work[1])
    <2>1. PICK o, old :
            /\ values' = o.now /\ Count(o.ok /\ old = values)
            /\ o.ok \in BOOLEAN
            /\ o.ok => o.now = Appended(new, old)
            /\ (o.ok /\ old = values) \/ faults < MaxFaults
      BY <1>2, ValuesCases
    <2>2. faults' = 0 => o.ok /\ old = values
      <3> DEFINE ok == o.ok /\ old = values
      <3>1. ok \in BOOLEAN /\ (ok \/ faults < MaxFaults) /\ Count(ok) /\ TypeOK
        BY <2>1, BaseParts
      <3> HIDE DEF ok
      <3>2. faults' = 0 => ok
        BY <3>1, CountStep
      <3>3. QED
        BY <3>2 DEF ok
    <2>3. DOMAIN new \subseteq Limits
      BY NewKeys
    <2> HIDE DEF new
    <2> SUFFICES ASSUME faults' = 0, NEW k \in DOMAIN OwnValues \ Limits
                 PROVE  k \in DOMAIN values' /\ values'[k] = OwnValues[k]
      BY DEF OwnStay
    <2>4. k \in DOMAIN values /\ values[k] = OwnValues[k]
      BY FaultsStay DEF OwnStay
    <2>5. values' = Appended(new, values) /\ k \notin DOMAIN new
      BY <2>1, <2>2, <2>3
    <2>6. QED
      BY <2>4, <2>5 DEF Appended
  <1>3. CASE Crash
    <2>1. faults \in Nat /\ faults' = faults + 1
      BY <1>3, BaseParts, RoomForAll DEF PlaceType, Crash
    <2>2. faults' # 0
      BY <2>1
    <2>3. QED
      BY <2>2 DEF OwnStay
  <1>4. CASE StartRun \/ Read \/ SaveTemplate \/ WriteTemplate \/ SavePlugins \/ WritePlugins
    BY <1>1, <1>4 DEF StartRun, Read, SaveTemplate, WriteTemplate, SavePlugins, WritePlugins, disk
  <1>5. CASE ReadAndSkip \/ UserAnnotates \/ UNCHANGED vars
    BY <1>1, <1>5 DEF ReadAndSkip, UserAnnotates, vars, disk
  <1>6. QED
    BY <1>2, <1>3, <1>4, <1>5 DEF Next, RunStep

\* ValuesMatch: whatever runs and failures came before, once a plugin config is written
\* and as long as no write of it or of values.yaml fails or is killed after that, each value
\* it takes from values.yaml is there as its annotation had it, and not one that an earlier
\* run left (migrator.go:242-299).  As long as nothing fails the user's own entries stay.
THEOREM ValuesTheorem == Spec => []ValuesMatch
  <1>1. Init => ConfigsMatch /\ OwnStay
    BY DEF Init, ConfigsMatch, OwnStay, Range
  <1>2. Spec => [](ConfigsMatch /\ OwnStay)
    BY <1>1, MatchStep, OwnStep, BaseAlways, PTL DEF Spec
  <1>3. ConfigsMatch /\ OwnStay => ValuesMatch
    BY DEF ConfigsMatch, OwnStay, ValuesMatch
  <1>4. QED
    BY <1>2, <1>3, PTL

-----------------------------------------------------------------------------
(* What a clean report says *)

Done(t) == files[t] # <<>> => SettledBut(files[t][1], passed[t])
TemplatesDone == report = "clean" /\ ~unread => \A t \in Templates : Done(t)

\* A run that may yet report that all is clean has migrated what it has passed, and the
\* template it has written.
Late == step \in {"savePlugins", "plugins", "values"}
RunInv ==
    /\ Late => Done(Here)
    /\ step # "idle" => report = "none"
    /\ step # "idle" /\ ~warned /\ ~unread /\ ~opts.dryRun => \A j \in 1 .. at - 1 : Done(Walk[j])
    /\ TemplatesDone
    /\ passed = [t \in Templates |-> passed[t]]

LEMMA SettledAfter ==
    ASSUME NEW c, IsTemplate(c)
    PROVE  SettledBut(Migrated(c), Seconds(c))
  BY MigratedIsSettled DEF SettledBut

LEMMA DoneUnchanged ==
    ASSUME BaseInv, step # "idle", ~ToMigrate, ~opts.dryRun
    PROVE  Done(Here)
  <1> SUFFICES ASSUME files[Here] # <<>>
               PROVE  SettledBut(files[Here][1], passed[Here])
    BY DEF Done
  <1>1. Here \in Templates
    BY BaseParts, HereIsThere
  <1>2. Brief(files[Here]) /\ IsTemplate(files[Here][1])
    BY <1>1, BaseParts DEF FilesInv
  <1>3. files[Here][1] \in Range(files[Here])
    BY <1>2, BriefLen
  <1>4. ~Changed(files[Here][1])
    BY <1>3 DEF ToMigrate
  <1>5. Migrated(files[Here][1]) = files[Here][1]
    BY <1>4 DEF Changed
  <1>6. QED
    BY <1>2, <1>5, UnchangedIsSettled DEF SettledBut

LEMMA RunGoesOn ==
    ASSUME BaseInv, RunInv, step # "idle", NEW w, WalkedOn(w),
           passed' = [t \in Templates |-> passed'[t]],
           ~w /\ ~unread' /\ ~opts.dryRun => \A j \in 1 .. at : Done(Walk[j])'
    PROVE  RunInv'
  <1>1. at \in 1 .. Len(Walk) /\ Len(Walk) \in Nat
    BY BaseParts, HereIsThere, WalkFacts
  <1>2. CASE /\ step' = "read" /\ at' = at + 1
             /\ warned' = w /\ opts' = opts /\ report' = report
    <2>1. report' = "none"
      BY <1>2 DEF RunInv
    <2>2. at' - 1 = at
      BY <1>1, <1>2
    <2>3. ~warned' /\ ~unread' /\ ~opts'.dryRun => \A j \in 1 .. at' - 1 : Done(Walk[j])'
      BY <1>2, <2>2
    <2>4. QED
      BY <1>2, <2>1, <2>3 DEF RunInv, TemplatesDone, Late
  <1>3. CASE step' = "idle" /\ at = Len(Walk) /\ report' = Verdict(w)
    <2>1. report' = "clean" => ~w /\ ~opts.dryRun
      BY <1>3 DEF Verdict
    <2>2. ASSUME NEW t \in Templates
          PROVE  \E j \in 1 .. Len(Walk) : t = Walk[j]
      BY WalkFacts DEF Templates, Range
    <2>3. report' = "clean" /\ ~unread' => \A t \in Templates : Done(t)'
      BY <1>3, <2>1, <2>2
    <2>4. TemplatesDone'
      BY <2>3 DEF TemplatesDone
    <2>5. QED
      BY <1>3, <2>4 DEF RunInv, Late
  <1>4. QED
    BY <1>2, <1>3 DEF WalkedOn

LEMMA RunStays ==
    ASSUME RunInv, step # "idle",
           UNCHANGED <<at, opts, unread, report>>, warned => warned',
           \A t \in Templates : Done(t) => Done(t)', at \in 1 .. Len(Walk),
           passed' = [t \in Templates |-> passed'[t]],
           Late' => Late \/ Done(Here)'
    PROVE  RunInv'
  <1>1. report' = "none"
    BY DEF RunInv
  <1>2. \A j \in 1 .. at - 1 : Walk[j] \in Templates
    BY WalkFacts
  <1>3. ~warned' /\ ~unread' /\ ~opts'.dryRun => \A j \in 1 .. at' - 1 : Done(Walk[j])'
    BY <1>2 DEF RunInv
  <1>4. Late' => Done(Here)'
    <2>1. Here' = Here /\ Here \in Templates
      BY WalkFacts DEF Here
    <2>2. Late => Done(Here)'
      BY <2>1 DEF RunInv, Done
    <2>3. QED
      BY <2>2
  <1>5. QED
    BY <1>1, <1>3, <1>4 DEF RunInv, TemplatesDone

LEMMA DoneStays ==
    ASSUME RunInv, UNCHANGED <<files, passed>>
    PROVE  /\ \A t : Done(t) => Done(t)'
           /\ passed' = [t \in Templates |-> passed'[t]]
  BY DEF Done, RunInv

LEMMA ReadAndSkipRun == BaseInv /\ RunInv /\ ReadAndSkip => RunInv'
  <1> SUFFICES ASSUME BaseInv, RunInv, ReadAndSkip
               PROVE  RunInv'
    OBVIOUS
  <1>1. step = "read" /\ files' = files /\ passed' = passed /\ Continue(warned) /\ warned \in BOOLEAN /\ TypeOK
    BY BaseParts DEF ReadAndSkip, disk, FlagsType
  <1>2. WalkedOn(warned)
    BY <1>1, ContinueStep
  <1>3. at \in 1 .. Len(Walk) /\ Len(Walk) \in Nat
    BY <1>1, HereIsThere, WalkFacts
  <1>4. unread' = TRUE \/ (unread' = unread /\ ~ToMigrate)
    BY DEF ReadAndSkip
  <1>5. ASSUME ~warned, ~unread', ~opts.dryRun, NEW j \in 1 .. at
        PROVE  Done(Walk[j])'
    <2>1. ~unread /\ ~ToMigrate
      BY <1>4, <1>5
    <2>2. CASE j \in 1 .. at - 1
      <3>1. Done(Walk[j])
        BY <1>1, <1>5, <2>1, <2>2 DEF RunInv
      <3>2. QED
        BY <1>1, <3>1 DEF Done
    <2>3. CASE j = at
      <3>1. Done(Here)
        BY <1>1, <1>5, <2>1, DoneUnchanged
      <3>2. QED
        BY <1>1, <2>3, <3>1 DEF Done, Here
    <2>4. QED
      BY <1>3, <1>5, <2>2, <2>3
  <1>6. QED
    BY <1>1, <1>2, <1>5, RunGoesOn DEF RunInv

LEMMA WriteTemplateRun == BaseInv /\ RunInv /\ WriteTemplate => RunInv'
  <1> SUFFICES ASSUME BaseInv, RunInv, WriteTemplate
               PROVE  RunInv'
    OBVIOUS
  <1>1. PICK o \in Outcomes(files[Here], <<Migrated(work[1])>>) :
            /\ files' = [files EXCEPT ![Here] = o.now]
            /\ passed' = IF o.ok THEN [passed EXCEPT ![Here] = Seconds(work[1])] ELSE passed
            /\ IF o.ok /\ HasPlugins(work[1])
               THEN /\ step' = IF opts.backup THEN "savePlugins" ELSE "plugins"
                    /\ UNCHANGED <<at, opts, work, warned, report>>
               ELSE Continue(Warned(o.ok))
    BY DEF WriteTemplate
  <1>2. step = "template" /\ unread' = unread /\ TypeOK /\ FilesInv
    BY BaseParts DEF WriteTemplate
  <1>3. o.ok \in BOOLEAN /\ (o.ok => o.now = <<Migrated(work[1])>>)
    BY OutcomeCases
  <1>4. at \in 1 .. Len(Walk) /\ Here \in Templates
    BY <1>2, HereIsThere
  <1>5. files'[Here] = o.now /\ \A t \in Templates : t # Here => files'[t] = files[t]
    BY <1>1, <1>2, <1>4, Updated DEF FilesInv
  <1>6. IsTemplate(work[1])
    BY <1>2, BaseParts DEF WorkInv
  <1>6a. /\ passed' = [t \in Templates |-> passed'[t]]
         /\ o.ok => passed'[Here] = Seconds(work[1])
         /\ \A t \in Templates : t # Here => passed'[t] = passed[t]
    <2>1. CASE ~o.ok
      BY <1>1, <2>1 DEF RunInv
    <2>2. CASE o.ok
      <3>1. passed' = [passed EXCEPT ![Here] = Seconds(work[1])]
        BY <1>1, <2>2
      <3>2. QED
        BY <1>4, <3>1, Updated DEF RunInv
    <2>3. QED
      BY <1>3, <2>1, <2>2
  <1>7. ASSUME o.ok, NEW t, t = Here
        PROVE  Done(t)'
    <2>1. files'[t] = <<Migrated(work[1])>>
      BY <1>3, <1>5, <1>7
    <2>2. files'[t][1] = Migrated(work[1])
      BY <2>1
    <2>3. SettledBut(Migrated(work[1]), Seconds(work[1]))
      BY <1>6, SettledAfter
    <2>4. passed'[t] = Seconds(work[1])
      BY <1>6a, <1>7
    <2>5. QED
      BY <2>2, <2>3, <2>4 DEF Done
  <1>8. ASSUME o.ok, NEW t \in Templates, Done(t)
        PROVE  Done(t)'
    BY <1>5, <1>6a, <1>7, <1>8 DEF Done
  <1>9. CASE o.ok /\ HasPlugins(work[1])
    <2>1. UNCHANGED <<at, opts, work, warned, report>>
      BY <1>1, <1>9
    <2>2. Done(Here)'
      BY <1>7, <1>9, <2>1 DEF Here
    <2>3. QED
      BY <1>2, <1>4, <1>6a, <1>8, <1>9, <2>1, <2>2, RunStays
  <1>10. CASE ~(o.ok /\ HasPlugins(work[1]))
    <2> DEFINE w == Warned(o.ok)
    <2>1. Continue(w) /\ w \in BOOLEAN
      BY <1>1, <1>2, <1>3, <1>10, WarnedType
    <2>2. (warned => w) /\ (~w => o.ok)
      BY DEF Warned
    <2> HIDE DEF w
    <2>3. WalkedOn(w)
      BY <1>2, <2>1, ContinueStep
    <2>4. ASSUME ~w, ~unread', ~opts.dryRun, NEW j \in 1 .. at
          PROVE  Done(Walk[j])'
      <3>1. Walk[j] \in Templates /\ o.ok /\ ~warned /\ ~unread
        BY <1>2, <1>4, <2>2, <2>4, WalkFacts
      <3>2. CASE j \in 1 .. at - 1
        <4>1. Done(Walk[j])
          BY <1>2, <2>4, <3>1, <3>2 DEF RunInv
        <4>2. QED
          BY <1>8, <3>1, <4>1
      <3>3. CASE j = at
        BY <1>7, <3>1, <3>3 DEF Here
      <3>4. QED
        BY <1>4, <2>4, <3>2, <3>3
    <2>5. QED
      BY <1>2, <1>6a, <2>3, <2>4, RunGoesOn
  <1>11. QED
    BY <1>9, <1>10

\* The same when the template in hand is written already.
LEMMA LaterRun ==
    ASSUME BaseInv, RunInv, step \in {"plugins", "values"}, UNCHANGED <<files, passed, unread>>,
           NEW ok \in BOOLEAN, Continue(Warned(ok))
    PROVE  RunInv'
  <1> DEFINE w == Warned(ok)
  <1>1. TypeOK /\ step # "idle"
    BY BaseParts
  <1>2. at \in 1 .. Len(Walk)
    BY <1>1, HereIsThere
  <1>3. Continue(w) /\ w \in BOOLEAN
    BY <1>1, WarnedType
  <1>4. warned => w
    BY DEF Warned
  <1> HIDE DEF w
  <1>5. WalkedOn(w)
    BY <1>1, <1>3, ContinueStep
  <1>6. Done(Here)
    BY DEF RunInv, Late
  <1>7. ASSUME ~w, ~unread', ~opts.dryRun, NEW j \in 1 .. at
        PROVE  Done(Walk[j])'
    <2>1. Done(Walk[j])
      <3>1. CASE j \in 1 .. at - 1
        BY <1>1, <1>4, <1>7, <3>1 DEF RunInv
      <3>2. CASE j = at
        BY <1>6, <3>2 DEF Here
      <3>3. QED
        BY <1>2, <1>7, <3>1, <3>2
    <2>2. QED
      BY <2>1, DoneStays
  <1>8. QED
    BY <1>1, <1>5, <1>7, DoneStays, RunGoesOn

LEMMA RunInvStep == BaseInv /\ RunInv /\ [Next]_vars => RunInv'
  <1> SUFFICES ASSUME BaseInv, RunInv, [Next]_vars
               PROVE  RunInv'
    OBVIOUS
  <1>1. TypeOK
    BY BaseParts
  <1>2. CASE StartRun
    <2>1. report' = "none" /\ at' = 1
      BY <1>2 DEF StartRun
    <2>2. 1 .. at' - 1 = {}
      BY <2>1
    <2>3. passed' = passed /\ ~Late'
      BY <1>2 DEF StartRun, Late
    <2>4. QED
      BY <2>1, <2>2, <2>3 DEF RunInv, TemplatesDone
  <1>3. CASE Read
    <2>1. /\ step # "idle" /\ files' = files /\ passed' = passed /\ ~Late'
          /\ UNCHANGED <<at, opts, unread, report, warned>>
      BY <1>3 DEF Read, disk, history, FirstWrite, Late
    <2>2. at \in 1 .. Len(Walk)
      BY <1>1, <2>1, HereIsThere
    <2>3. QED
      BY <2>1, <2>2, DoneStays, RunStays
  <1>4. CASE SaveTemplate
    <2>1. /\ step # "idle" /\ files' = files /\ passed' = passed /\ ~Late'
          /\ UNCHANGED <<at, opts, unread, report>> /\ (warned => warned')
      BY <1>4 DEF SaveTemplate, Warned, history, Late
    <2>2. at \in 1 .. Len(Walk)
      BY <1>1, <2>1, HereIsThere
    <2>3. QED
      BY <2>1, <2>2, DoneStays, RunStays
  <1>5. CASE SavePlugins
    <2>1. /\ step # "idle" /\ files' = files /\ passed' = passed /\ Late
          /\ UNCHANGED <<at, opts, unread, report, warned>>
      BY <1>5 DEF SavePlugins, history, Late
    <2>2. at \in 1 .. Len(Walk)
      BY <1>1, <2>1, HereIsThere
    <2>3. QED
      BY <2>1, <2>2, DoneStays, RunStays
  <1>6. CASE WritePlugins
    <2>1. PICK o \in Outcomes(plugins, <<Config(work[1])>>) :
            IF inChart /\ DOMAIN NewValues(work[1]) # {}
            THEN step' = "values" /\ warned' = Warned(o.ok) /\ UNCHANGED <<at, opts, work, report>>
            ELSE Continue(Warned(o.ok))
      BY <1>6 DEF WritePlugins
    <2>2. o.ok \in BOOLEAN
      BY OutcomeCases
    <2>3. step = "plugins" /\ Late /\ UNCHANGED <<files, passed, unread>>
      BY <1>6 DEF WritePlugins, Late
    <2>4. CASE step' = "values" /\ warned' = Warned(o.ok) /\ UNCHANGED <<at, opts, work, report>>
      <3>1. warned => warned'
        BY <2>4 DEF Warned
      <3>2. at \in 1 .. Len(Walk)
        BY <1>1, <2>3, HereIsThere
      <3>3. QED
        BY <2>3, <2>4, <3>1, <3>2, DoneStays, RunStays
    <2>5. CASE Continue(Warned(o.ok))
      BY <2>2, <2>3, <2>5, LaterRun
    <2>6. QED
      BY <2>1, <2>4, <2>5
  <1>7. CASE WriteValues
    <2>1. PICK o, old : Continue(Warned(o.ok)) /\ o.ok \in BOOLEAN
      BY <1>7, ValuesCases
    <2>2. step = "values" /\ UNCHANGED <<files, passed, unread>>
      BY <1>7 DEF WriteValues
    <2>3. QED
      BY <2>1, <2>2, LaterRun
  <1>8. CASE Crash
    <2>1. step # "idle" /\ step' = "idle" /\ report' = report /\ passed' = passed
      BY <1>8 DEF Crash, Stop
    <2>2. report' = "none"
      BY <2>1 DEF RunInv
    <2>3. QED
      BY <2>1, <2>2 DEF RunInv, TemplatesDone, Late
  <1>9. CASE UserAnnotates
    <2>1. step = "idle" /\ step' = step /\ report' = "none" /\ passed' = passed
      BY <1>9 DEF UserAnnotates
    <2>2. QED
      BY <2>1 DEF RunInv, TemplatesDone, Late
  <1>10. CASE UNCHANGED vars
    <2>1. UNCHANGED <<files, passed, step, at, opts, warned, unread, report>>
      BY <1>10 DEF vars, disk, history
    <2>2. Here' = Here
      BY <2>1 DEF Here
    <2>3. QED
      BY <2>1, <2>2 DEF RunInv, TemplatesDone, Done, Late
  <1>11. QED
    BY <1>2, <1>3, <1>4, <1>5, <1>6, <1>7, <1>8, <1>9, <1>10, ReadAndSkipRun, WriteTemplateRun
       DEF Next, RunStep

\* The plugin config a run wrote last is in the file, with its values, unless the run is
\* writing them or has a warning.
InSync == wrote # <<>> => plugins = wrote /\ Agrees(wrote[1])
WroteInv ==
    /\ Late => wrote = <<Config(work[1])>>
    /\ step \in {"read", "backup", "template"} /\ ~warned => InSync
    /\ step = "values" /\ ~warned => plugins = wrote
    /\ report = "clean" => InSync

LEMMA SyncStays ==
    ASSUME InSync, UNCHANGED <<plugins, wrote, values, inChart>>
    PROVE  InSync'
  BY DEF InSync, Agrees

\* The walk goes on, from a config that is written or from none.
LEMMA WroteGoesOn ==
    ASSUME RunInv, step # "idle", NEW w, WalkedOn(w), ~w => InSync'
    PROVE  WroteInv'
  <1>1. CASE step' = "read" /\ warned' = w /\ report' = report
    BY <1>1 DEF WroteInv, RunInv, Late
  <1>2. CASE step' = "idle" /\ report' = Verdict(w)
    BY <1>2 DEF WroteInv, Verdict, Late
  <1>3. QED
    BY <1>1, <1>2 DEF WalkedOn

LEMMA WriteTemplateWrote == BaseInv /\ RunInv /\ WroteInv /\ WriteTemplate => WroteInv'
  <1> SUFFICES ASSUME BaseInv, RunInv, WroteInv, WriteTemplate
               PROVE  WroteInv'
    OBVIOUS
  <1>1. PICK o \in Outcomes(files[Here], <<Migrated(work[1])>>) :
            /\ wrote' = IF o.ok /\ HasPlugins(work[1]) THEN <<Config(work[1])>> ELSE wrote
            /\ IF o.ok /\ HasPlugins(work[1])
               THEN /\ step' = IF opts.backup THEN "savePlugins" ELSE "plugins"
                    /\ UNCHANGED <<at, opts, work, warned, report>>
               ELSE Continue(Warned(o.ok))
    BY DEF WriteTemplate
  <1>2. step = "template" /\ TypeOK /\ UNCHANGED <<plugins, values, inChart>>
    BY BaseParts DEF WriteTemplate
  <1>3. CASE o.ok /\ HasPlugins(work[1])
    <2>1. /\ wrote' = <<Config(work'[1])>> /\ report' = report
          /\ step' \in {"savePlugins", "plugins"}
      BY <1>1, <1>3
    <2>2. report = "none"
      BY <1>2 DEF RunInv
    <2>3. QED
      BY <2>1, <2>2 DEF WroteInv, Late
  <1>4. CASE ~(o.ok /\ HasPlugins(work[1]))
    <2> DEFINE w == Warned(o.ok)
    <2>1. Continue(w) /\ w \in BOOLEAN /\ wrote' = wrote
      BY <1>1, <1>2, <1>4, OutcomeCases, WarnedType
    <2>2. ~w => ~warned
      BY DEF Warned
    <2> HIDE DEF w
    <2>3. ~w => InSync'
      BY <1>2, <2>1, <2>2, SyncStays DEF WroteInv
    <2>4. WalkedOn(w)
      BY <1>2, <2>1, ContinueStep
    <2>5. QED
      BY <1>2, <2>3, <2>4, WroteGoesOn
  <1>5. QED
    BY <1>3, <1>4

LEMMA WritePluginsWrote == BaseInv /\ RunInv /\ WroteInv /\ WritePlugins => WroteInv'
  <1> SUFFICES ASSUME BaseInv, RunInv, WroteInv, WritePlugins
               PROVE  WroteInv'
    OBVIOUS
  <1>0. PICK c : c = work[1]
    OBVIOUS
  <1>1. PICK o \in Outcomes(plugins, <<Config(c)>>) :
            /\ plugins' = o.now
            /\ IF inChart /\ DOMAIN NewValues(c) # {}
               THEN step' = "values" /\ warned' = Warned(o.ok) /\ UNCHANGED <<at, opts, work, report>>
               ELSE Continue(Warned(o.ok))
    BY <1>0 DEF WritePlugins
  <1>2. step = "plugins" /\ TypeOK /\ UNCHANGED <<wrote, inChart>>
    BY BaseParts DEF WritePlugins
  <1>3. wrote = <<Config(c)>> /\ HasPlugins(c) /\ report = "none"
    BY <1>0, <1>2, BaseParts DEF WorkInv, WroteInv, RunInv, Late
  <1>4. o.ok \in BOOLEAN /\ (o.ok => plugins' = <<Config(c)>>)
    BY <1>1, OutcomeCases
  <1>5. CASE inChart /\ DOMAIN NewValues(c) # {}
    <2>1. step' = "values" /\ warned' = Warned(o.ok) /\ work' = work /\ report' = "none"
      BY <1>1, <1>3, <1>5
    <2>2. ~warned' => plugins' = wrote'
      BY <1>2, <1>3, <1>4, <2>1 DEF Warned
    <2>3. wrote' = <<Config(work'[1])>>
      BY <1>0, <1>2, <1>3, <2>1
    <2>4. QED
      BY <2>1, <2>2, <2>3 DEF WroteInv, Late
  <1>6. CASE ~(inChart /\ DOMAIN NewValues(c) # {})
    <2> DEFINE w == Warned(o.ok)
    <2>1. Continue(w) /\ w \in BOOLEAN
      BY <1>1, <1>2, <1>4, <1>6, WarnedType
    <2>2. ~w => o.ok
      BY DEF Warned
    <2> HIDE DEF w
    <2>3. ~w => InSync'
      <3>1. Agrees(Config(c))'
        BY <1>2, <1>3, <1>6, AgreesWithNone
      <3>2. wrote' = <<Config(c)>> /\ wrote'[1] = Config(c)
        BY <1>2, <1>3, OneConfig
      <3>3. QED
        BY <1>4, <2>2, <3>1, <3>2 DEF InSync, Agrees
    <2>4. WalkedOn(w)
      BY <1>2, <2>1, ContinueStep
    <2>5. QED
      BY <1>2, <2>3, <2>4, WroteGoesOn
  <1>7. QED
    BY <1>5, <1>6

LEMMA WriteValuesWrote == BaseInv /\ RunInv /\ WroteInv /\ WriteValues => WroteInv'
  <1> SUFFICES ASSUME BaseInv, RunInv, WroteInv, WriteValues
               PROVE  WroteInv'
    OBVIOUS
  <1>0. PICK c : c = work[1]
    OBVIOUS
  <1>1. PICK o, old :
            /\ values' = o.now /\ Continue(Warned(o.ok)) /\ o.ok \in BOOLEAN
            /\ o.ok => o.now = Appended(NewValues(c), old)
    BY <1>0, ValuesCases
  <1>2. step = "values" /\ TypeOK /\ UNCHANGED <<plugins, wrote>>
    BY BaseParts DEF WriteValues
  <1>3. /\ IsTemplate(c) /\ HasPlugins(c) /\ wrote = <<Config(c)>>
        /\ ~warned => plugins = wrote
    BY <1>0, <1>2, BaseParts DEF WorkInv, WroteInv, Late
  <1> DEFINE w == Warned(o.ok)
  <1>4. Continue(w) /\ w \in BOOLEAN
    BY <1>1, <1>2, WarnedType
  <1>5. ~w => o.ok /\ ~warned
    BY DEF Warned
  <1> HIDE DEF w
  <1>6. ASSUME ~w
        PROVE  InSync'
    <2>1. Agrees(Config(c))'
      BY <1>1, <1>3, <1>5, <1>6, AgreesOnceAppended
    <2>2. wrote' = <<Config(c)>> /\ wrote'[1] = Config(c) /\ plugins' = wrote'
      BY <1>2, <1>3, <1>5, <1>6, OneConfig
    <2>3. QED
      BY <2>1, <2>2 DEF InSync, Agrees
  <1>7. WalkedOn(w)
    BY <1>2, <1>4, ContinueStep
  <1>8. QED
    BY <1>2, <1>6, <1>7, WroteGoesOn

LEMMA WroteStep == BaseInv /\ RunInv /\ WroteInv /\ [Next]_vars => WroteInv'
  <1> SUFFICES ASSUME BaseInv, RunInv, WroteInv, [Next]_vars
               PROVE  WroteInv'
    OBVIOUS
  <1>1. TypeOK
    BY BaseParts
  <1>2. CASE StartRun
    BY <1>2 DEF StartRun, WroteInv, InSync, Late
  <1>3. CASE ReadAndSkip
    <2>1. /\ step = "read" /\ Continue(warned) /\ warned \in BOOLEAN
          /\ UNCHANGED <<plugins, wrote, values, inChart>>
      BY <1>1, <1>3 DEF ReadAndSkip, disk, TypeOK
    <2>2. WalkedOn(warned)
      BY <1>1, <2>1, ContinueStep
    <2>3. ~warned => InSync'
      BY <2>1, SyncStays DEF WroteInv
    <2>4. QED
      BY <2>1, <2>2, <2>3, WroteGoesOn
  <1>4. CASE Read
    <2>1. /\ step = "read" /\ step' \in {"backup", "template"}
          /\ UNCHANGED <<plugins, wrote, values, inChart, warned, report>>
      BY <1>4 DEF Read, disk, history, FirstWrite
    <2>2. QED
      BY <2>1, SyncStays DEF WroteInv, Late
  <1>5. CASE SaveTemplate
    <2>1. /\ step = "backup" /\ step' = "template" /\ (warned => warned')
          /\ UNCHANGED <<plugins, wrote, values, inChart, report>>
      BY <1>5 DEF SaveTemplate, history, Warned
    <2>2. QED
      BY <2>1, SyncStays DEF WroteInv, Late
  <1>6. CASE SavePlugins
    <2>1. /\ step = "savePlugins" /\ step' = "plugins" /\ UNCHANGED <<wrote, work, report>>
      BY <1>6 DEF SavePlugins, history
    <2>2. report = "none"
      BY <2>1 DEF RunInv
    <2>3. QED
      BY <2>1, <2>2 DEF WroteInv, Late
  <1>7. CASE Crash
    <2>1. step # "idle" /\ step' = "idle" /\ report' = report
      BY <1>7 DEF Crash, Stop
    <2>2. report = "none"
      BY <2>1 DEF RunInv
    <2>3. QED
      BY <2>1, <2>2 DEF WroteInv, Late
  <1>8. CASE UserAnnotates
    BY <1>8 DEF UserAnnotates, WroteInv, Late
  <1>9. CASE UNCHANGED vars
    <2>1. UNCHANGED <<step, work, warned, report, plugins, wrote, values, inChart>>
      BY <1>9 DEF vars, disk, history
    <2>2. QED
      BY <2>1, SyncStays DEF WroteInv, Late
  <1>10. QED
    BY <1>2, <1>3, <1>4, <1>5, <1>6, <1>7, <1>8, <1>9, WriteTemplateWrote, WritePluginsWrote,
       WriteValuesWrote DEF Next, RunStep

\* CleanReport: a run that read each template and reports no warning has migrated every
\* template that is whole, but for the lines that its last migration passed over, each of
\* which set an annotation that a line under the other prefix sets (MigratedIsSettled,
\* migrator.go:472).  And the plugin config it had to write last is in the file, whole, with
\* each value it takes from values.yaml (migrator.go:242-299).
THEOREM ReportTheorem == Spec => []CleanReport
  <1>1. Init => RunInv /\ WroteInv
    BY DEF Init, RunInv, TemplatesDone, WroteInv, InSync, Late
  <1>2. Spec => []RunInv
    BY <1>1, RunInvStep, BaseAlways, PTL DEF Spec
  <1>3. Spec => []WroteInv
    BY <1>1, <1>2, WroteStep, BaseAlways, PTL DEF Spec
  <1>4. RunInv /\ WroteInv => CleanReport
    BY DEF RunInv, TemplatesDone, Done, WroteInv, InSync, CleanReport
  <1>5. QED
    BY <1>2, <1>3, <1>4, PTL

-----------------------------------------------------------------------------
(* An annotation is lost with its plugin config alone *)

\* The redirects a template ever had are nginx's.
Asks ==
    /\ asked = [t \in Templates |-> asked[t]]
    /\ \A t \in Templates : \A l \in asked[t] : l.key \in Redirects => l.prefix \in NginxPrefixes

LEMMA AsksStep == BaseInv /\ Asks /\ [Next]_vars => Asks'
  <1> SUFFICES ASSUME BaseInv, Asks, [Next]_vars
               PROVE  Asks'
    OBVIOUS
  <1>1. CASE UserAnnotates
    <2>1. PICK t \in Templates, l \in Annotating : asked' = [asked EXCEPT ![t] = @ \cup {l}]
      BY <1>1, AnnotatesCases, BaseParts
    <2>2. /\ asked' = [u \in Templates |-> asked'[u]] /\ asked'[t] = asked[t] \cup {l}
          /\ \A u \in Templates : u # t => asked'[u] = asked[u]
      BY <2>1, Updated DEF Asks
    <2>3. l.key \notin Redirects
      BY NoRedirectAdded
    <2>4. QED
      BY <2>2, <2>3 DEF Asks
  <1>2. ASSUME asked' = asked
        PROVE  Asks'
    BY <1>2 DEF Asks
  <1>3. CASE StartRun \/ ReadAndSkip \/ Read \/ SaveTemplate \/ SavePlugins
    BY <1>2, <1>3 DEF StartRun, ReadAndSkip, Read, SaveTemplate, SavePlugins, history
  <1>3a. CASE WriteTemplate \/ WritePlugins \/ WriteValues \/ Crash
    BY <1>2, <1>3a DEF WriteTemplate, WritePlugins, WriteValues, Crash
  <1>3b. CASE UNCHANGED vars
    BY <1>2, <1>3b DEF vars, history
  <1>4. QED
    BY <1>1, <1>3, <1>3a, <1>3b DEF Next, RunStep

\* A line that is there stays so when no line goes and no plugin does.
LEMMA ThereStays ==
    ASSUME NEW t, NEW l, IsThere(t, l),
           Range(files[t][1].lines) \subseteq Range(files'[t][1].lines),
           RedirectIsThere(t) => RedirectIsThere(t)',
           \A e : Became(t, e) => Became(t, e)'
    PROVE  IsThere(t, l)'
  <1>1. CASE l.key = "configuration-snippet" /\ SnippetIsThere(t, l)
    <2>1. SnippetIsThere(t, l)'
      BY <1>1 DEF SnippetIsThere
    <2>2. QED
      BY <1>1, <2>1 DEF IsThere
  <1>2. CASE ~(l.key = "configuration-snippet" /\ SnippetIsThere(t, l))
    BY <1>2 DEF IsThere
  <1>3. QED
    BY <1>1, <1>2

\* So when its template is left as it is.
LEMMA ThereUntouched ==
    ASSUME NEW t, NEW l, IsThere(t, l), files'[t] = files[t], asked'[t] = asked[t],
           \A e : Became(t, e) => Became(t, e)'
    PROVE  IsThere(t, l)'
  <1>1. RedirectIsThere(t) => RedirectIsThere(t)'
    BY DEF RedirectIsThere
  <1>2. QED
    BY <1>1, ThereStays

\* An entry stays in its file, or lost, when no plugin config is written.
LEMMA PluginsStay ==
    ASSUME NEW t, files'[t] = files[t], UNCHANGED <<plugins, lost>>, faults' = 0 => faults = 0,
           \/ step \notin {"savePlugins", "plugins"}
           \/ step' \in {"savePlugins", "plugins"} /\ at' = at /\ work' = work
    PROVE  \A e : Became(t, e) => Became(t, e)'
  <1> SUFFICES ASSUME NEW e, Became(t, e)
               PROVE  Became(t, e)'
    OBVIOUS
  <1>1. Link(files'[t][1]) \in Range(files'[t][1].lines)
    BY DEF Became
  <1>2. InPlugins(t, e) => InPlugins(t, e)'
    BY DEF InPlugins, Here
  <1>3. LostWithItsConfig(t, e) => LostWithItsConfig(t, e)'
    BY DEF LostWithItsConfig, lost
  <1>4. QED
    BY <1>1, <1>2, <1>3 DEF Became

LEMMA HeldOf ==
    ASSUME NEW p, NEW e \in p.plugins
    PROVE  <<p.name, e>> \in Held(p)
  BY DEF Held

LEMMA HeldByOne ==
    ASSUME NEW p, NEW configs, configs = <<p>>
    PROVE  HeldBy(configs) = Held(p)
  BY OneConfig DEF HeldBy

\* The plugin config is written over the one before, or a failure or a kill leaves it out.
WrittenOver ==
    \/ plugins' = <<Config(work[1])>> /\ Overwrite(plugins, plugins')
    \/ Unwrite(plugins, plugins', Config(work[1])) /\ faults' # 0

LEMMA PluginsWrittenOver ==
    ASSUME BaseInv, NEW t, files' = files, step \in {"savePlugins", "plugins"}, WrittenOver,
           faults' = 0 => faults = 0
    PROVE  \A e : Became(t, e) => Became(t, e)'
  <1> DEFINE name == files[t][1].name
  <1> SUFFICES ASSUME NEW e, Became(t, e)
               PROVE  Became(t, e)'
    OBVIOUS
  <1>1. Link(files'[t][1]) \in Range(files'[t][1].lines)
    BY DEF Became
  <1>2. \/ <<name, e>> \in HeldBy(plugins)
        \/ <<name, e>> \in Held(Config(work[1]))
        \/ LostWithItsConfig(t, e)
    <2>1. CASE at # 0 /\ Here = t /\ e \in Plugins(work[1])
      <3>1. files[t] = <<Migrated(work[1])>> /\ IsTemplate(work[1]) /\ HasPlugins(work[1])
        BY <2>1, BaseParts DEF WorkInv
      <3>2. files[t][1] = Migrated(work[1])
        BY <3>1
      <3>3. name = work[1].name
        BY <3>1, <3>2, MigratedRecord
      <3>4. Config(work[1]).name = name /\ e \in Config(work[1]).plugins
        BY <2>1, <3>1, <3>3, ConfigType
      <3>5. QED
        BY <3>4, HeldOf
    <2>2. QED
      BY <2>1 DEF Became, InPlugins
  <1> DEFINE x == <<name, e>>
  <1>3. x \in HeldBy(plugins') \/ x \in overwritten' \/ (x \in unwritten' /\ faults' # 0)
    <2> HIDE DEF x
    <2>1. \/ x \in HeldBy(plugins) \/ x \in Held(Config(work[1]))
          \/ x \in overwritten \/ (x \in unwritten /\ faults # 0)
      BY <1>2 DEF LostWithItsConfig, x
    <2>2. CASE plugins' = <<Config(work[1])>> /\ Overwrite(plugins, plugins')
      <3>1. HeldBy(plugins') = Held(Config(work[1]))
        <4>1. PICK p : p = Config(work[1])
          OBVIOUS
        <4>2. PICK configs : configs = plugins'
          OBVIOUS
        <4>3. HeldBy(configs) = Held(p)
          BY <2>2, <4>1, <4>2, HeldByOne
        <4>4. QED
          BY <4>1, <4>2, <4>3
      <3>2. QED
        BY <2>1, <2>2, <3>1 DEF Overwrite
    <2>3. CASE Unwrite(plugins, plugins', Config(work[1])) /\ faults' # 0
      BY <2>1, <2>3 DEF Unwrite
    <2>4. QED
      BY <2>2, <2>3 DEF WrittenOver
  <1>4. CASE x \in HeldBy(plugins')
    BY <1>1, <1>4 DEF Became, InPlugins
  <1>5. CASE x \in overwritten' \/ (x \in unwritten' /\ faults' # 0)
    BY <1>1, <1>5 DEF Became, LostWithItsConfig
  <1>6. QED
    BY <1>3, <1>4, <1>5

\* A line that is there is on the lines, or is the class, or is converted.
LEMMA ThereCases ==
    ASSUME NEW t, NEW l, IsThere(t, l), l.key \in Redirects, l.prefix \in NginxPrefixes
    PROVE  l \in Range(files[t][1].lines) \/ RedirectIsThere(t)
  <1>1. ~ClassLine(l)
    BY DEF ClassLine, NginxPrefixes
  <1>2. l.key \notin DOMAIN Renamed \cup DOMAIN ToPlugin \cup {"configuration-snippet"}
    BY KeyClasses
  <1>3. QED
    BY <1>1, <1>2 DEF IsThere

\* When a template is migrated that ever had both redirects, the annotation they make
\* together is in it, from this run or from one before.
LEMMA RedirectMigrated ==
    ASSUME FilesInv, Asks, LostOnlyWithItsConfig, NEW t \in Templates, files[t] # <<>>,
           \A s \in Redirects : \E l \in asked[t] : l.key = s
    PROVE  Line("apisix", "http-to-https", "true") \in Range(Migrated(files[t][1]).lines)
  <1> DEFINE c == files[t][1]
             both == Line("apisix", "http-to-https", "true")
  <1>1. IsTemplate(c)
    BY DEF FilesInv
  <1>2. ASSUME both \in Range(c.lines)
        PROVE  both \in Range(Migrated(c).lines)
    <2>1. both.prefix = "apisix"
      BY DEF Line
    <2>2. ~ClassLine(both) /\ both.prefix \notin NginxPrefixes
      BY <2>1 DEF ClassLine, NginxPrefixes
    <2>3. QED
      BY <1>1, <1>2, <2>2, OthersKept
  <1>3. CASE RedirectIsThere(t)
    BY <1>2, <1>3 DEF RedirectIsThere
  <1>4. CASE ~RedirectIsThere(t)
    <2>1. ASSUME NEW s \in Redirects
          PROVE  Sets(c, s)
      <3>1. PICK l \in asked[t] : l.key = s
        BY <2>1
      <3>2. IsThere(t, l) /\ l.prefix \in NginxPrefixes
        BY <2>1, <3>1 DEF LostOnlyWithItsConfig, Asks
      <3>3. l \in Range(c.lines)
        BY <1>4, <2>1, <3>1, <3>2, ThereCases
      <3>4. PICK i \in DOMAIN c.lines : l = c.lines[i]
        BY <3>3 DEF Range
      <3>5. QED
        BY <1>1, <3>1, <3>2, <3>4, LookedSome
    <2>2. Sets(c, "proxy-redirect-from") /\ Sets(c, "proxy-redirect-to")
      BY <2>1 DEF Redirects
    <2>3. QED
      BY <1>1, <2>2, RedirectsPaired
  <1>5. QED
    BY <1>3, <1>4

\* The plugins of a template that is written are in hand, and those it had stay.
LEMMA PluginsMigrated ==
    ASSUME BaseInv, step = "template", NEW t, t = Here,
           files'[t] = <<Migrated(files[t][1])>>, files[t] # <<>>,
           UNCHANGED <<plugins, lost>>, faults' = 0 => faults = 0,
           HasPlugins(files[t][1]) =>
                step' \in {"savePlugins", "plugins"} /\ at' = at /\ work' = work
    PROVE  /\ \A e : Became(t, e) => Became(t, e)'
           /\ \A e \in Plugins(files[t][1]) : Became(t, e)'
  <1> DEFINE c == files[t][1]
             m == Migrated(c)
  <1>1. t \in Templates /\ at # 0
    BY BaseParts, HereIsThere
  <1>2. IsTemplate(c) /\ work = files[t]
    BY <1>1, BaseParts DEF FilesInv, WorkInv
  <1>3. files'[t][1] = m /\ m.name = c.name
    <2>1. m.name = c.name
      BY <1>2, MigratedRecord
    <2>2. files'[t][1] = m
      OBVIOUS
    <2>3. QED
      BY <2>1, <2>2
  <1>4. Link(m) = Link(c) /\ Link(c).prefix = "apisix"
    BY <1>3 DEF Link, Line
  <1>5. Link(c) \in Range(c.lines) => Link(m) \in Range(m.lines)
    <2>1. ~ClassLine(Link(c)) /\ Link(c).prefix \notin NginxPrefixes
      BY <1>4 DEF ClassLine, NginxPrefixes
    <2>2. QED
      BY <1>2, <1>4, <2>1, OthersKept
  <1>6. HasPlugins(c) => Link(m) \in Range(m.lines)
    BY <1>2, <1>4, MigratedLines
  <1>7. ASSUME NEW e, Became(t, e)
        PROVE  Became(t, e)'
    <2>1. Link(c) \in Range(c.lines)
      BY <1>7 DEF Became
    <2>2. <<c.name, e>> \in HeldBy(plugins) \/ LostWithItsConfig(t, e)
      BY <1>7 DEF Became, InPlugins
    <2> HIDE DEF m
    <2>3. Link(files'[t][1]) \in Range(files'[t][1].lines) /\ files'[t][1].name = c.name
      BY <1>3, <1>5, <2>1
    <2>4. CASE <<c.name, e>> \in HeldBy(plugins)
      <3>1. InPlugins(t, e)'
        BY <2>3, <2>4 DEF InPlugins
      <3>2. QED
        BY <2>3, <3>1 DEF Became
    <2>5. CASE LostWithItsConfig(t, e)
      <3>1. LostWithItsConfig(t, e)'
        BY <2>3, <2>5 DEF LostWithItsConfig, lost
      <3>2. QED
        BY <2>3, <3>1 DEF Became
    <2>6. QED
      BY <2>2, <2>4, <2>5
  <1>8. ASSUME NEW e \in Plugins(c)
        PROVE  Became(t, e)'
    <2>1. HasPlugins(c)
      BY <1>8 DEF HasPlugins
    <2>2. step' \in {"savePlugins", "plugins"} /\ at' = at /\ work' = work
      BY <2>1
    <2>3. Here' = t /\ at' # 0 /\ e \in Plugins(work'[1])
      BY <1>1, <1>2, <2>2 DEF Here
    <2>4. Link(files'[t][1]) \in Range(files'[t][1].lines)
      BY <1>3, <1>6, <2>1
    <2>5. InPlugins(t, e)'
      BY <2>2, <2>3 DEF InPlugins
    <2>6. QED
      BY <2>4, <2>5 DEF Became
  <1>9. QED
    BY <1>7, <1>8

\* Each line of a template that is migrated is there afterwards.
LEMMA ThereMigrated ==
    ASSUME BaseInv, Asks, LostOnlyWithItsConfig, step = "template", NEW t, t = Here,
           files'[t] = <<Migrated(files[t][1])>>, files[t] # <<>>,
           UNCHANGED <<plugins, lost, asked>>, faults' = 0 => faults = 0,
           HasPlugins(files[t][1]) =>
                step' \in {"savePlugins", "plugins"} /\ at' = at /\ work' = work,
           NEW l \in asked[t]
    PROVE  IsThere(t, l)'
  <1> DEFINE c == files[t][1]
             m == Migrated(c)
             new == Range(m.lines)
  <1>1. t \in Templates /\ FilesInv
    BY BaseParts, HereIsThere
  <1>2. IsTemplate(c) /\ IsThere(t, l)
    BY <1>1 DEF FilesInv, LostOnlyWithItsConfig
  <1>3. files'[t][1] = m
    OBVIOUS
  <1>4. \A e : Became(t, e) \/ e \in Plugins(c) => Became(t, e)'
    BY PluginsMigrated
  <1>5. RedirectIsThere(t)'
    <2> SUFFICES ASSUME \A s \in Redirects : \E x \in asked[t] : x.key = s
                 PROVE  Line("apisix", "http-to-https", "true") \in new
      BY <1>3 DEF RedirectIsThere
    <2>1. QED
      BY <1>1, RedirectMigrated
  <1>6. ASSUME NEW x \in Range(c.lines), x.prefix = "apisix"
        PROVE  x \in new
    <2>1. ~ClassLine(x) /\ x.prefix \notin NginxPrefixes
      BY <1>6 DEF ClassLine, NginxPrefixes
    <2>2. QED
      BY <1>2, <2>1, OthersKept
  <1>7. CASE l \in Range(c.lines)
    <2>1. \/ l \in new
          \/ ClassLine(l)
          \/ l.key \in DOMAIN Renamed /\ Line("apisix", Target(l), Transformed(l)) \in new
          \/ l.key \in Redirects
          \/ l.key \in DOMAIN ToPlugin /\ Made(l) \in Plugins(c)
          \/ /\ l.key = "configuration-snippet"
             /\ "other" \in Directives[l.value] =>
                   \E x \in new : x.key = l.key /\ "other" \in Directives[x.value]
             /\ \A d \in Directives[l.value] \cap DOMAIN SnippetPlugins :
                   Entry(SnippetPlugins[d], l) \in Plugins(c)
      BY <1>2, <1>7, LineKept
    <2> HIDE DEF m, c
    <2>2. QED
      BY <1>3, <1>4, <1>5, <2>1 DEF IsThere, SnippetIsThere
  <1>8. CASE l \notin Range(c.lines)
    <2>1. CASE ClassLine(l)
      BY <2>1 DEF IsThere
    <2>2. CASE l.key \in DOMAIN Renamed /\ Line("apisix", Target(l), Transformed(l)) \in Range(c.lines)
      <3>1. Line("apisix", Target(l), Transformed(l)).prefix = "apisix"
        BY DEF Line
      <3>2. Line("apisix", Target(l), Transformed(l)) \in new
        BY <1>6, <2>2, <3>1
      <3>3. QED
        BY <1>3, <2>2, <3>2 DEF IsThere
    <2>3. CASE l.key \in Redirects
      BY <1>5, <2>3 DEF IsThere
    <2>4. CASE l.key \in DOMAIN ToPlugin /\ Became(t, Made(l))
      BY <1>4, <2>4 DEF IsThere
    <2>5. CASE l.key = "configuration-snippet" /\ SnippetIsThere(t, l)
      <3>1. ASSUME "other" \in Directives[l.value]
            PROVE  \E x \in new : x.key = l.key /\ "other" \in Directives[x.value]
        <4>1. PICK x \in Range(c.lines) : x.key = l.key /\ "other" \in Directives[x.value]
          BY <2>5, <3>1 DEF SnippetIsThere
        <4>2. QED
          BY <1>2, <2>5, <4>1, SnippetKept
      <3>2. \A d \in Directives[l.value] \cap DOMAIN SnippetPlugins :
                Became(t, Entry(SnippetPlugins[d], l))'
        BY <1>4, <2>5 DEF SnippetIsThere
      <3> HIDE DEF m, c
      <3>3. SnippetIsThere(t, l)'
        BY <1>3, <3>1, <3>2 DEF SnippetIsThere
      <3>4. QED
        BY <2>5, <3>3 DEF IsThere
    <2>6. QED
      BY <1>2, <1>8, <2>1, <2>2, <2>3, <2>4, <2>5 DEF IsThere
  <1>9. QED
    BY <1>7, <1>8

LEMMA LostStep == BaseInv /\ Asks /\ LostOnlyWithItsConfig /\ [Next]_vars => LostOnlyWithItsConfig'
  <1> SUFFICES ASSUME BaseInv, Asks, LostOnlyWithItsConfig, [Next]_vars
               PROVE  LostOnlyWithItsConfig'
    OBVIOUS
  <1>1. TypeOK /\ FilesInv
    BY BaseParts
  <1>0. faults' = 0 => faults = 0
    BY FaultsStay
  \* The steps that leave each template as it is.
  <1>2. ASSUME UNCHANGED <<files, asked>>,
               \A t : \A e : Became(t, e) => Became(t, e)'
        PROVE  LostOnlyWithItsConfig'
    <2> SUFFICES ASSUME NEW t \in Templates, files[t] # <<>>, NEW l \in asked[t]
                 PROVE  IsThere(t, l)'
      BY <1>2 DEF LostOnlyWithItsConfig
    <2>1. IsThere(t, l)
      BY DEF LostOnlyWithItsConfig
    <2>2. QED
      BY <1>2, <2>1, ThereUntouched
  <1>3. ASSUME UNCHANGED <<files, asked, plugins, lost>>,
               step \notin {"savePlugins", "plugins"}
        PROVE  LostOnlyWithItsConfig'
    BY <1>0, <1>2, <1>3, PluginsStay
  <1>4. CASE StartRun \/ ReadAndSkip \/ Read \/ SaveTemplate \/ WriteValues
    BY <1>3, <1>4 DEF StartRun, ReadAndSkip, Read, SaveTemplate, WriteValues, disk, history
  <1>5. CASE SavePlugins
    <2>1. /\ UNCHANGED <<files, asked, plugins, lost>> /\ step' = "plugins"
          /\ at' = at /\ work' = work
      BY <1>5 DEF SavePlugins, history
    <2>2. QED
      BY <1>0, <1>2, <2>1, PluginsStay
  <1>6. CASE WritePlugins
    <2>1. PICK o \in Outcomes(plugins, <<Config(work[1])>>) :
            /\ plugins' = o.now
            /\ IF o.ok THEN Overwrite(plugins, o.now) ELSE Unwrite(plugins, o.now, Config(work[1]))
            /\ Count(o.ok)
      BY <1>6 DEF WritePlugins
    <2>2. /\ o.ok \in BOOLEAN /\ (o.ok => o.now = <<Config(work[1])>>)
          /\ ~o.ok => faults < MaxFaults
      BY OutcomeCases
    <2>3. faults' = 0 => o.ok
      BY <1>1, <2>1, <2>2, CountStep
    <2>4. WrittenOver
      BY <2>1, <2>2, <2>3 DEF WrittenOver
    <2>5. UNCHANGED <<files, asked>> /\ step = "plugins"
      BY <1>6 DEF WritePlugins
    <2>6. QED
      BY <1>0, <1>2, <2>4, <2>5, PluginsWrittenOver
  <1>7. CASE WriteTemplate
    <2>1. PICK o \in Outcomes(files[Here], <<Migrated(work[1])>>) :
            /\ files' = [files EXCEPT ![Here] = o.now]
            /\ IF o.ok /\ HasPlugins(work[1])
               THEN /\ step' = IF opts.backup THEN "savePlugins" ELSE "plugins"
                    /\ UNCHANGED <<at, opts, work, warned, report>>
               ELSE Continue(Warned(o.ok))
      BY <1>7 DEF WriteTemplate
    <2>2. /\ o.ok \in BOOLEAN
          /\ o.ok => o.now = <<Migrated(work[1])>>
          /\ ~o.ok => o.now \in {files[Here], <<>>}
      BY OutcomeCases
    <2>3. step = "template" /\ UNCHANGED <<plugins, lost, asked>>
      BY <1>7 DEF WriteTemplate
    <2>4. Here \in Templates
      BY <1>1, <2>3, HereIsThere
    <2>5. work = files[Here] /\ work = <<work[1]>>
      BY <2>3, BaseParts DEF WorkInv
    <2>6. files'[Here] = o.now /\ \A t \in Templates : t # Here => files'[t] = files[t]
      BY <1>1, <2>1, <2>4, Updated DEF FilesInv
    <2> SUFFICES ASSUME NEW t \in Templates, files'[t] # <<>>, NEW l \in asked[t]
                 PROVE  IsThere(t, l)'
      BY <2>3 DEF LostOnlyWithItsConfig
    <2>7. CASE files'[t] = files[t]
      <3>1. IsThere(t, l)
        BY <2>7 DEF LostOnlyWithItsConfig
      <3>2. \A e : Became(t, e) => Became(t, e)'
        BY <1>0, <2>3, <2>7, PluginsStay
      <3>3. QED
        BY <2>3, <2>7, <3>1, <3>2, ThereUntouched
    <2>8. CASE files'[t] # files[t]
      <3>1. t = Here /\ o.ok
        BY <2>2, <2>6, <2>8
      <3>2. files'[t] = <<Migrated(files[t][1])>> /\ files[t] # <<>>
        BY <2>2, <2>5, <2>6, <3>1
      <3>3. HasPlugins(files[t][1]) =>
                step' \in {"savePlugins", "plugins"} /\ at' = at /\ work' = work
        BY <2>1, <2>5, <3>1
      <3>4. QED
        BY <1>0, <2>3, <3>1, <3>2, <3>3, ThereMigrated
    <2>9. QED
      BY <2>7, <2>8
  <1>8. CASE Crash
    <2>1. UNCHANGED asked /\ step # "idle"
      BY <1>8 DEF Crash
    <2>2. CASE step \in {"savePlugins", "plugins"}
      <3>1. files' = files
        BY <2>2, CrashCases, <1>8
      <3>2. Unwrite(plugins, plugins', Config(work[1])) /\ faults' = faults + 1
        BY <1>8, <2>2 DEF Crash
      <3>3. faults' # 0
        BY <1>1, <3>2, RoomForAll DEF TypeOK
      <3>4. WrittenOver
        BY <3>2, <3>3 DEF WrittenOver
      <3>5. QED
        BY <1>0, <1>2, <2>1, <2>2, <3>1, <3>4, PluginsWrittenOver
    <2>3. CASE step \notin {"savePlugins", "plugins"}
      <3>1. UNCHANGED <<plugins, lost>>
        BY <1>8, <2>3, CrashCases DEF Crash
      <3>2. Here \in Templates
        BY <1>1, <2>1, HereIsThere
      <3>3. ASSUME NEW t \in Templates
            PROVE  files'[t] \in {files[t], <<>>}
        <4>1. CASE files' = files
          BY <4>1
        <4>2. CASE \E x \in {files[Here], <<>>} : files' = [files EXCEPT ![Here] = x]
          <5>1. PICK x \in {files[Here], <<>>} : files' = [files EXCEPT ![Here] = x]
            BY <4>2
          <5>2. files'[Here] = x /\ \A u \in Templates : u # Here => files'[u] = files[u]
            BY <1>1, <3>2, <5>1, Updated DEF FilesInv
          <5>3. QED
            BY <5>2
        <4>3. QED
          BY <1>8, <4>1, <4>2, CrashCases
      <3> SUFFICES ASSUME NEW t \in Templates, files'[t] # <<>>, NEW l \in asked[t]
                   PROVE  IsThere(t, l)'
        BY <2>1 DEF LostOnlyWithItsConfig
      <3>4. files'[t] = files[t]
        BY <3>3
      <3>5. IsThere(t, l)
        BY <3>4 DEF LostOnlyWithItsConfig
      <3>6. \A e : Became(t, e) => Became(t, e)'
        BY <1>0, <2>3, <3>1, <3>4, PluginsStay
      <3>7. QED
        BY <2>1, <3>4, <3>5, <3>6, ThereUntouched
    <2>4. QED
      BY <2>2, <2>3
  <1>9. CASE UserAnnotates
    <2>1. PICK u \in Templates, m \in Annotating :
            /\ files[u] # <<>> /\ IsTemplate(files[u][1])
            /\ \A x \in Range(files[u][1].lines) : <<x.prefix, x.key>> # <<m.prefix, m.key>>
            /\ files' = [files EXCEPT ![u] = <<With(files[u][1], m)>>]
            /\ asked' = [asked EXCEPT ![u] = @ \cup {m}]
      BY <1>1, <1>9, AnnotatesCases
    <2>2. /\ files'[u] = <<With(files[u][1], m)>>
          /\ \A t \in Templates : t # u => files'[t] = files[t]
      BY <1>1, <2>1, Updated DEF FilesInv
    <2>3. /\ asked'[u] = asked[u] \cup {m}
          /\ \A t \in Templates : t # u => asked'[t] = asked[t]
      BY <2>1, Updated DEF Asks
    <2>4. step = "idle" /\ step' = "idle" /\ UNCHANGED <<plugins, lost, faults>>
      BY <1>9 DEF UserAnnotates
    <2>5. files'[u][1] = With(files[u][1], m)
      BY <2>2
    <2>6. /\ files'[u][1].name = files[u][1].name
          /\ Range(files'[u][1].lines) = Range(files[u][1].lines) \cup {m}
      BY <2>1, <2>5, WithLine
    <2>7. ASSUME NEW e, Became(u, e)
          PROVE  Became(u, e)'
      <3>1. Link(files'[u][1]) = Link(files[u][1])
        BY <2>6 DEF Link
      <3>2. Link(files'[u][1]) \in Range(files'[u][1].lines)
        BY <2>6, <2>7, <3>1 DEF Became
      <3>3. InPlugins(u, e) => InPlugins(u, e)'
        BY <2>4, <2>6 DEF InPlugins
      <3>4. LostWithItsConfig(u, e) => LostWithItsConfig(u, e)'
        BY <2>4, <2>6 DEF LostWithItsConfig, lost
      <3>5. QED
        BY <2>7, <3>2, <3>3, <3>4 DEF Became
    <2>8. RedirectIsThere(u) => RedirectIsThere(u)'
      <3>1. m.key \notin Redirects
        BY NoRedirectAdded
      <3>2. QED
        BY <2>3, <2>6, <3>1 DEF RedirectIsThere
    <2> SUFFICES ASSUME NEW t \in Templates, files'[t] # <<>>, NEW l \in asked'[t]
                 PROVE  IsThere(t, l)'
      BY DEF LostOnlyWithItsConfig
    <2>9. CASE t # u
      <3>1. files'[t] = files[t] /\ asked'[t] = asked[t]
        BY <2>2, <2>3, <2>9
      <3>2. IsThere(t, l)
        BY <3>1 DEF LostOnlyWithItsConfig
      <3>3. \A e : Became(t, e) => Became(t, e)'
        BY <1>0, <2>4, <3>1, PluginsStay
      <3>4. QED
        BY <3>1, <3>2, <3>3, ThereUntouched
    <2>10. CASE t = u /\ l = m
      <3>1. l \in Range(files'[t][1].lines)
        BY <2>6, <2>10
      <3>2. QED
        BY <3>1 DEF IsThere
    <2>11. CASE t = u /\ l \in asked[u]
      <3>1. IsThere(u, l)
        BY <2>1, <2>11 DEF LostOnlyWithItsConfig
      <3>2. QED
        BY <2>6, <2>7, <2>8, <2>11, <3>1, ThereStays
    <2>12. QED
      BY <2>3, <2>9, <2>10, <2>11
  <1>10. CASE UNCHANGED vars
    <2>1. UNCHANGED <<files, asked, plugins, lost, step, at, work>>
      BY <1>10 DEF vars, disk, history
    <2>2. \A t : \A e : Became(t, e) => Became(t, e)'
      BY <1>0, <2>1, PluginsStay
    <2>3. QED
      BY <1>2, <2>1, <2>2
  <1>11. QED
    BY <1>4, <1>5, <1>6, <1>7, <1>8, <1>9, <1>10 DEF Next, RunStep

\* LostOnlyWithItsConfig: however often the migrator runs, wherever it fails or is killed
\* and whatever users add in between, each annotation a template ever had is in it still, or
\* what it is converted to is.  The only ones to be lost are those made into a plugin config,
\* and only with this config, when it makes room in the one file of all templates
\* (migrator.go:277) or when a failure or a kill leaves it out; without a failure each entry
\* is in the file, or about to be written to it, or was until a later config overwrote it.
THEOREM LostTheorem == Spec => []LostOnlyWithItsConfig
  <1>1. Init => Asks /\ LostOnlyWithItsConfig
    <2> SUFFICES ASSUME Init
                 PROVE  Asks /\ LostOnlyWithItsConfig
      OBVIOUS
    <2>1. /\ asked = [t \in Templates |-> Range(files[t][1].lines)]
          /\ \A t \in Templates : files[t][1] \in Charts[t]
      BY DEF Init
    <2>2. Asks
      BY <2>1, ChartAssumption DEF Asks, Templates
    <2>3. LostOnlyWithItsConfig
      BY <2>1 DEF LostOnlyWithItsConfig, IsThere
    <2>4. QED
      BY <2>2, <2>3
  <1>2. Spec => [](Asks /\ LostOnlyWithItsConfig)
    BY <1>1, AsksStep, LostStep, BaseAlways, PTL DEF Spec
  <1>3. QED
    BY <1>2, PTL
=============================================================================
