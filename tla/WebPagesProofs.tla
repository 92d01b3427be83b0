--------------------------- MODULE WebPagesProofs ---------------------------
(***************************************************************************)
(* Proofs about the pages of the web interface as WebApp composes them.    *)
(***************************************************************************)
EXTENDS WebApp, TLAPS

\* What the documentation page does, whatever route it is given.
DocsStep ==
    \/ \E route : Documentation!Mount(route) \/ Documentation!Open(route)
    \/ Documentation!Unmount
    \/ Documentation!Restart
    \/ Documentation!Gesture
    \/ Documentation!Arrival

\* What a step of the program is to the pages: a step of each page's own
\* specification, or none.
PagesStep ==
    /\ [Convert!Next]_convert
    /\ [Check!Next]_check
    /\ [DocsStep]_docs
    /\ [Manager!Next]_<<documents, library>>
    /\ [Admin!Next]_admin

\* A navigation mounts one page and unmounts the others, or keeps the page.
LEMMA ShowSteps ==
    ASSUME NEW path, Show(path)
    PROVE  PagesStep
  <1>1. [Convert!Next]_convert
    BY DEF Show, Keep, Replace, Convert!Next
  <1>2. [Check!Next]_check
    BY DEF Show, Keep, Replace, Check!Next
  <1>3. [DocsStep]_docs
    BY DEF Show, Keep, Replace, DocsStep
  <1>4. [Manager!Next]_<<documents, library>>
    BY DEF Show, Keep, Replace, Manager!Next, Documentation!Open
  <1>5. [Admin!Next]_admin
    BY DEF Show, Keep, Replace, Admin!Next
  <1> QED BY <1>1, <1>2, <1>3, <1>4, <1>5 DEF PagesStep

LEMMA PushSteps ==
    ASSUME NEW to, NEW hash, Push(to, hash)
    PROVE  PagesStep
  <1>1. CASE Proceed(to, hash)
    BY <1>1, ShowSteps DEF Proceed
  <1>2. CASE Divert(to)
    BY <1>2, ShowSteps DEF Divert
  <1>3. CASE Return(to)
    BY <1>3 DEF Return, pageVars, PagesStep
  <1> QED BY <1>1, <1>2, <1>3 DEF Push

\* Loading the program anew: the stores start afresh, the pages are gone.
LEMMA LoadSteps ==
    ASSUME NEW url, Load(url)
    PROVE  PagesStep
  <1> USE DEF Load
  <1>1. [Convert!Next]_convert
    BY DEF Convert!Next
  <1>2. [Check!Next]_check
    BY DEF Check!Next
  <1>3. [DocsStep]_docs
    BY DEF DocsStep
  <1>4. [Manager!Next]_<<documents, library>>
    BY DEF Manager!Next
  <1>5. [Admin!Next]_admin
    BY DEF Admin!Next
  <1> QED BY <1>1, <1>2, <1>3, <1>4, <1>5 DEF PagesStep

\* Every action of the program is a step of each page, or none.
LEMMA PageSteps ==
    ASSUME [Next]_vars
    PROVE  PagesStep
  <1> USE DEF PagesStep, pageVars, Elsewhere
  <1>1. CASE Start
    BY <1>1, ShowSteps DEF Start
  <1>2. CASE ClickTab
    BY <1>2, PushSteps DEF ClickTab
  <1>3. CASE SelectDoc
    BY <1>3, PushSteps DEF SelectDoc
  <1>4. CASE ClickDocLink
    BY <1>4, PushSteps DEF ClickDocLink
  <1>5. CASE ClickSection
    BY <1>5 DEF ClickSection
  <1>6. CASE Reload
    BY <1>6, LoadSteps DEF Reload
  <1>7. CASE ToggleTheme
    BY <1>7 DEF ToggleTheme
  <1>8. CASE UseLogin
    BY <1>8 DEF UseLogin
  <1>9. CASE UseConvert
    BY <1>9 DEF UseConvert, Convert!Next
  <1>10. CASE UseCheck
    BY <1>10 DEF UseCheck, Check!Next
  <1>11. CASE UseDocs
    <2>1. library' = library
      BY <1>11 DEF UseDocs, Documentation!Gesture, Documentation!ToggleDir,
                   Documentation!ToggleSidebar, Documentation!Search,
                   Documentation!Resize
    <2> QED BY <1>11, <2>1 DEF UseDocs, DocsStep
  <1>12. CASE UseManager
    BY <1>12 DEF UseManager, Manager!Next
  <1>13. CASE UseAdmin
    BY <1>13 DEF UseAdmin, Admin!Next
  <1>14. CASE ConvertArrival
    BY <1>14 DEF ConvertArrival, Convert!Next
  <1>15. CASE CheckArrival
    BY <1>15 DEF CheckArrival, Check!Next
  <1>16. CASE DocsArrival
    <2>1. library' = library
      BY <1>16 DEF DocsArrival, Documentation!Arrival, Documentation!LoadFound,
                   Documentation!LoadFailed, Documentation!ListArrived,
                   Documentation!DrawDiagrams
    <2> QED BY <1>16, <2>1 DEF DocsArrival, DocsStep
  <1>17. CASE ManagerArrival
    BY <1>17 DEF ManagerArrival, Manager!Next
  <1>18. CASE AdminArrival
    BY <1>18 DEF AdminArrival, Admin!Next
  <1>19. CASE LoginAccepted
    BY <1>19, PushSteps DEF LoginAccepted
  <1>20. CASE LoginFailed
    BY <1>20 DEF LoginFailed
  <1>21. CASE Unauthorized
    BY <1>21, LoadSteps DEF Unauthorized
  <1>22. CASE UNCHANGED vars
    BY <1>22 DEF vars
  <1> QED BY <1>1, <1>2, <1>3, <1>4, <1>5, <1>6, <1>7, <1>8, <1>9, <1>10, <1>11,
             <1>12, <1>13, <1>14, <1>15, <1>16, <1>17, <1>18, <1>19, <1>20, <1>21,
             <1>22 DEF Next

-----------------------------------------------------------------------------
(* The convert page.                                                       *)

\* Unless requests overlapped, at most one is out, and it is the latest.
LoneCallIsLatest ==
    ~convert.crossed =>
        \A c \in convert.calls : convert.calls = {c} /\ c.request = convert.latest

ConvertInv ==
    /\ Convert!TypeOK
    /\ Convert!SpinnerMeansCall
    /\ Convert!OneAnswerShown
    /\ LoneCallIsLatest

LEMMA ConvertInvInit ==
    ASSUME Convert!Init
    PROVE  ConvertInv
  <1> USE ConvertAssumption
  <1>1. Convert!TypeOK
    BY DEF Convert!Init, Convert!Fresh, Convert!TypeOK
  <1>2. Convert!SpinnerMeansCall /\ Convert!OneAnswerShown /\ LoneCallIsLatest
    BY DEF Convert!Init, Convert!Fresh, Convert!SpinnerMeansCall, Convert!OneAnswerShown,
           Convert!Shown, LoneCallIsLatest
  <1> QED BY <1>1, <1>2 DEF ConvertInv

\* A request that is sent is numbered, well-formed and the latest; the answer
\* on screen goes.
LEMMA SendKeepsInv ==
    ASSUME ConvertInv, Convert!Send
    PROVE  ConvertInv'
  <1> USE DEF ConvertInv
  <1>1. PICK n \in Convert!FreeNumbers :
          convert' = [convert EXCEPT
            !.loading = TRUE, !.error = None, !.outputYaml = None, !.result = None,
            !.calls = @ \cup {[no |-> n, request |-> Convert!Pending]},
            !.latest = Convert!Pending, !.crossed = convert.calls # {}]
    BY DEF Convert!Send
  <1>2. Convert!Pending \in Convert!Request
    BY DEF Convert!Send, Convert!Pending, Convert!Request, Convert!TypeOK
  <1>3. [no |-> n, request |-> Convert!Pending] \in Convert!Call
    BY <1>2 DEF Convert!Call, Convert!FreeNumbers
  <1>4. Convert!TypeOK'
    BY <1>1, <1>2, <1>3 DEF Convert!TypeOK
  <1>5. Convert!SpinnerMeansCall' /\ Convert!OneAnswerShown'
    BY <1>1 DEF Convert!TypeOK, Convert!SpinnerMeansCall, Convert!OneAnswerShown, Convert!Shown
  <1>6. LoneCallIsLatest'
    <2> DEFINE call == [no |-> n, request |-> Convert!Pending]
    <2>1. /\ convert'.calls = convert.calls \cup {call}
          /\ convert'.crossed = (convert.calls # {})
          /\ convert'.latest = Convert!Pending
      BY <1>1 DEF Convert!TypeOK
    <2>2. call.request = Convert!Pending
      OBVIOUS
    <2> HIDE DEF call
    <2> QED BY <2>1, <2>2 DEF LoneCallIsLatest
  <1> QED BY <1>4, <1>5, <1>6

\* The end of a call, whatever it shows.
LEMMA AnswerKeepsInv ==
    ASSUME ConvertInv, NEW c \in Convert!Call,
           Convert!Converted(c) \/ Convert!Refused(c) \/ Convert!Failed(c)
    PROVE  ConvertInv'
  <1> USE DEF ConvertInv, Convert!Converted, Convert!Refused, Convert!Failed, Convert!Finished
  <1>1. c \in convert.calls /\ c.request \in Convert!Request
    BY DEF Convert!Call
  <1>2. Convert!TypeOK'
    BY <1>1 DEF Convert!TypeOK
  <1>3. convert'.calls = convert.calls \ {c} /\ ~convert'.loading
        /\ convert'.crossed = convert.crossed /\ convert'.latest = convert.latest
    BY DEF Convert!TypeOK
  <1>4. Convert!SpinnerMeansCall' /\ LoneCallIsLatest'
    BY <1>3 DEF Convert!SpinnerMeansCall, LoneCallIsLatest
  <1>5. Convert!OneAnswerShown'
    <2> SUFFICES ASSUME ~convert'.crossed
                 PROVE  /\ convert'.loading <=> convert'.calls # {}
                        /\ convert'.loading => Convert!Shown' = {}
                        /\ Convert!Shown' \subseteq {convert'.latest}
                        /\ convert'.outputYaml = None \/ convert'.error = None
      BY DEF Convert!OneAnswerShown
    <2>1. convert.calls = {c} /\ c.request = convert.latest /\ convert.loading
      BY <1>1, <1>3 DEF LoneCallIsLatest, Convert!OneAnswerShown
    <2>2. convert.result = None /\ convert.outputYaml = None /\ convert.error = None
      BY <1>3, <2>1 DEF Convert!OneAnswerShown, Convert!Shown
    <2> QED BY <1>3, <2>1, <2>2 DEF Convert!TypeOK, Convert!Shown
  <1> QED BY <1>2, <1>4, <1>5

\* What touches neither calls nor answers, or takes the answers away.
LEMMA TypingKeepsInv ==
    ASSUME ConvertInv,
           \/ Convert!Mount \/ Convert!Unmount
           \/ \E t \in Texts \cup {Blank} : Convert!Type(t)
           \/ Convert!LoadExample
           \/ \E o \in Options : Convert!SetOptions(o)
           \/ \E t \in Texts : Convert!ChooseFile(t)
           \/ \E t \in Texts : Convert!FileRead(t)
           \/ Convert!Clear
    PROVE  ConvertInv'
  <1> USE ConvertAssumption DEF ConvertInv
  <1>1. Convert!TypeOK'
    <2>1. CASE Convert!Mount \/ Convert!Unmount
      BY <2>1 DEF Convert!TypeOK, Convert!Mount, Convert!Unmount
    <2>2. ASSUME NEW t \in Texts \cup {Blank}, Convert!Type(t)
          PROVE  Convert!TypeOK'
      BY <2>2 DEF Convert!TypeOK, Convert!Type
    <2>3. CASE Convert!LoadExample
      BY <2>3 DEF Convert!TypeOK, Convert!LoadExample, Convert!Type
    <2>4. ASSUME NEW o \in Options, Convert!SetOptions(o)
          PROVE  Convert!TypeOK'
      BY <2>4 DEF Convert!TypeOK, Convert!SetOptions
    <2>5. ASSUME NEW t \in Texts, Convert!ChooseFile(t) \/ Convert!FileRead(t)
          PROVE  Convert!TypeOK'
      <3>1. convert.reading \cup {t} \subseteq Texts /\ convert.reading \ {t} \subseteq Texts
        BY DEF Convert!TypeOK
      <3>2. CASE Convert!ChooseFile(t)
        BY <3>1, <3>2 DEF Convert!TypeOK, Convert!ChooseFile
      <3>3. CASE Convert!FileRead(t)
        BY <3>1, <3>3 DEF Convert!TypeOK, Convert!FileRead
      <3> QED BY <2>5, <3>2, <3>3
    <2>6. CASE Convert!Clear
      BY <2>6 DEF Convert!TypeOK, Convert!Clear
    <2> QED BY <2>1, <2>2, <2>3, <2>4, <2>5, <2>6
  <1>2. /\ convert'.calls = convert.calls /\ convert'.loading = convert.loading
        /\ convert'.crossed = convert.crossed /\ convert'.latest = convert.latest
    BY DEF Convert!TypeOK, Convert!Mount, Convert!Unmount, Convert!Type, Convert!LoadExample,
           Convert!SetOptions, Convert!ChooseFile, Convert!FileRead, Convert!Clear
  <1>3. Convert!SpinnerMeansCall' /\ LoneCallIsLatest'
    BY <1>2 DEF Convert!SpinnerMeansCall, LoneCallIsLatest
  <1>4. \/ convert'.result = convert.result /\ convert'.outputYaml = convert.outputYaml
             /\ convert'.error = convert.error
        \/ convert'.result = None /\ convert'.outputYaml = None /\ convert'.error = None
    BY DEF Convert!TypeOK, Convert!Mount, Convert!Unmount, Convert!Type, Convert!LoadExample,
           Convert!SetOptions, Convert!ChooseFile, Convert!FileRead, Convert!Clear
  <1>5. Convert!OneAnswerShown'
    BY <1>2, <1>4 DEF Convert!OneAnswerShown, Convert!Shown
  <1> QED BY <1>1, <1>3, <1>5

LEMMA ConvertInvStep ==
    ASSUME ConvertInv, [Convert!Next]_convert
    PROVE  ConvertInv'
  <1>1. CASE Convert!Restart
    BY <1>1, ConvertInvInit, ConvertAssumption
       DEF Convert!Restart, Convert!Init, Convert!Fresh, ConvertInv, Convert!TypeOK,
           Convert!SpinnerMeansCall, Convert!OneAnswerShown, Convert!Shown, LoneCallIsLatest
  <1>2. CASE Convert!PressConvert \/ Convert!ShortcutConvert
    BY <1>2, SendKeepsInv DEF Convert!PressConvert, Convert!ShortcutConvert
  <1>3. CASE \E c \in Convert!Call :
               Convert!Converted(c) \/ Convert!Refused(c) \/ Convert!Failed(c)
    BY <1>3, AnswerKeepsInv
  <1>4. CASE UNCHANGED convert
    BY <1>4 DEF ConvertInv, Convert!TypeOK, Convert!SpinnerMeansCall,
                Convert!OneAnswerShown, Convert!Shown, LoneCallIsLatest
  <1> QED BY <1>1, <1>2, <1>3, <1>4, TypingKeepsInv
          DEF Convert!Next, Convert!Gesture, Convert!Arrival

\* The program keeps the convert page's own specification: whatever the rest
\* of the interface does is to it a step of its own or none.
THEOREM ImplementsConvertPage == Spec => Convert!Spec
  <1>1. Init => Convert!Init
    BY DEF Init
  <1>2. [Next]_vars => [Convert!Next]_convert
    BY PageSteps DEF PagesStep
  <1> QED BY <1>1, <1>2, PTL DEF Spec, Convert!Spec

\* Whatever the user does and however answers interleave, unless the shortcut
\* overlapped requests the page shows one answer, that of the last request.
THEOREM AlwaysOneAnswerShown == Spec => [](OneAnswerShown /\ Convert!SpinnerMeansCall)
  <1>1. Init => ConvertInv
    BY ConvertInvInit DEF Init
  <1>2. ConvertInv /\ [Next]_vars => ConvertInv'
    BY PageSteps, ConvertInvStep DEF PagesStep
  <1>3. ConvertInv => OneAnswerShown /\ Convert!SpinnerMeansCall
    BY DEF ConvertInv, OneAnswerShown
  <1> QED BY <1>1, <1>2, <1>3, PTL DEF Spec

-----------------------------------------------------------------------------
(* The check page.                                                         *)

\* The only check that is out is the latest, and the page is empty meanwhile.
CheckInv ==
    /\ Check!TypeOK
    /\ check.loading <=> check.calls # {}
    /\ \A c \in check.calls : check.calls = {c} /\ c.yaml = check.latest
    /\ check.loading => check.result = None /\ check.error = None
    /\ check.result \in {None, check.latest} /\ check.error \in {None, check.latest}
    /\ check.result = None \/ check.error = None

LEMMA CheckInvInit ==
    ASSUME check = Check!Fresh \/ check = [Check!Fresh EXCEPT !.mounted = TRUE]
    PROVE  CheckInv
  <1>1. CASE check = Check!Fresh
    BY <1>1 DEF Check!Fresh, CheckInv, Check!TypeOK
  <1>2. CASE check = [Check!Fresh EXCEPT !.mounted = TRUE]
    BY <1>2 DEF Check!Fresh, CheckInv, Check!TypeOK
  <1> QED BY <1>1, <1>2

LEMMA PressCheckKeepsInv ==
    ASSUME CheckInv, Check!PressCheck
    PROVE  CheckInv'
  <1> USE DEF CheckInv, Check!PressCheck
  <1> DEFINE no == CHOOSE n \in Check!FreeNumbers : TRUE
             call == [no |-> no, yaml |-> check.inputYaml]
  <1>1. call \in Check!Call /\ call.yaml = check.inputYaml
    <2>1. no \in Check!FreeNumbers
      OBVIOUS
    <2>2. no \in 1..MaxCalls /\ check.inputYaml \in Texts
      BY <2>1 DEF Check!TypeOK, Check!FreeNumbers
    <2> QED BY <2>2 DEF Check!Call
  <1>2. check' = [check EXCEPT !.loading = TRUE, !.error = None, !.result = None,
                               !.latest = check.inputYaml, !.calls = @ \cup {call}]
    BY DEF Check!Sent
  <1>3. check.calls = {} /\ check.inputYaml \in Texts
    BY DEF Check!TypeOK
  <1> HIDE DEF call
  <1>4. Check!TypeOK'
    <2>1. check.calls \cup {call} \subseteq Check!Call
      BY <1>1 DEF Check!TypeOK
    <2> QED BY <1>2, <1>3, <2>1 DEF Check!TypeOK
  <1> QED BY <1>1, <1>2, <1>3, <1>4 DEF Check!TypeOK

LEMMA ReportKeepsInv ==
    ASSUME CheckInv, NEW c, Check!Reported(c) \/ Check!Failed(c)
    PROVE  CheckInv'
  <1> USE DEF CheckInv, Check!Reported, Check!Failed, Check!Finished
  <1>1. c \in Check!Call /\ check.calls = {c} /\ c.yaml = check.latest /\ c.yaml \in Texts
    BY DEF Check!TypeOK, Check!Call
  <1>2. Check!TypeOK'
    BY <1>1 DEF Check!TypeOK
  <1> QED BY <1>1, <1>2 DEF Check!TypeOK

LEMMA CheckInvStep ==
    ASSUME CheckInv, [Check!Next]_check
    PROVE  CheckInv'
  <1> USE DEF CheckInv
  <1>1. CASE Check!Mount \/ Check!Unmount
    <2>1. \/ check' = Check!Fresh
          \/ check' = [Check!Fresh EXCEPT !.mounted = TRUE]
      BY <1>1 DEF Check!Mount, Check!Unmount
    <2>2. CASE check' = Check!Fresh
      BY <2>2 DEF Check!Fresh, Check!TypeOK
    <2>3. CASE check' = [Check!Fresh EXCEPT !.mounted = TRUE]
      BY <2>3 DEF Check!Fresh, Check!TypeOK
    <2> QED BY <2>1, <2>2, <2>3
  <1>2. ASSUME NEW t \in Texts \cup {Blank}, Check!Type(t)
        PROVE  CheckInv'
    BY <1>2 DEF Check!Type, Check!TypeOK
  <1>3. CASE Check!LoadExample
    BY <1>2, <1>3, ConvertAssumption DEF Check!LoadExample
  <1>4. ASSUME NEW t \in Texts, Check!ChooseFile(t)
        PROVE  CheckInv'
    <2>1. check.reading \cup {t} \subseteq Texts
      BY DEF Check!TypeOK
    <2> QED BY <1>4, <2>1 DEF Check!ChooseFile, Check!TypeOK
  <1>5. ASSUME NEW t \in Texts, Check!FileRead(t)
        PROVE  CheckInv'
    BY <1>5 DEF Check!FileRead, Check!TypeOK
  <1>6. CASE Check!PressCheck
    BY <1>6, PressCheckKeepsInv
  <1>7. CASE Check!Clear
    BY <1>7 DEF Check!Clear, Check!TypeOK
  <1>8. ASSUME NEW c \in Check!Call, Check!Reported(c) \/ Check!Failed(c)
        PROVE  CheckInv'
    BY <1>8, ReportKeepsInv
  <1>9. CASE UNCHANGED check
    BY <1>9 DEF Check!TypeOK
  <1> HIDE DEF CheckInv
  <1> QED BY <1>1, <1>2, <1>3, <1>4, <1>5, <1>6, <1>7, <1>8, <1>9
          DEF Check!Next, Check!Gesture, Check!Arrival

\* Clear, a late file and a report that arrives after either never make the
\* check page mix two checks, for any texts and any number of calls.
THEOREM AlwaysOneCheckAtATime == Spec => []OneCheckAtATime
  <1>1. Init => CheckInv
    BY CheckInvInit DEF Init, Check!Init
  <1>2. CheckInv /\ [Next]_vars => CheckInv'
    BY PageSteps, CheckInvStep DEF PagesStep
  <1>3. CheckInv => OneCheckAtATime
    BY DEF CheckInv, OneCheckAtATime, Check!OneCheckAtATime
  <1> QED BY <1>1, <1>2, <1>3, PTL DEF Spec

-----------------------------------------------------------------------------
(* The administration page.                                                *)

\* The only save that is out is the one the disabled button stands for.
AdminInv ==
    /\ Admin!TypeOK
    /\ admin.saving <=> admin.saves # {}
    /\ \A s \in admin.saves : admin.saves = {s}

LEMMA SaveKeepsInv ==
    ASSUME AdminInv, Admin!SaveAnnouncement
    PROVE  AdminInv'
  <1> USE DEF AdminInv, Admin!SaveAnnouncement
  <1> DEFINE no == CHOOSE n \in Admin!FreeNumbers : TRUE
             save == [no |-> no, step |-> "post", complete |-> admin.complete]
  <1>1. save \in Admin!Save
    <2>1. no \in Admin!FreeNumbers
      OBVIOUS
    <2>2. no \in 1..MaxSaves /\ admin.complete \in BOOLEAN
      BY <2>1 DEF Admin!TypeOK, Admin!FreeNumbers
    <2> QED BY <2>2 DEF Admin!Save
  <1>2. admin' = [admin EXCEPT !.saving = TRUE, !.saves = @ \cup {save}]
    BY DEF Admin!Posted
  <1>3. admin.saves = {}
    BY DEF Admin!TypeOK
  <1> HIDE DEF save
  <1>4. admin.saves \cup {save} = {save} /\ {save} \subseteq Admin!Save
    BY <1>1, <1>3
  <1>5. Admin!TypeOK'
    BY <1>2, <1>4 DEF Admin!TypeOK
  <1> QED BY <1>2, <1>4, <1>5 DEF Admin!TypeOK

\* A save goes on to fetch the list, or ends.
LEMMA SaveGoesOn ==
    ASSUME AdminInv, NEW s \in Admin!Save, NEW rows \in SUBSET Admin!AnswerFields,
           Admin!SaveAccepted(s) \/ Admin!SaveRejected(s) \/ Admin!SaveListed(s, rows)
    PROVE  AdminInv'
  <1> USE DEF AdminInv
  <1>1. CASE Admin!SaveAccepted(s)
    <2> DEFINE t == [s EXCEPT !.step = "reload"]
    <2>1. t \in Admin!Save
      BY DEF Admin!Save
    <2> HIDE DEF t
    <2>2. admin.saves = {s} /\ admin.saving
      BY <1>1 DEF Admin!SaveAccepted
    <2>3. (admin.saves \ {s}) \cup {t} = {t} /\ {t} \subseteq Admin!Save
      BY <2>1, <2>2
    <2>4. admin' = [admin EXCEPT !.showForm = FALSE, !.saves = {t}]
      BY <1>1, <2>3 DEF Admin!SaveAccepted, t
    <2> QED BY <2>2, <2>3, <2>4 DEF Admin!TypeOK
  <1>2. CASE Admin!SaveRejected(s)
    BY <1>2 DEF Admin!SaveRejected, Admin!TypeOK
  <1>3. CASE Admin!SaveListed(s, rows)
    BY <1>3 DEF Admin!SaveListed, Admin!TypeOK
  <1> HIDE DEF AdminInv
  <1> QED BY <1>1, <1>2, <1>3

LEMMA AdminInvStep ==
    ASSUME AdminInv, [Admin!Next]_admin
    PROVE  AdminInv'
  <1> USE DEF AdminInv
  <1>0. /\ MaxLists \in Nat /\ 1 \in 0..MaxLists
        /\ MaxDeletes \in Nat
    BY AdminAssumption, DocsAssumption
  <1>1. CASE Admin!Mount \/ Admin!Unmount
    <2>1. CASE Admin!Mount
      <3>1. admin' = [mounted |-> TRUE, rows |-> {}, showForm |-> FALSE, complete |-> FALSE,
                      saving |-> FALSE, saves |-> {}, lists |-> 1, deletes |-> 0]
        BY <2>1 DEF Admin!Mount, Admin!Fresh
      <3> QED BY <1>0, <3>1 DEF Admin!TypeOK
    <2>2. CASE Admin!Unmount
      BY <1>0, <2>2 DEF Admin!Unmount, Admin!Fresh, Admin!TypeOK
    <2> QED BY <1>1, <2>1, <2>2
  <1>2. CASE Admin!Refresh
    BY <1>0, <1>2 DEF Admin!Refresh, Admin!TypeOK
  <1>3. CASE Admin!ShowNewForm \/ Admin!EditAnnouncement \/ Admin!Cancel
    BY <1>3 DEF Admin!ShowNewForm, Admin!EditAnnouncement, Admin!Cancel, Admin!TypeOK
  <1>4. ASSUME NEW done \in BOOLEAN, Admin!FillForm(done)
        PROVE  AdminInv'
    BY <1>4 DEF Admin!FillForm, Admin!TypeOK
  <1>5. CASE Admin!SaveAnnouncement
    BY <1>5, SaveKeepsInv
  <1>6. CASE Admin!DeleteAnnouncement
    BY <1>0, <1>6 DEF Admin!DeleteAnnouncement, Admin!TypeOK
  <1>7. ASSUME NEW s \in Admin!Save, NEW rows \in {Admin!AnswerFields, admin.rows},
               Admin!SaveAccepted(s) \/ Admin!SaveRejected(s) \/ Admin!SaveListed(s, rows)
        PROVE  AdminInv'
    <2>1. rows \in SUBSET Admin!AnswerFields
      BY DEF Admin!TypeOK
    <2> QED BY <1>7, <2>1, SaveGoesOn
  <1>8. ASSUME NEW rows \in {Admin!AnswerFields, admin.rows}, Admin!Listed(rows)
        PROVE  AdminInv'
    <2>1. rows \in SUBSET Admin!AnswerFields
      BY DEF Admin!TypeOK
    <2>2. admin.lists - 1 \in 0..MaxLists
      BY <1>0, <1>8 DEF Admin!Listed, Admin!TypeOK
    <2>3. admin' = [admin EXCEPT !.lists = admin.lists - 1, !.rows = rows]
      BY <1>8 DEF Admin!Listed
    <2> QED BY <2>1, <2>2, <2>3 DEF Admin!TypeOK
  <1>9. CASE Admin!DeleteRejected
    BY <1>0, <1>9 DEF Admin!DeleteRejected, Admin!TypeOK
  <1>10. CASE UNCHANGED admin
    BY <1>10 DEF Admin!TypeOK
  <1> HIDE DEF AdminInv
  <1> QED BY <1>1, <1>2, <1>3, <1>4, <1>5, <1>6, <1>7, <1>8, <1>9, <1>10
          DEF Admin!Next, Admin!Gesture, Admin!Arrival

\* However forms are opened, closed and reopened while a save is out, and
\* whatever lists arrive meanwhile, a second save waits for the first.
THEOREM AlwaysOneSaveAtATime == Spec => []OneSaveAtATime
  <1>1. Init => AdminInv
    BY AdminAssumption, DocsAssumption
       DEF Init, Admin!Init, Admin!Fresh, AdminInv, Admin!TypeOK
  <1>2. AdminInv /\ [Next]_vars => AdminInv'
    BY PageSteps, AdminInvStep DEF PagesStep
  <1>3. AdminInv => OneSaveAtATime
    BY DEF AdminInv, OneSaveAtATime, Admin!OneSaveAtATime
  <1> QED BY <1>1, <1>2, <1>3, PTL DEF Spec

-----------------------------------------------------------------------------
(* The document manager.                                                   *)

\* The parts of the type the argument rests on, and: uploads that never
\* overlapped are one.
DocumentsInv ==
    /\ Manager!TypeOK
    /\ Manager!SelectionListed
    /\ Manager!ListedReachedServer
    /\ Manager!UploadingMeansUpload
    /\ ~documents.crossed => \A u, v \in documents.uploads : u = v

LEMMA DocumentsInvFresh ==
    ASSUME NEW orphans \in SUBSET SUBSET Markdown, NEW opened \in BOOLEAN,
           documents = [mounted |-> opened, list |-> {}, selected |-> {},
                        preview |-> Nothing, category |-> "All", searching |-> FALSE,
                        uploading |-> FALSE, uploads |-> {}, orphans |-> orphans,
                        sent |-> 0, crossed |-> FALSE, skipped |-> {}]
    PROVE  DocumentsInv
  <1>1. 0 \in 0..MaxUploads
    BY DocumentsAssumption
  <1>2. Manager!TypeOK
    BY <1>1 DEF Manager!TypeOK, Manager!Categories
  <1>3. /\ documents.list = {} /\ documents.selected = {} /\ documents.preview = Nothing
        /\ documents.uploading = FALSE /\ documents.uploads = {}
    OBVIOUS
  <1> QED BY <1>2, <1>3 DEF DocumentsInv, Manager!SelectionListed,
             Manager!ListedReachedServer, Manager!UploadingMeansUpload

\* Leaving the page leaves its uploads behind.
LEMMA LeftTyped ==
    ASSUME DocumentsInv
    PROVE  Manager!Left \in SUBSET SUBSET Markdown
  BY DEF DocumentsInv, Manager!Left, Manager!TypeOK, Manager!Upload

LEMMA UploadKeepsInv ==
    ASSUME DocumentsInv, NEW files \in SUBSET Files, Manager!UploadFiles(files)
    PROVE  DocumentsInv'
  <1> USE DEF DocumentsInv
  <1> DEFINE upload == [no |-> documents.sent + 1, files |-> files \cap Markdown]
  <1>1. documents.sent + 1 \in 1..MaxUploads /\ documents.sent + 1 \in 0..MaxUploads
    BY DocumentsAssumption DEF Manager!UploadFiles, Manager!TypeOK
  <1>2. upload \in Manager!Upload
    BY <1>1 DEF Manager!Upload
  <1>3. documents' = [documents EXCEPT
          !.uploading = TRUE, !.sent = documents.sent + 1,
          !.crossed = documents.crossed \/ documents.uploads # {},
          !.uploads = documents.uploads \cup {upload}]
        /\ library' = library
    BY DEF Manager!UploadFiles
  <1> HIDE DEF upload
  <1>4. documents.uploads \cup {upload} \subseteq Manager!Upload
        /\ documents.uploads \cup {upload} # {}
    BY <1>2 DEF Manager!TypeOK
  <1>5. Manager!TypeOK'
    BY <1>1, <1>3, <1>4 DEF Manager!TypeOK
  <1>6. Manager!SelectionListed' /\ Manager!ListedReachedServer'
    BY <1>3 DEF Manager!TypeOK, Manager!SelectionListed, Manager!ListedReachedServer
  <1>7. Manager!UploadingMeansUpload'
    BY <1>3, <1>4 DEF Manager!TypeOK, Manager!UploadingMeansUpload
  <1>8. (~documents.crossed => \A u, v \in documents.uploads : u = v)'
    BY <1>3 DEF Manager!TypeOK
  <1> QED BY <1>5, <1>6, <1>7, <1>8

\* An upload ends: with success, its files are listed, those the server could
\* not write are known to history.
LEMMA UploadEndKeepsInv ==
    ASSUME DocumentsInv, NEW u \in Manager!Upload, NEW stored \in SUBSET u.files,
           Manager!Uploaded(u, stored) \/ Manager!UploadFailed(u)
    PROVE  DocumentsInv'
  <1> USE DEF DocumentsInv
  <1>1. u.no \in 1..MaxUploads /\ u.files \subseteq Markdown /\ u.files \subseteq Files
    BY DocumentsAssumption DEF Manager!Upload
  <1>2. Manager!Listed(u) \subseteq Manager!Doc
        /\ \A d \in Manager!Listed(u) : d.name \in u.files
    BY <1>1 DEF Manager!Listed, Manager!Doc
  <1>3. /\ u \in documents.uploads
        /\ documents'.uploads = documents.uploads \ {u}
        /\ ~documents'.uploading
        /\ documents'.crossed = documents.crossed
        /\ documents'.selected = documents.selected
        /\ documents'.preview = documents.preview
    BY DEF Manager!Uploaded, Manager!UploadFailed, Manager!TypeOK
  <1>4. CASE Manager!Uploaded(u, stored)
    <2>1. documents' = [documents EXCEPT
            !.uploads = documents.uploads \ {u}, !.uploading = FALSE,
            !.list = documents.list \cup Manager!Listed(u),
            !.skipped = documents.skipped \cup (u.files \ stored)]
          /\ library' = library \cup stored
      BY <1>4 DEF Manager!Uploaded
    <2>2. documents.list \cup Manager!Listed(u) \subseteq Manager!Doc
          /\ documents.skipped \cup (u.files \ stored) \subseteq Files
          /\ documents.uploads \ {u} \subseteq Manager!Upload
      BY <1>1, <1>2 DEF Manager!TypeOK
    <2>3. Manager!TypeOK'
      BY <2>1, <2>2 DEF Manager!TypeOK
    <2>4. /\ documents'.list = documents.list \cup Manager!Listed(u)
          /\ documents'.skipped = documents.skipped \cup (u.files \ stored)
      BY <2>1 DEF Manager!TypeOK
    <2>5. Manager!ListedReachedServer'
      BY <1>1, <1>2, <2>1, <2>4 DEF Manager!ListedReachedServer
    <2>6. Manager!SelectionListed'
      BY <1>3, <2>4 DEF Manager!SelectionListed
    <2>7. Manager!UploadingMeansUpload'
          /\ (~documents.crossed => \A v, w \in documents.uploads : v = w)'
      BY <1>3 DEF Manager!UploadingMeansUpload
    <2> QED BY <2>3, <2>5, <2>6, <2>7
  <1>5. CASE Manager!UploadFailed(u)
    <2>1. documents' = [documents EXCEPT !.uploads = documents.uploads \ {u},
                                         !.uploading = FALSE,
                                         !.orphans = documents.orphans \cup {u.files}]
          /\ library' = library
      BY <1>5 DEF Manager!UploadFailed
    <2>2. Manager!TypeOK'
      <3>1. documents.orphans \cup {u.files} \in SUBSET SUBSET Markdown
        BY <1>1 DEF Manager!TypeOK
      <3> QED BY <2>1, <3>1 DEF Manager!TypeOK
    <2>3. Manager!SelectionListed' /\ Manager!ListedReachedServer'
      BY <2>1 DEF Manager!TypeOK, Manager!SelectionListed, Manager!ListedReachedServer
    <2>4. Manager!UploadingMeansUpload'
          /\ (~documents.crossed => \A v, w \in documents.uploads : v = w)'
      BY <1>3 DEF Manager!UploadingMeansUpload
    <2> QED BY <2>2, <2>3, <2>4
  <1> HIDE DEF DocumentsInv
  <1> QED BY <1>4, <1>5

\* A page opened or left: nothing is listed.
LEMMA FreshPageKeepsInv ==
    ASSUME DocumentsInv, Manager!Mount \/ Manager!Unmount
    PROVE  DocumentsInv'
  <1>1. Manager!Left \in SUBSET SUBSET Markdown
    BY LeftTyped
  <1>2. PICK opened \in BOOLEAN :
          documents' = [mounted |-> opened, list |-> {}, selected |-> {},
                        preview |-> Nothing, category |-> "All", searching |-> FALSE,
                        uploading |-> FALSE, uploads |-> {}, orphans |-> Manager!Left,
                        sent |-> 0, crossed |-> FALSE, skipped |-> {}]
    BY DEF Manager!Mount, Manager!Unmount, Manager!Fresh
  <1>3. 0 \in 0..MaxUploads
    BY DocumentsAssumption
  <1>4. Manager!TypeOK'
    BY <1>1, <1>2, <1>3 DEF Manager!TypeOK, Manager!Categories
  <1>5. /\ documents'.list = {} /\ documents'.selected = {} /\ documents'.preview = Nothing
        /\ documents'.uploading = FALSE /\ documents'.uploads = {}
    BY <1>2
  <1> QED BY <1>4, <1>5 DEF DocumentsInv, Manager!SelectionListed,
             Manager!ListedReachedServer, Manager!UploadingMeansUpload

\* What is selected or previewed is taken from the list, and leaves with it.
LEMMA SelectionKeepsInv ==
    ASSUME DocumentsInv,
           \/ \E d \in Manager!Doc : Manager!ToggleSelect(d) \/ Manager!OpenDoc(d)
           \/ Manager!SelectAll
           \/ Manager!DeleteSelected
           \/ Manager!ClosePreview
           \/ \E c \in Manager!Categories : Manager!SetCategory(c)
           \/ \E on \in BOOLEAN : Manager!Search(on)
    PROVE  DocumentsInv'
  <1> USE DEF DocumentsInv
  <1>0. Manager!FilteredDocs \subseteq documents.list
    BY DEF Manager!FilteredDocs
  <1>1. /\ documents'.uploads = documents.uploads
        /\ documents'.uploading = documents.uploading
        /\ documents'.crossed = documents.crossed
        /\ documents'.skipped = documents.skipped
        /\ documents'.list \subseteq documents.list
        /\ library' = library
    BY DEF Manager!ToggleSelect, Manager!OpenDoc, Manager!SelectAll, Manager!DeleteSelected,
           Manager!ClosePreview, Manager!SetCategory, Manager!Search, Manager!TypeOK
  <1>2. Manager!ListedReachedServer' /\ Manager!UploadingMeansUpload'
        /\ (~documents.crossed => \A u, v \in documents.uploads : u = v)'
    BY <1>1 DEF Manager!ListedReachedServer, Manager!UploadingMeansUpload
  <1>3. Manager!TypeOK' /\ Manager!SelectionListed'
    <2> USE DEF Manager!TypeOK, Manager!SelectionListed
    <2>1. ASSUME NEW d \in Manager!Doc, Manager!ToggleSelect(d)
          PROVE  Manager!TypeOK' /\ Manager!SelectionListed'
      <3>1. PICK selected \in SUBSET documents.list :
              documents' = [documents EXCEPT !.selected = selected]
        BY <1>0, <2>1 DEF Manager!ToggleSelect
      <3> QED BY <3>1
    <2>2. ASSUME NEW d \in Manager!Doc, Manager!OpenDoc(d)
          PROVE  Manager!TypeOK' /\ Manager!SelectionListed'
      BY <1>0, <2>2 DEF Manager!OpenDoc
    <2>3. CASE Manager!SelectAll
      <3>1. PICK selected \in SUBSET documents.list :
              documents' = [documents EXCEPT !.selected = selected]
        BY <1>0, <2>3 DEF Manager!SelectAll
      <3> QED BY <3>1
    <2>4. CASE Manager!DeleteSelected
      BY <2>4 DEF Manager!DeleteSelected
    <2>5. CASE Manager!ClosePreview
      BY <2>5 DEF Manager!ClosePreview
    <2>6. ASSUME NEW c \in Manager!Categories, Manager!SetCategory(c)
          PROVE  Manager!TypeOK' /\ Manager!SelectionListed'
      BY <2>6 DEF Manager!SetCategory
    <2>7. ASSUME NEW on \in BOOLEAN, Manager!Search(on)
          PROVE  Manager!TypeOK' /\ Manager!SelectionListed'
      BY <2>7 DEF Manager!Search
    <2> HIDE DEF Manager!TypeOK, Manager!SelectionListed
    <2> QED BY <2>1, <2>2, <2>3, <2>4, <2>5, <2>6, <2>7
  <1> QED BY <1>2, <1>3

LEMMA DocumentsInvStep ==
    ASSUME DocumentsInv, [Manager!Next]_<<documents, library>>
    PROVE  DocumentsInv'
  <1>1. ASSUME NEW files \in SUBSET Markdown, NEW stored \in SUBSET files,
               Manager!OrphanStored(files, stored)
        PROVE  DocumentsInv'
    <2>1. /\ documents'.uploads = documents.uploads
          /\ documents'.uploading = documents.uploading
          /\ documents'.crossed = documents.crossed
          /\ documents'.skipped = documents.skipped
          /\ documents'.list = documents.list
          /\ documents'.selected = documents.selected
          /\ documents'.preview = documents.preview
          /\ library \subseteq library'
      BY <1>1 DEF Manager!OrphanStored, DocumentsInv, Manager!TypeOK
    <2>2. Manager!TypeOK'
      BY <1>1 DEF Manager!OrphanStored, DocumentsInv, Manager!TypeOK
    <2> QED BY <2>1, <2>2 DEF DocumentsInv, Manager!SelectionListed,
               Manager!ListedReachedServer, Manager!UploadingMeansUpload
  <1>2. CASE UNCHANGED <<documents, library>>
    BY <1>2 DEF DocumentsInv, Manager!TypeOK, Manager!SelectionListed,
                Manager!ListedReachedServer, Manager!UploadingMeansUpload
  <1>3. ASSUME NEW u \in Manager!Upload, Manager!UploadFailed(u)
        PROVE  DocumentsInv'
    BY <1>3, UploadEndKeepsInv
  <1> QED BY <1>1, <1>2, <1>3, UploadKeepsInv, UploadEndKeepsInv, FreshPageKeepsInv,
             SelectionKeepsInv
          DEF Manager!Next, Manager!Gesture, Manager!Arrival

LEMMA DocumentsInvAlways == Spec => []DocumentsInv
  <1>1. Init => DocumentsInv
    <2> SUFFICES ASSUME Init
                 PROVE  DocumentsInv
      OBVIOUS
    <2>1. documents = [mounted |-> FALSE, list |-> {}, selected |-> {},
                       preview |-> Nothing, category |-> "All", searching |-> FALSE,
                       uploading |-> FALSE, uploads |-> {}, orphans |-> {},
                       sent |-> 0, crossed |-> FALSE, skipped |-> {}]
      BY DEF Init, Manager!Init, Manager!Fresh
    <2> QED BY <2>1, DocumentsInvFresh
  <1>2. DocumentsInv /\ [Next]_vars => DocumentsInv'
    BY PageSteps, DocumentsInvStep DEF PagesStep
  <1> QED BY <1>1, <1>2, PTL DEF Spec

\* Whatever is filtered, uploaded or deleted, what the manager has selected
\* and previews is in its list.
THEOREM SelectionAlwaysListed == Spec => []SelectionListed
  <1>1. DocumentsInv => SelectionListed
    BY DEF DocumentsInv, SelectionListed
  <1> QED BY <1>1, DocumentsInvAlways, PTL

\* However uploads overlap and fail, the server holds what the manager lists,
\* but for the files it skipped while it reported success.
THEOREM ListedAlwaysReachedServer == Spec => []ListedReachedServer
  <1>1. DocumentsInv => ListedReachedServer
    BY DEF DocumentsInv, ListedReachedServer
  <1> QED BY <1>1, DocumentsInvAlways, PTL
=============================================================================
