------------------------- MODULE AnnouncementStore -------------------------
(***************************************************************************)
(* The announcement store of the web server (pkg/web/announcement.go) and  *)
(* the handlers of /api/announcements that use it (pkg/web/server.go).     *)
(*                                                                         *)
(* s.data is a slice: a backing array, here `arr`, of which the first      *)
(* `len` cells are in use.  Add copies it into a new array; Update and     *)
(* Delete write the array in place.  s.mu is held by Add, Update and       *)
(* Delete until the file is saved and by List only until it returns: for   *)
(* ?all=true it returns s.data itself, which the handler then encodes, one *)
(* field after the other, with no lock.                                    *)
(*                                                                         *)
(* Level, title and content are one text.  A request the handler answers   *)
(* 400, or whose id is not found, changes nothing and is left out.         *)
(***************************************************************************)
EXTENDS Naturals, Sequences, FiniteSets

CONSTANTS
    Handlers,      \* goroutines that serve HTTP requests
    Nobody,        \* the value of `lock` when s.mu is free
    Texts,         \* what an announcement may say
    Broken,        \* a file that is not valid JSON: truncated, or half written
    InitialFiles,  \* what an earlier run of the server may have left
    MaxChanges,    \* bound: announcements added, changed or deleted
    MaxCrashes     \* bound: restarts

VARIABLES
    arr,           \* the backing array of s.data
    len,           \* len(s.data)
    file,          \* announcements.json
    lock,          \* the holder of s.mu
    hole,          \* the cell Delete is about to overwrite; 0 outside Delete
    pc,            \* where each handler stands
    kind,          \* which listing it serves: the public one or ?all=true
    sharing,       \* the handlers whose slice still has s.data's array
    cells,         \* the array of a slice that has another one
    count,         \* the length of the slice
    idRead,        \* the id it encoded last
    out,           \* the announcements it has encoded
    throughout,    \* history: active announcements untouched since its List
    unsaved,       \* history: the last save failed
    changes,       \* against MaxChanges
    crashes        \* against MaxCrashes

memVars == <<arr, len, hole>>
sliceVars == <<sharing, cells, count>>
listVars == <<kind, sliceVars, idRead, out>>
vars == <<memVars, file, lock, pc, listVars, throughout, unsaved, changes, crashes>>

-----------------------------------------------------------------------------
(* Types *)

Item == [id : Nat \ {0}, text : Texts, active : BOOLEAN]
Prefix(s, n) == [i \in 1 .. n |-> s[i]]
Unique(s) == \A i, j \in DOMAIN s : s[i].id = s[j].id => i = j

ASSUME NobodyAssumption == Nobody \notin Handlers
ASSUME FileAssumption ==
    /\ Broken \notin Seq(Item)
    /\ InitialFiles \subseteq {Broken} \cup {s \in Seq(Item) : Unique(s)}
ASSUME BoundsAssumption == MaxChanges \in Nat /\ MaxCrashes \in Nat

\* The array behind the slice of a listing handler.
Cells(p) == IF p \in sharing THEN arr ELSE cells[p]

TypeOK ==
    /\ arr \in Seq(Item)
    /\ len \in 0 .. Len(arr)
    /\ file \in {Broken} \cup Seq(Item)
    /\ lock \in Handlers \cup {Nobody}
    /\ hole \in 0 .. len
    /\ pc \in [Handlers -> {"idle", "shift", "save", "write", "encode", "rest"}]
    /\ kind \in [Handlers -> {"none", "public", "admin"}]
    /\ sharing \subseteq Handlers
    /\ cells \in [Handlers -> Seq(Item)]
    /\ count \in [Handlers -> Nat]
    /\ \A p \in Handlers : count[p] <= Len(Cells(p))
    /\ idRead \in [Handlers -> Nat]
    /\ out \in [Handlers -> Seq(Item)]
    /\ throughout \in [Handlers -> SUBSET Item]
    /\ unsaved \in BOOLEAN
    /\ changes \in Nat
    /\ crashes \in Nat

-----------------------------------------------------------------------------
(* List                                                                    *)

Free(p) == lock = Nobody /\ pc[p] = "idle"
Active == {i \in 1 .. len : arr[i].active}

StartEncoding(p, n) ==
    /\ count' = [count EXCEPT ![p] = n]
    /\ throughout' = [throughout EXCEPT ![p] = {arr[i] : i \in Active}]
    /\ pc' = [pc EXCEPT ![p] = "encode"]
    /\ UNCHANGED <<memVars, file, lock, idRead, out, unsaved, changes, crashes>>

\* GET ?all=true: s.data itself.
ListAll(p) ==
    /\ Free(p)
    /\ StartEncoding(p, len)
    /\ kind' = [kind EXCEPT ![p] = "admin"]
    /\ sharing' = sharing \cup {p}
    /\ UNCHANGED cells

\* A faulty ListActive, that would not copy.
ListActiveShared(p) ==
    /\ Free(p)
    /\ StartEncoding(p, len)
    /\ kind' = [kind EXCEPT ![p] = "public"]
    /\ sharing' = sharing \cup {p}
    /\ UNCHANGED cells

\* GET: a copy of the active announcements, f naming the cells it is made of.
Enumerates(f, n, S) ==
    /\ \A i, j \in 1 .. n : i < j => f[i] < f[j]
    /\ \A k \in S : \E i \in 1 .. n : f[i] = k
ListActive(p) ==
    /\ Free(p)
    /\ \E n \in 0 .. len : \E f \in [1 .. n -> Active] :
        /\ Enumerates(f, n, Active)
        /\ StartEncoding(p, n)
        /\ cells' = [cells EXCEPT ![p] = [i \in 1 .. n |-> arr[f[i]]]]
    /\ kind' = [kind EXCEPT ![p] = "public"]
    /\ UNCHANGED sharing

\* writeJSON reads the slice, cell by cell, the id first and then the rest.
EncodeId(p) ==
    /\ pc[p] = "encode"
    /\ Len(out[p]) < count[p]
    /\ idRead' = [idRead EXCEPT ![p] = Cells(p)[Len(out[p]) + 1].id]
    /\ pc' = [pc EXCEPT ![p] = "rest"]
    /\ UNCHANGED <<memVars, file, lock, kind, sliceVars, out, throughout, unsaved, changes, crashes>>

EncodeRest(p) ==
    /\ pc[p] = "rest"
    /\ LET cell == Cells(p)[Len(out[p]) + 1]
       IN  out' = [out EXCEPT ![p] = Append(@, [cell EXCEPT !.id = idRead[p]])]
    /\ pc' = [pc EXCEPT ![p] = "encode"]
    /\ UNCHANGED <<memVars, file, lock, kind, sliceVars, idRead, throughout, unsaved, changes, crashes>>

\* The whole slice is encoded and the answer sent.
Encoded(p) == pc[p] = "encode" /\ Len(out[p]) = count[p]
AnswerList(p) ==
    /\ Encoded(p)
    /\ pc' = [pc EXCEPT ![p] = "idle"]
    /\ kind' = [kind EXCEPT ![p] = "none"]
    /\ sharing' = sharing \ {p}
    /\ cells' = [cells EXCEPT ![p] = <<>>]
    /\ count' = [count EXCEPT ![p] = 0]
    /\ idRead' = [idRead EXCEPT ![p] = 0]
    /\ out' = [out EXCEPT ![p] = <<>>]
    /\ throughout' = [throughout EXCEPT ![p] = {}]
    /\ UNCHANGED <<memVars, file, lock, unsaved, changes, crashes>>

-----------------------------------------------------------------------------
(* Add, Update, Delete: each takes s.mu and changes the list in memory.    *)

Change(p, next) ==
    /\ Free(p)
    /\ changes < MaxChanges
    /\ changes' = changes + 1
    /\ lock' = p
    /\ pc' = [pc EXCEPT ![p] = next]
    /\ UNCHANGED <<file, kind, count, idRead, out, unsaved, crashes>>

\* The first cell that holds its id.
IsFound(i) == \A j \in 1 .. i - 1 : arr[j].id # arr[i].id

\* Two faulty ways to make a new id, and the store's, from the greatest in use.
NewIDSame(maxID) == maxID
NewIDFromLen(maxID) == len + 1
NewID(maxID) == maxID + 1

\* append([]Announcement{*a}, s.data...): slices handed out before keep the
\* array they had, which nothing will write any more.
Add(p) ==
    /\ Change(p, "save")
    /\ \E maxID \in {0} \cup {arr[i].id : i \in 1 .. len}, t \in Texts :
        /\ \A i \in 1 .. len : arr[i].id <= maxID
        /\ arr' = [i \in 1 .. len + 1 |->
                     IF i = 1 THEN [id |-> NewID(maxID), text |-> t, active |-> TRUE]
                     ELSE arr[i - 1]]
    /\ len' = len + 1
    /\ cells' = [q \in Handlers |-> IF q \in sharing THEN Prefix(arr, count[q]) ELSE cells[q]]
    /\ sharing' = {}
    /\ UNCHANGED <<hole, throughout>>

Untouched(i) == [q \in Handlers |-> {a \in throughout[q] : a.id # arr[i].id}]

\* The whole record is replaced, but for its id and its date.
Update(p) ==
    /\ Change(p, "save")
    /\ \E i \in 1 .. len, t \in Texts, active \in BOOLEAN :
        /\ IsFound(i)
        /\ arr' = [arr EXCEPT ![i] = [id |-> @.id, text |-> t, active |-> active]]
        /\ throughout' = Untouched(i)
    /\ UNCHANGED <<len, hole, sharing, cells>>

\* append(s.data[:i], s.data[i+1:]...): the cells behind i move up one by one,
\* the last one stays as it was, out of the slice.
Delete(p) ==
    /\ Change(p, "shift")
    /\ \E i \in 1 .. len :
        /\ IsFound(i)
        /\ hole' = i
        /\ throughout' = Untouched(i)
    /\ UNCHANGED <<arr, len, sharing, cells>>

\* A faulty Shift, that would leave the cells where they are.
ShiftNothing(p) ==
    /\ pc[p] = "shift"
    /\ hole < len
    /\ hole' = hole + 1
    /\ UNCHANGED <<arr, len, file, lock, pc, listVars, throughout, unsaved, changes, crashes>>

\* One cell moves up.
Shift(p) ==
    /\ pc[p] = "shift"
    /\ hole < len
    /\ arr' = [arr EXCEPT ![hole] = arr[hole + 1]]
    /\ hole' = hole + 1
    /\ UNCHANGED <<len, file, lock, pc, listVars, throughout, unsaved, changes, crashes>>

EndShift(p) ==
    /\ pc[p] = "shift"
    /\ hole = len
    /\ len' = len - 1
    /\ hole' = 0
    /\ pc' = [pc EXCEPT ![p] = "save"]
    /\ UNCHANGED <<arr, file, lock, listVars, throughout, unsaved, changes, crashes>>

-----------------------------------------------------------------------------
(* save: os.WriteFile truncates the file and then writes it.               *)

Truncate(p) ==
    /\ pc[p] = "save"
    /\ file' = Broken
    /\ pc' = [pc EXCEPT ![p] = "write"]
    /\ UNCHANGED <<memVars, lock, listVars, throughout, unsaved, changes, crashes>>

\* What MarshalIndent makes of s.data (and would of the array behind it).
MarshaledArray == arr
Marshaled == Prefix(arr, len)

\* The deferred unlock and the answer, 200 or 500.
Return(p, failed) ==
    /\ unsaved' = failed
    /\ lock' = Nobody
    /\ pc' = [pc EXCEPT ![p] = "idle"]
    /\ UNCHANGED <<memVars, listVars, throughout, changes, crashes>>

Write(p) ==
    /\ pc[p] = "write"
    /\ file' = Marshaled
    /\ Return(p, FALSE)

\* The file cannot be opened, or not be written to its end; the list in memory
\* keeps its change.
SaveFails(p) ==
    /\ pc[p] \in {"save", "write"}
    /\ UNCHANGED file
    /\ Return(p, TRUE)

-----------------------------------------------------------------------------
(* NewAnnouncementStore ignores a file it cannot read.                     *)

Loaded == IF file = Broken THEN <<>> ELSE file

Crash ==
    /\ crashes < MaxCrashes
    /\ crashes' = crashes + 1
    /\ arr' = Loaded
    /\ len' = Len(Loaded)
    /\ hole' = 0
    /\ lock' = Nobody
    /\ pc' = [p \in Handlers |-> "idle"]
    /\ kind' = [p \in Handlers |-> "none"]
    /\ sharing' = {}
    /\ cells' = [p \in Handlers |-> <<>>]
    /\ count' = [p \in Handlers |-> 0]
    /\ idRead' = [p \in Handlers |-> 0]
    /\ out' = [p \in Handlers |-> <<>>]
    /\ throughout' = [p \in Handlers |-> {}]
    /\ unsaved' = FALSE
    /\ UNCHANGED <<file, changes>>

Init ==
    /\ file \in InitialFiles
    /\ arr = Loaded
    /\ len = Len(Loaded)
    /\ hole = 0
    /\ lock = Nobody
    /\ pc = [p \in Handlers |-> "idle"]
    /\ kind = [p \in Handlers |-> "none"]
    /\ sharing = {}
    /\ cells = [p \in Handlers |-> <<>>]
    /\ count = [p \in Handlers |-> 0]
    /\ idRead = [p \in Handlers |-> 0]
    /\ out = [p \in Handlers |-> <<>>]
    /\ throughout = [p \in Handlers |-> {}]
    /\ unsaved = FALSE
    /\ changes = 0
    /\ crashes = 0

Next ==
    \/ \E p \in Handlers :
        \/ ListAll(p) \/ ListActive(p) \/ EncodeId(p) \/ EncodeRest(p) \/ AnswerList(p)
        \/ Add(p) \/ Update(p) \/ Delete(p) \/ Shift(p) \/ EndShift(p)
        \/ Truncate(p) \/ Write(p) \/ SaveFails(p)
    \/ Crash

Spec == Init /\ [][Next]_vars

-----------------------------------------------------------------------------
(* Properties *)

\* The announcements there are.  While Delete moves the cells up, the one at
\* the hole is either the deleted one or has been copied to the cell before it.
Live ==
    IF hole = 0 THEN Prefix(arr, len)
    ELSE [j \in 1 .. len - 1 |-> arr[IF j < hole THEN j ELSE j + 1]]

\* No two announcements share an id, in memory or in the file, however many were
\* deleted, lost or reloaded between (announcement.go:69-75): Update and Delete
\* act on the first one they find.
UniqueIds == Unique(Live) /\ (file # Broken => Unique(file))

\* With no save under way and none failed since the last good one, a restart
\* brings back the list exactly as it is (announcement.go:29-47).
RestartRestores == lock = Nobody /\ ~unsaved => Loaded = Live

\* A listing that is about to be answered has each announcement that was active
\* and untouched the whole time (announcement.go:50-63), whatever was added,
\* changed or deleted while it was encoded.
Complete(p) == \A a \in throughout[p] : \E i \in DOMAIN out[p] : out[p][i] = a

\* The public listing, which encodes a copy.
ActiveListComplete ==
    \A p \in Handlers : Encoded(p) /\ kind[p] = "public" => Complete(p)

\* "List returns all active announcements" (announcement.go:49), of the listing
\* ?all=true, which encodes s.data itself.
AdminListComplete ==
    \A p \in Handlers : Encoded(p) /\ kind[p] = "admin" => Complete(p)

\* The store implements the registry: what it does to arrays in place amounts to
\* whole operations on a list, and only whole lists are ever stored.
Registry == INSTANCE AnnouncementRegistry WITH items <- Live, stored <- file
RefinesRegistry == Registry!Spec
=============================================================================
