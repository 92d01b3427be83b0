---------------------- MODULE AnnouncementStoreProofs ----------------------
(***************************************************************************)
(* Proofs about AnnouncementStore, for any handlers, texts, initial files  *)
(* and bounds: type correctness, uniqueness of ids, that a restart brings  *)
(* the list back when no save is under way or has failed, that a public    *)
(* listing is complete, and that the store implements the registry of      *)
(* AnnouncementRegistry.                                                   *)
(***************************************************************************)
EXTENDS AnnouncementStore, SequenceTheorems, TLAPS

-----------------------------------------------------------------------------
(* The inductive invariant *)

\* s.mu is held exactly by the handler inside Add, Update or Delete, and only
\* Delete has a hole.
LockHeld ==
    /\ \A p \in Handlers : pc[p] \in {"shift", "save", "write"} <=> lock = p
    /\ hole = 0 <=> \A p \in Handlers : pc[p] # "shift"

\* A handler that is encoding has not passed the end of its slice, and one that
\* is not has none.
InSlice(p) ==
    /\ Len(out[p]) <= count[p]
    /\ pc[p] = "rest" => Len(out[p]) < count[p] /\ idRead[p] # 0
    /\ pc[p] \notin {"encode", "rest"} =>
        out[p] = <<>> /\ kind[p] # "public" /\ p \notin sharing

\* A public listing has a copy of its own, with all it must answer, and has
\* encoded the first cells of it.
CopyEncoded(p) ==
    kind[p] = "public" =>
        /\ p \notin sharing
        /\ \A i \in 1 .. Len(out[p]) : out[p][i] = cells[p][i]
        /\ pc[p] = "rest" => idRead[p] = cells[p][Len(out[p]) + 1].id
        /\ \A a \in throughout[p] : \E i \in 1 .. count[p] : cells[p][i] = a

ListInv == \A p \in Handlers : InSlice(p) /\ CopyEncoded(p)

TypeInv == TypeOK /\ LockHeld /\ ListInv
IdInv == TypeInv /\ UniqueIds
SaveInv == TypeInv /\ RestartRestores

-----------------------------------------------------------------------------
(* Sequences written as functions *)

\* A function on 1 .. n is a sequence of length n.
LEMMA FunctionIsSeq ==
    ASSUME NEW S, NEW n \in Nat, NEW f \in [1 .. n -> S]
    PROVE  f \in Seq(S) /\ Len(f) = n
  BY IsASeq, LenProperties

\* A prefix of a sequence is a sequence.
LEMMA PrefixIsSeq ==
    ASSUME NEW S, NEW s \in Seq(S), NEW n \in 0 .. Len(s)
    PROVE  /\ Prefix(s, n) \in Seq(S)
           /\ Len(Prefix(s, n)) = n
           /\ \A i \in 1 .. n : Prefix(s, n)[i] = s[i]
  <1>1. \A i \in 1 .. n : s[i] \in S
    BY ElementOfSeq
  <1>2. Prefix(s, n) \in [1 .. n -> S]
    BY <1>1 DEF Prefix
  <1> QED
    BY <1>2, FunctionIsSeq DEF Prefix

\* What the file is read back as is a list.
LEMMA LoadedIsSeq ==
    ASSUME file \in {Broken} \cup Seq(Item)
    PROVE  Loaded \in Seq(Item)
  BY EmptySeq DEF Loaded

-----------------------------------------------------------------------------
(* Type correctness *)

LEMMA InitTypes == Init => TypeInv
  <1> SUFFICES ASSUME Init PROVE TypeInv
    OBVIOUS
  <1>1. file \in {Broken} \cup Seq(Item)
    BY FileAssumption DEF Init
  <1>2. arr \in Seq(Item) /\ len = Len(arr) /\ len \in Nat
    BY <1>1, LoadedIsSeq, LenProperties DEF Init
  <1> DEFINE e == <<>>
  <1>3. e \in Seq(Item) /\ Len(e) = 0
    BY EmptySeq
  <1>4. /\ cells = [p \in Handlers |-> e] /\ out = [p \in Handlers |-> e]
        /\ \A p \in Handlers : cells[p] = e /\ out[p] = e
        /\ \A p \in Handlers : kind[p] = "none" /\ count[p] = 0 /\ pc[p] = "idle"
        /\ sharing = {}
    BY DEF Init
  <1>E. \A p \in Handlers : pc[p] \notin {"encode", "rest"} => out[p] = <<>>
    BY <1>4
  <1> HIDE DEF e
  <1>5. TypeOK
    <2>1. cells \in [Handlers -> Seq(Item)] /\ out \in [Handlers -> Seq(Item)]
      BY <1>3, <1>4
    <2>2. \A p \in Handlers : count[p] <= Len(Cells(p))
      <3>1. \A p \in Handlers : Cells(p) = e
        BY <1>4 DEF Init, Cells
      <3> QED
        BY <1>3, <1>4, <3>1
    <2>3. kind \in [Handlers -> {"none", "public", "admin"}]
      BY DEF Init
    <2>4. /\ hole = 0 /\ lock = Nobody /\ sharing = {}
          /\ unsaved = FALSE /\ changes = 0 /\ crashes = 0
      BY DEF Init
    <2>5. /\ pc \in [Handlers -> {"idle", "shift", "save", "write", "encode", "rest"}]
          /\ count \in [Handlers -> Nat] /\ idRead \in [Handlers -> Nat]
          /\ throughout \in [Handlers -> SUBSET Item]
      BY DEF Init
    <2>6. len \in 0 .. Len(arr) /\ hole \in 0 .. len
      BY <1>2, <2>4
    <2>7. lock \in Handlers \cup {Nobody} /\ sharing \subseteq Handlers
      BY <2>4
    <2>8. unsaved \in BOOLEAN /\ changes \in Nat /\ crashes \in Nat
      BY <2>4
    <2> QED
      BY <1>1, <1>2, <2>1, <2>2, <2>3, <2>5, <2>6, <2>7, <2>8 DEF TypeOK
  <1>6. LockHeld
    BY NobodyAssumption DEF LockHeld, Init
  <1>7. ListInv
    BY <1>3, <1>4, <1>E DEF ListInv, InSlice, CopyEncoded
  <1> QED
    BY <1>5, <1>6, <1>7 DEF TypeInv

\* A handler that starts to encode n announcements of an array.
LEMMA StartTypes ==
    ASSUME TypeInv, NEW p \in Handlers, Free(p), NEW n \in Nat, StartEncoding(p, n),
           cells' \in [Handlers -> Seq(Item)], \A q \in Handlers \ {p} : cells'[q] = cells[q],
           kind' \in [Handlers -> {"none", "public", "admin"}],
           kind'[p] # "none", \A q \in Handlers \ {p} : kind'[q] = kind[q],
           sharing' \in {sharing, sharing \cup {p}},
           n <= Len(Cells(p)'),
           kind'[p] = "public" =>
               p \notin sharing' /\ \A k \in Active : \E i \in 1 .. n : cells'[p][i] = arr[k]
    PROVE  TypeInv'
  <1> USE DEF TypeInv, StartEncoding, Free, memVars
  <1>1. TypeOK'
    <2>1. throughout' \in [Handlers -> SUBSET Item]
      <3>1. \A i \in 1 .. len : arr[i] \in Item
        BY ElementOfSeq, LenProperties DEF TypeOK
      <3> QED
        BY <3>1 DEF TypeOK, Active
    <2>2. \A q \in Handlers : count'[q] <= Len(Cells(q)')
      BY DEF TypeOK, Cells
    <2> QED
      BY <2>1, <2>2 DEF TypeOK
  <1>2. LockHeld'
    BY DEF TypeOK, LockHeld
  <1>3. ListInv'
    <2>1. out[p] = <<>> /\ Len(out[p]) = 0
      BY EmptySeq DEF ListInv, InSlice
    <2>2. \A q \in Handlers : InSlice(q)'
      BY <2>1 DEF TypeOK, ListInv, InSlice
    <2>3. CopyEncoded(p)'
      <3> SUFFICES ASSUME kind'[p] = "public"
                   PROVE  /\ p \notin sharing'
                          /\ \A i \in 1 .. Len(out'[p]) : out'[p][i] = cells'[p][i]
                          /\ pc'[p] # "rest"
                          /\ \A a \in throughout'[p] :
                                \E i \in 1 .. count'[p] : cells'[p][i] = a
        BY DEF CopyEncoded
      <3>1. \A i \in 1 .. Len(out'[p]) : out'[p][i] = cells'[p][i]
        BY <2>1
      <3>2. pc'[p] = "encode" /\ count'[p] = n
        BY DEF TypeOK
      <3>3. throughout'[p] = {arr[i] : i \in Active}
        BY DEF TypeOK
      <3>4. \A a \in throughout'[p] : \E i \in 1 .. n : cells'[p][i] = a
        BY <3>3
      <3> QED
        BY <3>1, <3>2, <3>4
    <2>4. ASSUME NEW q \in Handlers \ {p} PROVE CopyEncoded(q)'
      <3>1. /\ kind'[q] = kind[q] /\ cells'[q] = cells[q] /\ count'[q] = count[q]
            /\ pc'[q] = pc[q] /\ throughout'[q] = throughout[q]
            /\ q \in sharing' <=> q \in sharing
        BY DEF TypeOK
      <3>2. CopyEncoded(q)
        BY DEF ListInv
      <3> QED
        BY <3>1, <3>2 DEF CopyEncoded
    <2> QED
      BY <2>2, <2>3, <2>4 DEF ListInv
  <1> QED
    BY <1>1, <1>2, <1>3

\* Each listing action that is under way, or ends.
LEMMA EncodeIdTypes ==
    ASSUME TypeInv, NEW p \in Handlers, EncodeId(p)
    PROVE  TypeInv'
  <1> USE DEF TypeInv, EncodeId, memVars, sliceVars
  <1>0. Len(out[p]) \in Nat /\ Len(out[p]) + 1 \in 1 .. Len(Cells(p))
    BY LenProperties DEF TypeOK, Cells
  <1>4. Cells(p)[Len(out[p]) + 1].id \in Nat \ {0}
    <2>1. Cells(p)[Len(out[p]) + 1] \in Item
      BY <1>0, ElementOfSeq DEF TypeOK, Cells
    <2> QED
      BY <2>1 DEF Item
  <1>1. TypeOK'
    <2>2. idRead' \in [Handlers -> Nat]
      BY <1>4 DEF TypeOK
    <2>3. \A q \in Handlers : Cells(q)' = Cells(q)
      BY DEF Cells
    <2> QED
      BY <2>2, <2>3 DEF TypeOK
  <1>2. LockHeld'
    BY DEF TypeOK, LockHeld
  <1>3. ListInv'
    <2>1. \A q \in Handlers : InSlice(q)'
      BY <1>4 DEF TypeOK, ListInv, InSlice
    <2>2. CopyEncoded(p)'
      BY DEF TypeOK, ListInv, CopyEncoded, Cells
    <2>3. \A q \in Handlers \ {p} : CopyEncoded(q)'
      BY DEF TypeOK, ListInv, CopyEncoded
    <2> QED
      BY <2>1, <2>2, <2>3 DEF ListInv
  <1> QED
    BY <1>1, <1>2, <1>3

LEMMA EncodeRestTypes ==
    ASSUME TypeInv, NEW p \in Handlers, EncodeRest(p)
    PROVE  TypeInv'
  <1> DEFINE k == Len(out[p]) + 1
             read == [Cells(p)[k] EXCEPT !.id = idRead[p]]
  <1>1. /\ pc[p] = "rest" /\ pc' = [pc EXCEPT ![p] = "encode"]
        /\ out' = [out EXCEPT ![p] = Append(out[p], read)]
        /\ UNCHANGED <<memVars, file, lock, kind, sliceVars, idRead, throughout>>
        /\ UNCHANGED <<unsaved, changes, crashes>>
    BY DEF EncodeRest
  <1>2. k \in 1 .. count[p] /\ k \in 1 .. Len(Cells(p)) /\ idRead[p] \in Nat \ {0}
    BY <1>1, LenProperties DEF TypeInv, TypeOK, ListInv, InSlice, Cells
  <1>3. read \in Item
    <2>1. Cells(p)[k] \in Item
      BY <1>2, ElementOfSeq DEF TypeInv, TypeOK, Cells
    <2> QED
      BY <1>2, <2>1 DEF Item
  <1>4. /\ Append(out[p], read) \in Seq(Item)
        /\ Len(Append(out[p], read)) = k
        /\ \A i \in 1 .. k - 1 : Append(out[p], read)[i] = out[p][i]
        /\ Append(out[p], read)[k] = read
    BY <1>3, AppendProperties DEF TypeInv, TypeOK
  <1>5. TypeOK'
    <2>1. \A q \in Handlers : Cells(q)' = Cells(q)
      BY <1>1 DEF Cells, memVars, sliceVars
    <2> QED
      BY <1>1, <1>4, <2>1 DEF TypeInv, TypeOK, memVars, sliceVars
  <1>6. LockHeld'
    BY <1>1 DEF TypeInv, TypeOK, LockHeld, memVars
  <1>7. out'[p] = Append(out[p], read) /\ \A q \in Handlers \ {p} : out'[q] = out[q]
    BY <1>1 DEF TypeInv, TypeOK
  <1>8. pc'[p] = "encode" /\ \A q \in Handlers \ {p} : pc'[q] = pc[q]
    BY <1>1 DEF TypeInv, TypeOK
  <1> HIDE DEF read
  <1>9. ListInv'
    <2>1. InSlice(p)' /\ \A q \in Handlers \ {p} : InSlice(q)'
      BY <1>1, <1>2, <1>4, <1>7, <1>8 DEF TypeInv, ListInv, InSlice, sliceVars
    <2>2. CopyEncoded(p)'
      <3> SUFFICES ASSUME kind[p] = "public"
                   PROVE  \A i \in 1 .. k : Append(out[p], read)[i] = cells[p][i]
        BY <1>1, <1>4, <1>7, <1>8 DEF TypeInv, ListInv, CopyEncoded, sliceVars
      <3>1. Cells(p) = cells[p] /\ idRead[p] = cells[p][k].id
        BY <1>1 DEF TypeInv, ListInv, CopyEncoded, Cells
      <3>2. cells[p][k] \in Item
        BY <1>2, <3>1, ElementOfSeq DEF TypeInv, TypeOK
      <3>3. read = cells[p][k]
        BY <3>1, <3>2 DEF Item, read
      <3> QED
        BY <1>1, <1>2, <1>4, <3>3 DEF TypeInv, ListInv, CopyEncoded
    <2>3. \A q \in Handlers \ {p} : CopyEncoded(q)'
      BY <1>1, <1>7, <1>8 DEF TypeInv, ListInv, CopyEncoded, sliceVars
    <2> QED
      BY <2>1, <2>2, <2>3 DEF ListInv
  <1> QED
    BY <1>5, <1>6, <1>9 DEF TypeInv

LEMMA AnswerListTypes ==
    ASSUME TypeInv, NEW p \in Handlers, AnswerList(p)
    PROVE  TypeInv'
  <1> DEFINE e == <<>>
  <1>1. /\ pc[p] = "encode" /\ pc' = [pc EXCEPT ![p] = "idle"]
        /\ kind' = [kind EXCEPT ![p] = "none"]
        /\ sharing' = sharing \ {p}
        /\ cells' = [cells EXCEPT ![p] = e]
        /\ count' = [count EXCEPT ![p] = 0]
        /\ idRead' = [idRead EXCEPT ![p] = 0]
        /\ out' = [out EXCEPT ![p] = e]
        /\ throughout' = [throughout EXCEPT ![p] = {}]
        /\ UNCHANGED <<memVars, file, lock, unsaved, changes, crashes>>
    BY DEF AnswerList, Encoded
  <1>2. e \in Seq(Item) /\ Len(e) = 0
    BY EmptySeq
  <1>3. \A q \in Handlers : out'[q] = <<>> <=> out'[q] = e
    OBVIOUS
  <1> HIDE DEF e
  <1>4. TypeOK'
    <2>1. \A q \in Handlers : count'[q] <= Len(Cells(q)')
      BY <1>1, <1>2 DEF TypeInv, TypeOK, Cells, memVars
    <2> QED
      BY <1>1, <1>2, <2>1 DEF TypeInv, TypeOK, memVars
  <1>5. LockHeld'
    BY <1>1 DEF TypeInv, TypeOK, LockHeld, memVars
  <1>6. InSlice(p)' /\ CopyEncoded(p)'
    BY <1>1, <1>2, <1>3 DEF TypeInv, TypeOK, InSlice, CopyEncoded
  <1>7. ASSUME NEW q \in Handlers \ {p} PROVE InSlice(q)' /\ CopyEncoded(q)'
    <2>1. InSlice(q) /\ CopyEncoded(q)
      BY DEF TypeInv, ListInv
    <2>2. /\ kind'[q] = kind[q] /\ cells'[q] = cells[q] /\ count'[q] = count[q]
          /\ out'[q] = out[q] /\ throughout'[q] = throughout[q] /\ pc'[q] = pc[q]
          /\ idRead'[q] = idRead[q] /\ (q \in sharing' <=> q \in sharing)
      BY <1>1 DEF TypeInv, TypeOK
    <2> QED
      BY <2>1, <2>2 DEF InSlice, CopyEncoded
  <1> QED
    BY <1>4, <1>5, <1>6, <1>7 DEF TypeInv, ListInv

LEMMA ListAllTypes ==
    ASSUME TypeInv, NEW p \in Handlers, ListAll(p)
    PROVE  TypeInv'
  <1>1. Free(p) /\ StartEncoding(p, len) /\ len \in Nat
    BY DEF ListAll, TypeInv, TypeOK
  <1>2. /\ kind' = [kind EXCEPT ![p] = "admin"] /\ cells' = cells
        /\ sharing' = sharing \cup {p}
    BY DEF ListAll
  <1>3. cells' \in [Handlers -> Seq(Item)] /\ \A q \in Handlers \ {p} : cells'[q] = cells[q]
    BY <1>2 DEF TypeInv, TypeOK
  <1>4. /\ kind' \in [Handlers -> {"none", "public", "admin"}] /\ kind'[p] = "admin"
        /\ kind'[p] # "none" /\ \A q \in Handlers \ {p} : kind'[q] = kind[q]
    BY <1>2 DEF TypeInv, TypeOK
  <1>5. sharing' \in {sharing, sharing \cup {p}}
    BY <1>2
  <1>6. len <= Len(Cells(p)')
    BY <1>1, <1>2 DEF Cells, StartEncoding, memVars, TypeInv, TypeOK
  <1>7. kind'[p] = "public" =>
           p \notin sharing' /\ \A k \in Active : \E i \in 1 .. len : cells'[p][i] = arr[k]
    BY <1>4
  <1> QED
    BY <1>1, <1>3, <1>4, <1>5, <1>6, <1>7, StartTypes

LEMMA ListActiveTypes ==
    ASSUME TypeInv, NEW p \in Handlers, ListActive(p)
    PROVE  TypeInv'
  <1>0. PICK n \in 0 .. len : \E f \in [1 .. n -> Active] :
          /\ Enumerates(f, n, Active)
          /\ StartEncoding(p, n)
          /\ cells' = [cells EXCEPT ![p] = [i \in 1 .. n |-> arr[f[i]]]]
    BY DEF ListActive
  <1>1. PICK f \in [1 .. n -> Active] :
          /\ Enumerates(f, n, Active)
          /\ StartEncoding(p, n)
          /\ cells' = [cells EXCEPT ![p] = [i \in 1 .. n |-> arr[f[i]]]]
    BY <1>0
  <1>2. /\ Free(p) /\ kind' = [kind EXCEPT ![p] = "public"] /\ sharing' = sharing
        /\ p \notin sharing
    BY DEF ListActive, Free, TypeInv, ListInv, InSlice
  <1> DEFINE copy == [i \in 1 .. n |-> arr[f[i]]]
  <1>3. n \in Nat
    OBVIOUS
  <1>4. copy \in Seq(Item) /\ Len(copy) = n
    <2>1. \A i \in 1 .. n : arr[f[i]] \in Item
      BY ElementOfSeq DEF TypeInv, TypeOK, Active
    <2>2. copy \in [1 .. n -> Item]
      BY <2>1
    <2> QED
      BY <1>3, <2>2, FunctionIsSeq
  <1>5. \A k \in Active : \E i \in 1 .. n : copy[i] = arr[k]
    BY <1>1 DEF Enumerates
  <1> HIDE DEF copy
  <1>6. /\ cells' \in [Handlers -> Seq(Item)] /\ cells'[p] = copy
        /\ \A q \in Handlers \ {p} : cells'[q] = cells[q]
    BY <1>1, <1>4 DEF TypeInv, TypeOK, copy
  <1>7. /\ kind' \in [Handlers -> {"none", "public", "admin"}] /\ kind'[p] = "public"
        /\ kind'[p] # "none" /\ \A q \in Handlers \ {p} : kind'[q] = kind[q]
    BY <1>2 DEF TypeInv, TypeOK
  <1>8. sharing' \in {sharing, sharing \cup {p}}
    BY <1>2
  <1>9. n <= Len(Cells(p)')
    <2>1. Cells(p)' = copy
      BY <1>2, <1>6 DEF Cells
    <2> QED
      BY <1>3, <1>4, <2>1
  <1>10. kind'[p] = "public" =>
           p \notin sharing' /\ \A k \in Active : \E i \in 1 .. n : cells'[p][i] = arr[k]
    BY <1>2, <1>5, <1>6
  <1>11. \A q \in Handlers \ {p} : cells'[q] = cells[q]
    BY <1>6
  <1>12. \A q \in Handlers \ {p} : kind'[q] = kind[q]
    BY <1>7
  <1> QED
    BY <1>1, <1>2, <1>3, <1>6, <1>7, <1>8, <1>9, <1>10, <1>11, <1>12, StartTypes

-----------------------------------------------------------------------------
(* Type correctness of the changes                                         *)

\* A step inside Add, Update or Delete that leaves the slices alone.
LEMMA SectionLists ==
    ASSUME TypeInv, NEW p \in Handlers, pc[p] \notin {"encode", "rest"},
           NEW next \in {"idle", "shift", "save", "write"},
           pc' = [pc EXCEPT ![p] = next], UNCHANGED listVars,
           \A q \in Handlers : throughout'[q] \subseteq throughout[q]
    PROVE  ListInv'
  <1>1. /\ \A q \in Handlers \ {p} : pc'[q] = pc[q]
        /\ pc'[p] \notin {"encode", "rest"}
    BY DEF TypeInv, TypeOK
  <1>2. kind' = kind /\ sharing' = sharing /\ cells' = cells /\ count' = count
        /\ idRead' = idRead /\ out' = out
    BY DEF listVars, sliceVars
  <1>3. InSlice(p)' /\ CopyEncoded(p)'
    BY <1>1, <1>2 DEF TypeInv, ListInv, InSlice, CopyEncoded
  <1>4. \A q \in Handlers \ {p} : InSlice(q)' /\ CopyEncoded(q)'
    BY <1>1, <1>2 DEF TypeInv, ListInv, InSlice, CopyEncoded
  <1> QED
    BY <1>3, <1>4 DEF ListInv

LEMMA SaveTypes ==
    ASSUME TypeInv, NEW p \in Handlers, Truncate(p) \/ Write(p) \/ SaveFails(p)
    PROVE  TypeInv'
  <1>1. /\ pc[p] \in {"save", "write"} /\ UNCHANGED <<memVars, listVars, throughout>>
        /\ UNCHANGED <<changes, crashes>>
    BY DEF Truncate, Write, SaveFails, Return
  <1>2. PICK next \in {"idle", "shift", "save", "write"} :
          /\ pc' = [pc EXCEPT ![p] = next]
          /\ \/ next = "write" /\ lock' = lock
             \/ next = "idle" /\ lock' = Nobody
    BY DEF Truncate, Write, SaveFails, Return
  <1>3. file' \in {Broken} \cup Seq(Item) /\ unsaved' \in BOOLEAN
    <2>1. Marshaled \in Seq(Item)
      BY PrefixIsSeq DEF Marshaled, TypeInv, TypeOK
    <2>2. file' \in {Broken, Marshaled, file}
      BY DEF Truncate, Write, SaveFails
    <2>3. unsaved' \in {unsaved, TRUE, FALSE}
      BY DEF Truncate, Write, SaveFails, Return
    <2> QED
      BY <2>1, <2>2, <2>3 DEF TypeInv, TypeOK
  <1>4. TypeOK'
    <2>1. \A q \in Handlers : Cells(q)' = Cells(q)
      BY <1>1 DEF Cells, memVars, listVars, sliceVars
    <2> QED
      BY <1>1, <1>2, <1>3, <2>1 DEF TypeInv, TypeOK, memVars, listVars, sliceVars
  <1>5. LockHeld'
    BY <1>1, <1>2, NobodyAssumption DEF TypeInv, TypeOK, LockHeld, memVars
  <1>6. ListInv'
    BY <1>1, <1>2, SectionLists
  <1> QED
    BY <1>4, <1>5, <1>6 DEF TypeInv

LEMMA ShiftTypes ==
    ASSUME TypeInv, NEW p \in Handlers, Shift(p)
    PROVE  /\ TypeInv'
           /\ hole \in 1 .. len - 1 /\ hole' = hole + 1
           /\ Len(arr') = Len(arr) /\ len' = len
           /\ \A j \in 1 .. Len(arr) : arr'[j] = arr[IF j = hole THEN j + 1 ELSE j]
  <1>1. /\ pc[p] = "shift" /\ hole < len /\ hole' = hole + 1
        /\ arr' = [arr EXCEPT ![hole] = arr[hole + 1]]
        /\ UNCHANGED <<len, file, lock, pc, listVars, throughout, unsaved, changes, crashes>>
    BY DEF Shift
  <1>2. hole \in 1 .. len - 1 /\ hole \in 1 .. Len(arr) /\ hole + 1 \in 1 .. Len(arr)
    BY <1>1, LenProperties DEF TypeInv, TypeOK, LockHeld
  <1>3. arr[hole + 1] \in Item
    BY <1>2, ElementOfSeq DEF TypeInv, TypeOK
  <1>4. /\ arr' \in Seq(Item) /\ Len(arr') = Len(arr)
        /\ \A j \in 1 .. Len(arr) : arr'[j] = arr[IF j = hole THEN j + 1 ELSE j]
    BY <1>1, <1>2, <1>3, ExceptSeq DEF TypeInv, TypeOK
  <1>5. TypeOK'
    <2>0. count' = count /\ sharing' = sharing /\ cells' = cells
      BY <1>1 DEF listVars, sliceVars
    <2>1. ASSUME NEW q \in Handlers PROVE count'[q] <= Len(Cells(q)')
      <3>1. CASE q \in sharing
        <4>1. Cells(q) = arr /\ Cells(q)' = arr'
          BY <2>0, <3>1 DEF Cells
        <4> QED
          BY <1>4, <2>0, <4>1 DEF TypeInv, TypeOK
      <3>2. CASE q \notin sharing
        <4>1. Cells(q)' = Cells(q)
          BY <2>0, <3>2 DEF Cells
        <4> QED
          BY <2>0, <4>1 DEF TypeInv, TypeOK
      <3> QED
        BY <3>1, <3>2
    <2> QED
      <3>1. hole' \in 0 .. len' /\ len' \in 0 .. Len(arr')
        BY <1>1, <1>2, <1>4 DEF TypeInv, TypeOK
      <3>2. kind' = kind /\ idRead' = idRead /\ out' = out
        BY <1>1 DEF listVars
      <3> QED
        BY <1>1, <1>4, <2>0, <2>1, <3>1, <3>2 DEF TypeInv, TypeOK
  <1>6. LockHeld'
    BY <1>1, <1>2 DEF TypeInv, TypeOK, LockHeld
  <1>7. ListInv'
    BY <1>1 DEF TypeInv, ListInv, InSlice, CopyEncoded, listVars, sliceVars
  <1> QED
    BY <1>1, <1>2, <1>4, <1>5, <1>6, <1>7 DEF TypeInv

LEMMA EndShiftTypes ==
    ASSUME TypeInv, NEW p \in Handlers, EndShift(p)
    PROVE  TypeInv'
  <1>1. /\ pc[p] = "shift" /\ hole = len /\ len' = len - 1 /\ hole' = 0
        /\ pc' = [pc EXCEPT ![p] = "save"]
        /\ UNCHANGED <<arr, file, lock, listVars, throughout, unsaved, changes, crashes>>
    BY DEF EndShift
  <1>2. len' \in 0 .. Len(arr)
    BY <1>1, LenProperties DEF TypeInv, TypeOK, LockHeld
  <1>3. TypeOK'
    <2>1. \A q \in Handlers : Cells(q)' = Cells(q)
      BY <1>1 DEF Cells, listVars, sliceVars
    <2> QED
      BY <1>1, <1>2, <2>1 DEF TypeInv, TypeOK, listVars, sliceVars
  <1>4. LockHeld'
    BY <1>1 DEF TypeInv, TypeOK, LockHeld
  <1>5. ListInv'
    BY <1>1, SectionLists
  <1> QED
    BY <1>3, <1>4, <1>5 DEF TypeInv

\* Taking s.mu.
LEMMA ChangeLocks ==
    ASSUME TypeInv, NEW p \in Handlers, NEW next \in {"shift", "save"}, Change(p, next),
           hole' \in Nat, hole' = 0 <=> next = "save"
    PROVE  LockHeld' /\ hole = 0
  <1>1. /\ lock = Nobody /\ pc[p] = "idle" /\ lock' = p
        /\ pc' = [pc EXCEPT ![p] = next]
    BY DEF Change, Free
  <1>2. \A q \in Handlers : pc[q] \notin {"shift", "save", "write"}
    BY <1>1, NobodyAssumption DEF TypeInv, LockHeld
  <1>3. hole = 0
    BY <1>2 DEF TypeInv, LockHeld
  <1>4. \A q \in Handlers : pc'[q] = IF q = p THEN next ELSE pc[q]
    BY <1>1 DEF TypeInv, TypeOK
  <1> QED
    BY <1>1, <1>2, <1>3, <1>4 DEF LockHeld

\* Update writes one cell, the id of which stays.
LEMMA UpdateTypes ==
    ASSUME TypeInv, NEW p \in Handlers, Update(p)
    PROVE  /\ TypeInv'
           /\ hole = 0 /\ hole' = 0 /\ len' = len /\ Len(arr') = Len(arr)
           /\ \A j \in 1 .. Len(arr) : arr'[j].id = arr[j].id
  <1>1. /\ Change(p, "save") /\ UNCHANGED <<len, hole, sharing, cells>>
        /\ UNCHANGED <<file, kind, count, idRead, out, unsaved, crashes>>
    BY DEF Update, Change
  <1>2. PICK i \in 1 .. len, t \in Texts, active \in BOOLEAN :
          /\ arr' = [arr EXCEPT ![i] = [id |-> arr[i].id, text |-> t, active |-> active]]
          /\ throughout' = Untouched(i)
    BY DEF Update
  <1>3. lock = Nobody /\ pc[p] = "idle"
    BY <1>1 DEF Change, Free
  <1>4. hole = 0
    BY <1>3, NobodyAssumption DEF TypeInv, LockHeld
  <1> DEFINE new == [id |-> arr[i].id, text |-> t, active |-> active]
  <1>5. new \in Item /\ new.id = arr[i].id
    <2>1. arr[i] \in Item
      BY ElementOfSeq, LenProperties DEF TypeInv, TypeOK
    <2> QED
      BY <2>1 DEF Item
  <1>6. i \in 1 .. Len(arr)
    BY LenProperties DEF TypeInv, TypeOK
  <1>7. arr' = [arr EXCEPT ![i] = new]
    BY <1>2
  <1> HIDE DEF new
  <1>8. /\ arr' \in Seq(Item) /\ Len(arr') = Len(arr)
        /\ \A j \in 1 .. Len(arr) : arr'[j] = IF j = i THEN new ELSE arr[j]
    BY <1>5, <1>6, <1>7, ExceptSeq DEF TypeInv, TypeOK
  <1>9. /\ throughout' \in [Handlers -> SUBSET Item]
        /\ \A q \in Handlers : throughout'[q] \subseteq throughout[q]
    BY <1>2 DEF Untouched, TypeInv, TypeOK
  <1>10. pc' = [pc EXCEPT ![p] = "save"] /\ lock' = p /\ changes' = changes + 1
    BY <1>1 DEF Change
  <1>11. TypeOK'
    <2>1. ASSUME NEW q \in Handlers PROVE count'[q] <= Len(Cells(q)')
      <3>1. CASE q \in sharing
        <4>1. Cells(q) = arr /\ Cells(q)' = arr'
          BY <1>1, <3>1 DEF Cells
        <4> QED
          BY <1>1, <1>8, <4>1 DEF TypeInv, TypeOK
      <3>2. CASE q \notin sharing
        <4>1. Cells(q)' = Cells(q)
          BY <1>1, <3>2 DEF Cells
        <4> QED
          BY <1>1, <4>1 DEF TypeInv, TypeOK
      <3> QED
        BY <3>1, <3>2
    <2> QED
      BY <1>1, <1>4, <1>8, <1>9, <1>10, <2>1 DEF TypeInv, TypeOK
  <1>12. LockHeld'
    BY <1>1, <1>4, ChangeLocks
  <1>13. ListInv'
    <2>1. UNCHANGED listVars
      BY <1>1 DEF listVars, sliceVars
    <2> QED
      BY <1>3, <1>9, <1>10, <2>1, SectionLists
  <1> QED
    BY <1>1, <1>4, <1>5, <1>8, <1>11, <1>12, <1>13 DEF TypeInv

\* Delete marks a cell.
LEMMA DeleteTypes ==
    ASSUME TypeInv, NEW p \in Handlers, Delete(p)
    PROVE  /\ TypeInv'
           /\ hole = 0 /\ hole' \in 1 .. len /\ UNCHANGED <<arr, len, file>>
  <1>1. /\ Change(p, "shift") /\ UNCHANGED <<arr, len, sharing, cells>>
        /\ UNCHANGED <<file, kind, count, idRead, out, unsaved, crashes>>
    BY DEF Delete, Change
  <1>2. PICK i \in 1 .. len : hole' = i /\ throughout' = Untouched(i)
    BY DEF Delete
  <1>3. pc[p] = "idle" /\ pc' = [pc EXCEPT ![p] = "shift"] /\ lock' = p
        /\ changes' = changes + 1
    BY <1>1 DEF Change, Free
  <1>4. /\ throughout' \in [Handlers -> SUBSET Item]
        /\ \A q \in Handlers : throughout'[q] \subseteq throughout[q]
    BY <1>2 DEF Untouched, TypeInv, TypeOK
  <1>5. TypeOK'
    <2>1. \A q \in Handlers : count'[q] <= Len(Cells(q)')
      BY <1>1 DEF Cells, TypeInv, TypeOK
    <2>2. hole' \in 0 .. len' /\ len' \in 0 .. Len(arr')
      BY <1>1, <1>2 DEF TypeInv, TypeOK
    <2>3. pc' \in [Handlers -> {"idle", "shift", "save", "write", "encode", "rest"}]
      BY <1>3 DEF TypeInv, TypeOK
    <2>4. lock' \in Handlers \cup {Nobody} /\ changes' \in Nat
      BY <1>3 DEF TypeInv, TypeOK
    <2> QED
      BY <1>1, <1>4, <2>1, <2>2, <2>3, <2>4 DEF TypeInv, TypeOK
  <1>6. hole' \in Nat /\ hole' # 0
    BY <1>2 DEF TypeInv, TypeOK
  <1>7. LockHeld' /\ hole = 0
    BY <1>1, <1>6, ChangeLocks
  <1>8. ListInv'
    <2>1. UNCHANGED listVars
      BY <1>1 DEF listVars, sliceVars
    <2> QED
      BY <1>3, <1>4, <2>1, SectionLists
  <1> QED
    BY <1>1, <1>2, <1>5, <1>7, <1>8 DEF TypeInv

\* Add makes a new array; the slices handed out keep the cells they had.
LEMMA AddTypes ==
    ASSUME TypeInv, NEW p \in Handlers, Add(p)
    PROVE  /\ TypeInv'
           /\ hole = 0 /\ hole' = 0 /\ len' = len + 1 /\ Len(arr') = len + 1
           /\ \A j \in 1 .. len : arr'[j + 1] = arr[j]
           /\ \A j \in 1 .. len : arr[j].id < arr'[1].id
           /\ arr'[1] \in Item /\ file' = file
  <1>1. /\ Change(p, "save") /\ len' = len + 1 /\ sharing' = {}
        /\ cells' = [q \in Handlers |-> IF q \in sharing THEN Prefix(arr, count[q]) ELSE cells[q]]
        /\ UNCHANGED <<hole, throughout>>
        /\ UNCHANGED <<file, kind, count, idRead, out, unsaved, crashes>>
    BY DEF Add, Change
  <1>2. PICK maxID \in {0} \cup {arr[i].id : i \in 1 .. len}, t \in Texts :
          /\ \A i \in 1 .. len : arr[i].id <= maxID
          /\ arr' = [i \in 1 .. len + 1 |->
                       IF i = 1 THEN [id |-> NewID(maxID), text |-> t, active |-> TRUE]
                       ELSE arr[i - 1]]
    BY DEF Add
  <1>3. lock = Nobody /\ pc[p] = "idle" /\ pc' = [pc EXCEPT ![p] = "save"] /\ lock' = p
        /\ changes' = changes + 1
    BY <1>1 DEF Change, Free
  <1>4. hole = 0 /\ LockHeld'
    <2>1. hole = 0
      BY <1>3, NobodyAssumption DEF TypeInv, LockHeld
    <2> QED
      BY <1>1, <2>1, ChangeLocks
  <1>5. \A i \in 1 .. len : arr[i] \in Item /\ arr[i].id \in Nat
    <2>1. \A i \in 1 .. len : arr[i] \in Item
      BY ElementOfSeq, LenProperties DEF TypeInv, TypeOK
    <2> QED
      BY <2>1 DEF Item
  <1>6. maxID \in Nat
    BY <1>5
  <1> DEFINE new == [id |-> NewID(maxID), text |-> t, active |-> TRUE]
  <1>7. new \in Item /\ \A i \in 1 .. len : arr[i].id < new.id
    BY <1>2, <1>5, <1>6 DEF Item, NewID
  <1>8. arr' = [i \in 1 .. len + 1 |-> IF i = 1 THEN new ELSE arr[i - 1]]
    BY <1>2
  <1> HIDE DEF new
  <1>9. len \in Nat /\ len + 1 \in Nat
    BY LenProperties DEF TypeInv, TypeOK
  <1>10. arr' \in Seq(Item) /\ Len(arr') = len + 1
    <2>1. arr' \in [1 .. len + 1 -> Item]
      BY <1>5, <1>7, <1>8, <1>9
    <2> QED
      BY <1>9, <2>1, FunctionIsSeq
  <1>11. arr'[1] = new /\ \A j \in 1 .. len : arr'[j + 1] = arr[j]
    BY <1>8, <1>9
  <1>12. ASSUME NEW q \in Handlers
         PROVE  /\ Cells(q)' = cells'[q] /\ cells'[q] \in Seq(Item)
                /\ count[q] <= Len(cells'[q])
                /\ q \notin sharing => cells'[q] = cells[q]
    <2>1. CASE q \in sharing
      <3>1. count[q] \in 0 .. Len(arr)
        BY <2>1 DEF TypeInv, TypeOK, Cells
      <3>2. Prefix(arr, count[q]) \in Seq(Item) /\ Len(Prefix(arr, count[q])) = count[q]
        BY <3>1, PrefixIsSeq DEF TypeInv, TypeOK
      <3>3. cells'[q] = Prefix(arr, count[q])
        BY <1>1, <2>1
      <3> QED
        BY <1>1, <2>1, <3>1, <3>2, <3>3 DEF Cells
    <2>2. CASE q \notin sharing
      BY <1>1, <2>2 DEF Cells, TypeInv, TypeOK
    <2> QED
      BY <2>1, <2>2
  <1>13. TypeOK'
    <2>1. cells' \in [Handlers -> Seq(Item)]
      BY <1>1, <1>12
    <2>2. \A q \in Handlers : count'[q] <= Len(Cells(q)')
      BY <1>1, <1>12
    <2> QED
      BY <1>1, <1>3, <1>4, <1>9, <1>10, <2>1, <2>2 DEF TypeInv, TypeOK
  <1>14. ListInv'
    <2>1. /\ \A q \in Handlers \ {p} : pc'[q] = pc[q]
          /\ pc'[p] \notin {"encode", "rest"}
      BY <1>3 DEF TypeInv, TypeOK
    <2>2. \A q \in Handlers : InSlice(q)'
      BY <1>1, <1>3, <2>1 DEF TypeInv, ListInv, InSlice
    <2>3. CopyEncoded(p)'
      BY <1>1, <1>3 DEF TypeInv, ListInv, InSlice, CopyEncoded
    <2>4. \A q \in Handlers \ {p} : CopyEncoded(q)'
      BY <1>1, <1>12, <2>1 DEF TypeInv, ListInv, CopyEncoded
    <2> QED
      BY <2>2, <2>3, <2>4 DEF ListInv
  <1> QED
    BY <1>1, <1>4, <1>7, <1>10, <1>11, <1>13, <1>14 DEF TypeInv

-----------------------------------------------------------------------------
(* Type correctness, of every step                                         *)

\* A start of the server, from what the file is read back as.
LEMMA BootTypes ==
    ASSUME file' \in {Broken} \cup Seq(Item),
           arr' \in Seq(Item), len' = Len(arr'), hole' = 0, lock' = Nobody,
           pc' = [p \in Handlers |-> "idle"], kind' = [p \in Handlers |-> "none"],
           sharing' = {}, count' = [p \in Handlers |-> 0], idRead' = [p \in Handlers |-> 0],
           cells' = [p \in Handlers |-> <<>>], out' = [p \in Handlers |-> <<>>],
           throughout' = [p \in Handlers |-> {}],
           unsaved' = FALSE, changes' \in Nat, crashes' \in Nat
    PROVE  TypeInv'
  <1> DEFINE e == <<>>
  <1>1. e \in Seq(Item) /\ Len(e) = 0
    BY EmptySeq
  <1>2. /\ cells' = [p \in Handlers |-> e] /\ out' = [p \in Handlers |-> e]
        /\ \A p \in Handlers : cells'[p] = e /\ out'[p] = e
    OBVIOUS
  <1>3. \A p \in Handlers : out'[p] = <<>>
    OBVIOUS
  <1> HIDE DEF e
  <1>4. \A p \in Handlers : kind'[p] = "none" /\ count'[p] = 0 /\ pc'[p] = "idle"
    OBVIOUS
  <1>5. TypeOK'
    <2>1. cells' \in [Handlers -> Seq(Item)] /\ out' \in [Handlers -> Seq(Item)]
      BY <1>1, <1>2
    <2>2. \A p \in Handlers : count'[p] <= Len(Cells(p)')
      <3>1. \A p \in Handlers : Cells(p)' = e
        BY <1>2 DEF Cells
      <3> QED
        BY <1>1, <1>4, <3>1
    <2>3. len' \in 0 .. Len(arr') /\ hole' \in 0 .. len'
      <3>1. Len(arr') \in Nat
        BY LenProperties
      <3> QED
        BY <3>1
    <2>4. /\ pc' \in [Handlers -> {"idle", "shift", "save", "write", "encode", "rest"}]
          /\ kind' \in [Handlers -> {"none", "public", "admin"}]
          /\ count' \in [Handlers -> Nat] /\ idRead' \in [Handlers -> Nat]
          /\ throughout' \in [Handlers -> SUBSET Item]
      OBVIOUS
    <2>5. lock' \in Handlers \cup {Nobody} /\ sharing' \subseteq Handlers /\ unsaved' \in BOOLEAN
      OBVIOUS
    <2> QED
      BY <2>1, <2>2, <2>3, <2>4, <2>5 DEF TypeOK
  <1>6. LockHeld'
    BY <1>4, NobodyAssumption DEF LockHeld
  <1>7. ListInv'
    BY <1>1, <1>2, <1>3, <1>4 DEF ListInv, InSlice, CopyEncoded
  <1> QED
    BY <1>5, <1>6, <1>7 DEF TypeInv

LEMMA CrashTypes ==
    ASSUME TypeInv, Crash
    PROVE  TypeInv' /\ arr' = Loaded /\ len' = Len(Loaded) /\ hole' = 0 /\ file' = file
  <1>1. arr' = Loaded /\ len' = Len(Loaded) /\ hole' = 0 /\ file' = file
    BY DEF Crash
  <1>2. file \in {Broken} \cup Seq(Item) /\ changes' \in Nat /\ crashes' \in Nat
    BY DEF Crash, TypeInv, TypeOK
  <1>3. Loaded \in Seq(Item)
    BY <1>2, LoadedIsSeq
  <1>4. file' \in {Broken} \cup Seq(Item) /\ arr' \in Seq(Item) /\ len' = Len(arr')
    BY <1>1, <1>2, <1>3
  <1>5. TypeInv'
    BY <1>1, <1>2, <1>4, BootTypes DEF Crash
  <1> QED
    BY <1>1, <1>5

\* A stutter.
LEMMA StutterTypes == ASSUME TypeInv, UNCHANGED vars PROVE TypeInv'
  <1>1. UNCHANGED <<arr, len, hole, file, lock, pc, kind, sharing, cells, count, idRead,
                    out, throughout, unsaved, changes, crashes>>
    BY DEF vars, memVars, listVars, sliceVars
  <1> QED
    BY <1>1 DEF TypeInv, TypeOK, LockHeld, ListInv, InSlice, CopyEncoded, Cells

LEMMA NextTypes == TypeInv /\ [Next]_vars => TypeInv'
  <1> SUFFICES ASSUME TypeInv, [Next]_vars PROVE TypeInv'
    OBVIOUS
  <1>1. ASSUME NEW p \in Handlers, ListAll(p) PROVE TypeInv'
    BY <1>1, ListAllTypes
  <1>2. ASSUME NEW p \in Handlers, ListActive(p) PROVE TypeInv'
    BY <1>2, ListActiveTypes
  <1>3. ASSUME NEW p \in Handlers, EncodeId(p) PROVE TypeInv'
    BY <1>3, EncodeIdTypes
  <1>4. ASSUME NEW p \in Handlers, EncodeRest(p) PROVE TypeInv'
    BY <1>4, EncodeRestTypes
  <1>5. ASSUME NEW p \in Handlers, AnswerList(p) PROVE TypeInv'
    BY <1>5, AnswerListTypes
  <1>6. ASSUME NEW p \in Handlers, Add(p) PROVE TypeInv'
    BY <1>6, AddTypes
  <1>7. ASSUME NEW p \in Handlers, Update(p) PROVE TypeInv'
    BY <1>7, UpdateTypes
  <1>8. ASSUME NEW p \in Handlers, Delete(p) PROVE TypeInv'
    BY <1>8, DeleteTypes
  <1>9. ASSUME NEW p \in Handlers, Shift(p) PROVE TypeInv'
    BY <1>9, ShiftTypes
  <1>10. ASSUME NEW p \in Handlers, EndShift(p) PROVE TypeInv'
    BY <1>10, EndShiftTypes
  <1>11. ASSUME NEW p \in Handlers, Truncate(p) \/ Write(p) \/ SaveFails(p) PROVE TypeInv'
    BY <1>11, SaveTypes
  <1>12. ASSUME Crash PROVE TypeInv'
    BY <1>12, CrashTypes
  <1>13. ASSUME UNCHANGED vars PROVE TypeInv'
    BY <1>13, StutterTypes
  <1> QED
    BY <1>1, <1>2, <1>3, <1>4, <1>5, <1>6, <1>7, <1>8, <1>9, <1>10, <1>11, <1>12, <1>13 DEF Next

\* The store's state always has its type (announcement.go:22-26, and the slices
\* its handlers hold), and s.mu is held just while a change is made or saved.
THEOREM TypeCorrect == Spec => [](TypeOK /\ LockHeld)
  <1>1. TypeInv => TypeOK /\ LockHeld
    BY DEF TypeInv
  <1> QED
    BY <1>1, InitTypes, NextTypes, PTL DEF Spec

\* A public listing has every announcement that was active and untouched while it
\* was made (announcement.go:50-63).
THEOREM PublicListingComplete == Spec => []ActiveListComplete
  <1>1. TypeInv => ActiveListComplete
    <2> SUFFICES ASSUME TypeInv, NEW p \in Handlers, Encoded(p), kind[p] = "public",
                        NEW a \in throughout[p]
                 PROVE  \E i \in DOMAIN out[p] : out[p][i] = a
      BY DEF ActiveListComplete, Complete
    <2>1. PICK i \in 1 .. count[p] : cells[p][i] = a
      BY DEF TypeInv, ListInv, CopyEncoded
    <2>2. Len(out[p]) = count[p] /\ DOMAIN out[p] = 1 .. Len(out[p])
      BY LenProperties DEF Encoded, TypeInv, TypeOK
    <2>3. out[p][i] = cells[p][i] /\ i \in DOMAIN out[p]
      BY <2>1, <2>2 DEF TypeInv, ListInv, CopyEncoded
    <2> QED
      BY <2>1, <2>3
  <1> QED
    BY <1>1, InitTypes, NextTypes, PTL DEF Spec

-----------------------------------------------------------------------------
(* The list itself                                                         *)

\* Which cells make up the list.
LEMMA LiveCells ==
    ASSUME TypeOK
    PROVE  /\ hole = 0 => Live = Prefix(arr, len) /\ DOMAIN Live = 1 .. len
           /\ hole # 0 => DOMAIN Live = 1 .. len - 1
           /\ \A j \in DOMAIN Live : Live[j] = arr[IF hole = 0 \/ j < hole THEN j ELSE j + 1]
  BY DEF Live, Prefix, TypeOK

\* Moving a cell up does not change the list, nor does dropping the last one when
\* all have been moved.
LEMMA ShiftKeepsLive ==
    ASSUME TypeInv, NEW p \in Handlers, Shift(p) \/ EndShift(p)
    PROVE  Live' = Live /\ file' = file
  <1>1. CASE Shift(p)
    <2> /\ arr \in Seq(Item) /\ len \in 0 .. Len(arr) /\ hole \in 0 .. len
      BY DEF TypeInv, TypeOK
    <2>a. Len(arr) \in Nat /\ DOMAIN arr = 1 .. Len(arr)
      BY LenProperties
    <2>b. /\ hole < len /\ hole' = hole + 1 /\ len' = len /\ file' = file
          /\ arr' = [arr EXCEPT ![hole] = arr[hole + 1]]
      BY <1>1 DEF Shift
    <2>c. pc[p] = "shift" /\ lock = p
      BY <1>1 DEF Shift, TypeInv, LockHeld
    <2>d. hole # 0
      BY <2>c DEF TypeInv, LockHeld
    <2>e. \A j \in 1 .. Len(arr) : arr'[j] = arr[IF j = hole THEN j + 1 ELSE j]
      BY <2>a, <2>b
    <2>1. /\ hole \in 1 .. len - 1 /\ hole' = hole + 1 /\ len' = len /\ len <= Len(arr)
          /\ \A j \in 1 .. Len(arr) : arr'[j] = arr[IF j = hole THEN j + 1 ELSE j]
          /\ file' = file /\ Len(arr) \in Nat /\ len \in Nat
      BY <2>a, <2>b, <2>d, <2>e
    <2>2. hole # 0 /\ hole' # 0
      BY <2>1
    <2>3. /\ Live = [j \in 1 .. len - 1 |-> arr[IF j < hole THEN j ELSE j + 1]]
          /\ Live' = [j \in 1 .. len - 1 |-> arr'[IF j < hole + 1 THEN j ELSE j + 1]]
      BY <2>1, <2>2 DEF Live
    <2>4. ASSUME NEW j \in 1 .. len - 1
          PROVE  arr'[IF j < hole + 1 THEN j ELSE j + 1] = arr[IF j < hole THEN j ELSE j + 1]
      BY <2>1
    <2> QED
      BY <2>1, <2>3, <2>4
  <1>2. CASE EndShift(p)
    <2>1. hole = len /\ len' = len - 1 /\ hole' = 0 /\ arr' = arr /\ file' = file
      BY <1>2 DEF EndShift
    <2>2. hole # 0 /\ len \in Nat
      BY <1>2 DEF EndShift, TypeInv, TypeOK, LockHeld
    <2>3. /\ Live = [j \in 1 .. len - 1 |-> arr[IF j < len THEN j ELSE j + 1]]
          /\ Live' = [j \in 1 .. len - 1 |-> arr[j]]
      BY <2>1, <2>2 DEF Live, Prefix
    <2>4. \A j \in 1 .. len - 1 : j < len
      BY <2>2
    <2> QED
      BY <2>1, <2>3, <2>4
  <1> QED
    BY <1>1, <1>2

\* The other steps that leave the list and the file as they are.
LEMMA QuietStep ==
    ASSUME NEW p \in Handlers,
           \/ ListAll(p) \/ ListActive(p) \/ EncodeId(p) \/ EncodeRest(p) \/ AnswerList(p)
           \/ SaveFails(p) \/ UNCHANGED vars
    PROVE  Live' = Live /\ file' = file
  <1>1. UNCHANGED <<memVars, file>>
    BY DEF ListAll, ListActive, StartEncoding, EncodeId, EncodeRest, AnswerList, SaveFails,
           Return, vars
  <1> QED
    BY <1>1 DEF Live, Prefix, memVars

\* While a save is under way there is no hole, and what is saved is the list.
LEMMA SavesLive ==
    ASSUME TypeInv, NEW p \in Handlers, Truncate(p) \/ Write(p)
    PROVE  /\ Live' = Live /\ hole = 0
           /\ file' = IF pc[p] = "save" THEN Broken ELSE Live
  <1>1. UNCHANGED memVars /\ pc[p] \in {"save", "write"}
    BY DEF Truncate, Write, Return
  <1>2. lock = p
    BY <1>1 DEF TypeInv, LockHeld
  <1>3. hole = 0
    BY <1>1, <1>2 DEF TypeInv, LockHeld
  <1>4. file' = IF pc[p] = "save" THEN Broken ELSE Marshaled
    BY DEF Truncate, Write
  <1> QED
    BY <1>1, <1>3, <1>4 DEF Live, Prefix, Marshaled, memVars

\* What a start of the server makes of the file is the list.
LEMMA InitLive == Init => Live = Loaded
  <1> SUFFICES ASSUME Init PROVE Live = Loaded
    OBVIOUS
  <1>1. Loaded \in Seq(Item)
    BY LoadedIsSeq, FileAssumption DEF Init
  <1>2. Loaded = [i \in 1 .. Len(Loaded) |-> Loaded[i]]
    BY <1>1, LenProperties
  <1>3. Live = Prefix(Loaded, Len(Loaded))
    BY DEF Init, Live
  <1> QED
    BY <1>2, <1>3 DEF Prefix

LEMMA CrashLive ==
    ASSUME TypeInv, Crash
    PROVE  Live' = Loaded /\ file' = file /\ Loaded' = Loaded
  <1>1. arr' = Loaded /\ len' = Len(Loaded) /\ hole' = 0 /\ file' = file
    BY CrashTypes
  <1>2. Loaded \in Seq(Item)
    BY LoadedIsSeq DEF TypeInv, TypeOK
  <1>3. Loaded = [i \in 1 .. Len(Loaded) |-> Loaded[i]]
    BY <1>2, LenProperties
  <1>4. Loaded' = Loaded
    BY <1>1 DEF Loaded
  <1>5. Live' = Prefix(Loaded, Len(Loaded))
    BY <1>1 DEF Live, Prefix
  <1> QED
    BY <1>1, <1>3, <1>4, <1>5 DEF Prefix

-----------------------------------------------------------------------------
(* Ids                                                                     *)

LEMMA LoadedUnique ==
    ASSUME file # Broken => Unique(file)
    PROVE  Unique(Loaded)
  <1>1. CASE file = Broken
    <2>1. DOMAIN Loaded = {}
      BY <1>1 DEF Loaded
    <2> QED
      BY <2>1 DEF Unique
  <1>2. CASE file # Broken
    BY <1>2 DEF Loaded
  <1> QED
    BY <1>1, <1>2

LEMMA AddUnique ==
    ASSUME IdInv, NEW p \in Handlers, Add(p)
    PROVE  UniqueIds'
  <1>1. /\ TypeInv' /\ hole = 0 /\ hole' = 0 /\ len' = len + 1 /\ len \in Nat
        /\ \A j \in 1 .. len : arr'[j + 1] = arr[j]
        /\ \A j \in 1 .. len : arr[j].id < arr'[1].id
        /\ arr'[1] \in Item /\ file' = file
    <2>1. len \in Nat
      BY LenProperties DEF IdInv, TypeInv, TypeOK
    <2> QED
      BY <2>1, AddTypes DEF IdInv
  <1>2. \A i, j \in 1 .. len : arr[i].id = arr[j].id => i = j
    <2>1. DOMAIN Live = 1 .. len /\ \A j \in 1 .. len : Live[j] = arr[j]
      BY <1>1, LiveCells DEF IdInv, TypeInv
    <2> QED
      BY <2>1 DEF IdInv, UniqueIds, Unique
  <1>3. \A j \in 1 .. len : arr[j].id \in Nat
    <2>1. \A j \in 1 .. len : arr[j] \in Item
      BY ElementOfSeq, LenProperties DEF IdInv, TypeInv, TypeOK
    <2> QED
      BY <2>1 DEF Item
  <1>4. ASSUME NEW i \in 1 .. len + 1, NEW j \in 1 .. len + 1, arr'[i].id = arr'[j].id
        PROVE  i = j
    <2>1. arr'[1].id \in Nat
      BY <1>1 DEF Item
    <2>2. CASE i = 1 /\ j # 1
      <3>1. j - 1 \in 1 .. len /\ arr'[j] = arr[j - 1]
        BY <1>1, <2>2
      <3> QED
        BY <1>1, <1>3, <1>4, <2>1, <2>2, <3>1
    <2>3. CASE i # 1 /\ j = 1
      <3>1. i - 1 \in 1 .. len /\ arr'[i] = arr[i - 1]
        BY <1>1, <2>3
      <3> QED
        BY <1>1, <1>3, <1>4, <2>1, <2>3, <3>1
    <2>4. CASE i # 1 /\ j # 1
      <3>1. /\ i - 1 \in 1 .. len /\ arr'[i] = arr[i - 1]
            /\ j - 1 \in 1 .. len /\ arr'[j] = arr[j - 1]
        BY <1>1, <2>4
      <3>2. i - 1 = j - 1
        BY <1>2, <1>4, <3>1
      <3> QED
        BY <3>2
    <2> QED
      BY <2>2, <2>3, <2>4
  <1>5. Live' = [i \in 1 .. len + 1 |-> arr'[i]]
    BY <1>1 DEF Live, Prefix
  <1>6. Unique(Live)'
    BY <1>4, <1>5 DEF Unique
  <1> QED
    BY <1>1, <1>6 DEF IdInv, UniqueIds, Unique

LEMMA UpdateUnique ==
    ASSUME IdInv, NEW p \in Handlers, Update(p)
    PROVE  UniqueIds'
  <1>1. /\ hole = 0 /\ hole' = 0 /\ len' = len /\ len \in 0 .. Len(arr) /\ Len(arr) \in Nat
        /\ \A j \in 1 .. Len(arr) : arr'[j].id = arr[j].id
        /\ file' = file
    BY UpdateTypes, LenProperties DEF IdInv, TypeInv, TypeOK, Update, Change
  <1>2. Live = [i \in 1 .. len |-> arr[i]] /\ Live' = [i \in 1 .. len |-> arr'[i]]
    BY <1>1 DEF Live, Prefix
  <1>3. \A i, j \in 1 .. len : arr[i].id = arr[j].id => i = j
    BY <1>2 DEF IdInv, UniqueIds, Unique
  <1>4. \A i, j \in 1 .. len : arr'[i].id = arr'[j].id => i = j
    BY <1>1, <1>3
  <1>5. Unique(Live)'
    BY <1>2, <1>4 DEF Unique
  <1> QED
    BY <1>1, <1>5 DEF IdInv, UniqueIds, Unique

LEMMA DeleteUnique ==
    ASSUME IdInv, NEW p \in Handlers, Delete(p)
    PROVE  UniqueIds'
  <1>1. hole = 0 /\ hole' \in 1 .. len /\ UNCHANGED <<arr, len, file>> /\ len \in Nat
    BY DeleteTypes DEF IdInv, TypeInv, TypeOK
  <1>2. \A i, j \in 1 .. len : arr[i].id = arr[j].id => i = j
    <2>1. Live = [i \in 1 .. len |-> arr[i]]
      BY <1>1 DEF Live, Prefix
    <2> QED
      BY <2>1 DEF IdInv, UniqueIds, Unique
  <1>3. Live' = [j \in 1 .. len - 1 |-> arr[IF j < hole' THEN j ELSE j + 1]]
    BY <1>1 DEF Live
  <1>4. ASSUME NEW i \in 1 .. len - 1, NEW j \in 1 .. len - 1, Live'[i].id = Live'[j].id
        PROVE  i = j
    <2>1. (IF i < hole' THEN i ELSE i + 1) = (IF j < hole' THEN j ELSE j + 1)
      BY <1>1, <1>2, <1>3, <1>4
    <2> QED
      BY <1>1, <2>1
  <1>5. Unique(Live)'
    BY <1>3, <1>4 DEF Unique
  <1> QED
    BY <1>1, <1>5 DEF IdInv, UniqueIds, Unique

LEMMA NextUnique == IdInv /\ [Next]_vars => UniqueIds'
  <1> SUFFICES ASSUME IdInv, [Next]_vars PROVE UniqueIds'
    OBVIOUS
  <1>0. TypeInv
    BY DEF IdInv
  <1>1. ASSUME Live' = Live, file' = file PROVE UniqueIds'
    BY <1>1 DEF IdInv, UniqueIds, Unique
  <1>2. ASSUME NEW p \in Handlers,
               \/ ListAll(p) \/ ListActive(p) \/ EncodeId(p) \/ EncodeRest(p)
               \/ AnswerList(p) \/ SaveFails(p)
        PROVE  UniqueIds'
    BY <1>1, <1>2, QuietStep
  <1>3. ASSUME NEW p \in Handlers, Shift(p) \/ EndShift(p) PROVE UniqueIds'
    BY <1>0, <1>1, <1>3, ShiftKeepsLive
  <1>4. ASSUME NEW p \in Handlers, Truncate(p) \/ Write(p) PROVE UniqueIds'
    <2>1. Live' = Live /\ file' \in {Broken, Live}
      BY <1>0, <1>4, SavesLive
    <2> QED
      BY <2>1 DEF IdInv, UniqueIds, Unique
  <1>5. ASSUME NEW p \in Handlers, Add(p) \/ Update(p) \/ Delete(p) PROVE UniqueIds'
    BY <1>5, AddUnique, UpdateUnique, DeleteUnique
  <1>6. ASSUME Crash PROVE UniqueIds'
    <2>1. Live' = Loaded /\ file' = file
      BY <1>0, <1>6, CrashLive
    <2>2. Unique(Loaded)
      BY LoadedUnique DEF IdInv, UniqueIds
    <2> QED
      BY <2>1, <2>2 DEF IdInv, UniqueIds, Unique
  <1>7. ASSUME UNCHANGED vars PROVE UniqueIds'
    BY <1>1, <1>7 DEF Live, Prefix, vars, memVars
  <1> QED
    BY <1>2, <1>3, <1>4, <1>5, <1>6, <1>7 DEF Next

LEMMA InitUnique == Init => UniqueIds
  <1> SUFFICES ASSUME Init PROVE UniqueIds
    OBVIOUS
  <1>1. file # Broken => Unique(file)
    BY FileAssumption DEF Init
  <1> QED
    BY <1>1, InitLive, LoadedUnique DEF UniqueIds

\* Ids stay unique, in memory and in the file, whatever is added, changed,
\* deleted, lost and reloaded (announcement.go:66-109).
THEOREM IdsStayUnique == Spec => []UniqueIds
  <1>1. Init => IdInv
    BY InitTypes, InitUnique DEF IdInv
  <1>2. IdInv /\ [Next]_vars => IdInv'
    BY NextTypes, NextUnique DEF IdInv
  <1>3. IdInv => UniqueIds
    BY DEF IdInv
  <1> QED
    BY <1>1, <1>2, <1>3, PTL DEF Spec

-----------------------------------------------------------------------------
(* Saving                                                                  *)

\* A file that has just been written is read back as the list.
LEMMA WriteSaves ==
    ASSUME TypeInv, NEW p \in Handlers, Write(p)
    PROVE  Loaded' = Live'
  <1>1. file' = Marshaled /\ pc[p] = "write"
    BY DEF Write
  <1>2. Live' = Live /\ file' = Live
    BY <1>1, SavesLive
  <1>3. Marshaled \in Seq(Item)
    BY PrefixIsSeq DEF Marshaled, TypeInv, TypeOK
  <1>4. file' # Broken
    BY <1>1, <1>3, FileAssumption
  <1> QED
    BY <1>2, <1>4 DEF Loaded

LEMMA NextRestores == SaveInv /\ [Next]_vars => RestartRestores'
  <1> SUFFICES ASSUME SaveInv, [Next]_vars PROVE RestartRestores'
    OBVIOUS
  <1>0. TypeInv
    BY DEF SaveInv
  <1>1. ASSUME Live' = Live, file' = file, UNCHANGED <<lock, unsaved>> PROVE RestartRestores'
    BY <1>1 DEF SaveInv, RestartRestores, Loaded
  <1>2. ASSUME NEW p \in Handlers,
               ListAll(p) \/ ListActive(p) \/ EncodeId(p) \/ EncodeRest(p) \/ AnswerList(p)
        PROVE  RestartRestores'
    <2>1. UNCHANGED <<lock, unsaved>>
      BY <1>2 DEF ListAll, ListActive, StartEncoding, EncodeId, EncodeRest, AnswerList
    <2> QED
      BY <1>1, <1>2, <2>1, QuietStep
  <1>3. ASSUME NEW p \in Handlers,
               Add(p) \/ Update(p) \/ Delete(p) \/ Shift(p) \/ EndShift(p) \/ Truncate(p)
        PROVE  RestartRestores'
    <2>1. lock' = p
      BY <1>0, <1>3 DEF Add, Update, Delete, Change, Shift, EndShift, Truncate, TypeInv, LockHeld
    <2> QED
      BY <2>1, NobodyAssumption DEF RestartRestores
  <1>4. ASSUME NEW p \in Handlers, SaveFails(p) PROVE RestartRestores'
    BY <1>4 DEF SaveFails, Return, RestartRestores
  <1>5. ASSUME NEW p \in Handlers, Write(p) PROVE RestartRestores'
    BY <1>0, <1>5, WriteSaves DEF RestartRestores
  <1>6. ASSUME Crash PROVE RestartRestores'
    BY <1>0, <1>6, CrashLive DEF RestartRestores
  <1>7. ASSUME UNCHANGED vars PROVE RestartRestores'
    BY <1>1, <1>7 DEF Live, Prefix, vars, memVars
  <1> QED
    BY <1>2, <1>3, <1>4, <1>5, <1>6, <1>7 DEF Next

\* With no save under way and none failed since the last good one, a restart
\* brings the list back (announcement.go:29-47).
THEOREM RestartKeepsList == Spec => []RestartRestores
  <1>1. Init => SaveInv
    BY InitTypes, InitLive DEF SaveInv, RestartRestores
  <1>2. SaveInv /\ [Next]_vars => SaveInv'
    BY NextTypes, NextRestores DEF SaveInv
  <1>3. SaveInv => RestartRestores
    BY DEF SaveInv
  <1> QED
    BY <1>1, <1>2, <1>3, PTL DEF Spec

-----------------------------------------------------------------------------
(* The registry                                                            *)

LEMMA AddPosts ==
    ASSUME IdInv, NEW p \in Handlers, Add(p)
    PROVE  Registry!Post
  <1>1. /\ hole = 0 /\ hole' = 0 /\ len' = len + 1 /\ file' = file
        /\ \A j \in 1 .. len : arr'[j + 1] = arr[j]
        /\ \A j \in 1 .. len : arr[j].id < arr'[1].id
        /\ arr'[1] \in Item
    BY AddTypes DEF IdInv
  <1>2. len \in Nat /\ Live \in Seq(Item) /\ Len(Live) = len
    <2>1. len \in 0 .. Len(arr) /\ len \in Nat /\ Live = Prefix(arr, len)
      BY <1>1, LenProperties DEF IdInv, TypeInv, TypeOK, Live
    <2> QED
      BY <2>1, PrefixIsSeq DEF IdInv, TypeInv, TypeOK
  <1>3. DOMAIN Live = 1 .. len /\ \A i \in 1 .. len : Live[i] = arr[i] /\ arr[i] \in Item
    BY <1>1, <1>2, ElementOfSeq, LenProperties DEF Live, Prefix, IdInv, TypeInv, TypeOK
  <1>4. PICK maxID \in {0} \cup {arr[i].id : i \in 1 .. len}, t \in Texts :
          arr'[1] = [id |-> maxID + 1, text |-> t, active |-> TRUE]
    <2>1. PICK maxID \in {0} \cup {arr[i].id : i \in 1 .. len}, t \in Texts :
            arr' = [i \in 1 .. len + 1 |->
                      IF i = 1 THEN [id |-> NewID(maxID), text |-> t, active |-> TRUE]
                      ELSE arr[i - 1]]
      BY DEF Add
    <2>2. arr'[1] = [id |-> NewID(maxID), text |-> t, active |-> TRUE]
      BY <1>2, <2>1
    <2> QED
      BY <2>2 DEF NewID
  <1> DEFINE new == arr'[1]
  <1>5. new \in [id : {k + 1 : k \in {0} \cup {Live[i].id : i \in DOMAIN Live}},
                 text : Texts, active : {TRUE}]
    BY <1>3, <1>4
  <1>6. \A i \in DOMAIN Live : Live[i].id # new.id
    BY <1>1, <1>3 DEF Item
  <1> HIDE DEF new
  <1>7. Live' = <<new>> \o Live
    <2>1. <<new>> \in Seq(Item) /\ Len(<<new>>) = 1 /\ <<new>>[1] = new
      BY <1>1 DEF new
    <2>2. /\ <<new>> \o Live \in Seq(Item) /\ Len(<<new>> \o Live) = len + 1
          /\ \A i \in 1 .. len + 1 :
                (<<new>> \o Live)[i] = IF i = 1 THEN new ELSE Live[i - 1]
      BY <1>2, <2>1, ConcatProperties
    <2>3. Live' = [i \in 1 .. len + 1 |-> arr'[i]]
      BY <1>1 DEF Live, Prefix
    <2>4. ASSUME NEW i \in 1 .. len + 1 PROVE arr'[i] = IF i = 1 THEN new ELSE Live[i - 1]
      <3>1. CASE i = 1
        BY <3>1 DEF new
      <3>2. CASE i # 1
        BY <1>1, <1>2, <1>3, <3>2
      <3> QED
        BY <3>1, <3>2
    <2>5. <<new>> \o Live = [i \in 1 .. len + 1 |-> (<<new>> \o Live)[i]]
      BY <1>2, <2>2, LenProperties
    <2> QED
      BY <2>2, <2>3, <2>4, <2>5
  <1> QED
    BY <1>1, <1>5, <1>6, <1>7 DEF Registry!Post

LEMMA UpdateRevises ==
    ASSUME IdInv, NEW p \in Handlers, Update(p)
    PROVE  Registry!Revise
  <1>1. /\ hole = 0 /\ hole' = 0 /\ len' = len /\ len \in 0 .. Len(arr) /\ file' = file
        /\ arr \in Seq(Item)
    BY UpdateTypes DEF IdInv, TypeInv, TypeOK, Update, Change
  <1>2. PICK i \in 1 .. len, t \in Texts, active \in BOOLEAN :
          arr' = [arr EXCEPT ![i] = [id |-> arr[i].id, text |-> t, active |-> active]]
    BY DEF Update
  <1>3. Live = [j \in 1 .. len |-> arr[j]] /\ Live' = [j \in 1 .. len |-> arr'[j]]
    BY <1>1 DEF Live, Prefix
  <1>4. DOMAIN arr = 1 .. Len(arr) /\ Len(arr) \in Nat
    BY <1>1, LenProperties
  <1> DEFINE new == [id |-> arr[i].id, text |-> t, active |-> active]
  <1>5. Live[i].id = arr[i].id /\ i \in DOMAIN Live
    BY <1>3
  <1>6. Live' = [Live EXCEPT ![i] = new]
    <2> HIDE DEF new
    <2>1. arr' = [arr EXCEPT ![i] = new]
      BY <1>2 DEF new
    <2>2. \A j \in 1 .. len : arr'[j] = IF j = i THEN new ELSE arr[j]
      BY <1>1, <1>4, <2>1
    <2> QED
      BY <1>3, <2>2
  <1>7. Live' = [Live EXCEPT ![i] = [id |-> Live[i].id, text |-> t, active |-> active]]
    BY <1>5, <1>6
  <1> QED
    BY <1>1, <1>5, <1>7 DEF Registry!Revise

LEMMA DeleteWithdraws ==
    ASSUME IdInv, NEW p \in Handlers, Delete(p)
    PROVE  Registry!Withdraw
  <1>1. hole = 0 /\ hole' \in 1 .. len /\ UNCHANGED <<arr, len, file>> /\ len \in Nat
    BY DeleteTypes DEF IdInv, TypeInv, TypeOK
  <1>2. /\ Live = [j \in 1 .. len |-> arr[j]]
        /\ Live' = [j \in 1 .. len - 1 |-> arr[IF j < hole' THEN j ELSE j + 1]]
    BY <1>1 DEF Live, Prefix
  <1>3. Len(Live) = len
    <2>1. len \in 0 .. Len(arr) /\ Live = Prefix(arr, len)
      BY <1>1 DEF IdInv, TypeInv, TypeOK, Live
    <2> QED
      BY <2>1, PrefixIsSeq DEF IdInv, TypeInv, TypeOK
  <1>4. hole' \in DOMAIN Live
    BY <1>1, <1>2
  <1>5. Live' = [j \in 1 .. Len(Live) - 1 |-> Live[IF j < hole' THEN j ELSE j + 1]]
    <2>1. \A j \in 1 .. len - 1 :
            arr[IF j < hole' THEN j ELSE j + 1] = Live[IF j < hole' THEN j ELSE j + 1]
      BY <1>1, <1>2
    <2> QED
      BY <1>2, <1>3, <2>1
  <1> QED
    BY <1>1, <1>4, <1>5 DEF Registry!Withdraw

LEMMA NextRefines == IdInv /\ [Next]_vars => [Registry!Next]_(Registry!vars)
  <1> SUFFICES ASSUME IdInv, [Next]_vars PROVE [Registry!Next]_(Registry!vars)
    OBVIOUS
  <1>0. TypeInv
    BY DEF IdInv
  <1>1. ASSUME Live' = Live, file' = file PROVE UNCHANGED Registry!vars
    BY <1>1 DEF Registry!vars
  <1>2. ASSUME NEW p \in Handlers,
               \/ ListAll(p) \/ ListActive(p) \/ EncodeId(p) \/ EncodeRest(p)
               \/ AnswerList(p) \/ SaveFails(p)
        PROVE  UNCHANGED Registry!vars
    BY <1>1, <1>2, QuietStep
  <1>3. ASSUME NEW p \in Handlers, Shift(p) \/ EndShift(p) PROVE UNCHANGED Registry!vars
    BY <1>0, <1>1, <1>3, ShiftKeepsLive
  <1>4. ASSUME NEW p \in Handlers, Truncate(p) \/ Write(p) PROVE Registry!Next
    <2>1. Live' = Live /\ (file' = Broken \/ file' = Live)
      BY <1>0, <1>4, SavesLive
    <2> QED
      BY <2>1 DEF Registry!Next, Registry!Spoil, Registry!Store
  <1>5. ASSUME NEW p \in Handlers, Add(p) \/ Update(p) \/ Delete(p) PROVE Registry!Next
    BY <1>5, AddPosts, UpdateRevises, DeleteWithdraws DEF Registry!Next
  <1>6. ASSUME Crash PROVE Registry!Next
    <2>1. Live' = Loaded /\ file' = file
      BY <1>0, <1>6, CrashLive
    <2> QED
      BY <2>1 DEF Registry!Next, Registry!Restart, Registry!Readable, Loaded
  <1>7. ASSUME UNCHANGED vars PROVE UNCHANGED Registry!vars
    BY <1>1, <1>7 DEF Live, Prefix, vars, memVars
  <1> QED
    BY <1>2, <1>3, <1>4, <1>5, <1>6, <1>7 DEF Next

\* The store implements the registry of AnnouncementRegistry: what it does to
\* arrays in place amounts to whole operations on a list (announcement.go:66-109).
THEOREM ImplementsRegistry == Spec => RefinesRegistry
  <1>1. Init => Registry!Init
    <2> SUFFICES ASSUME Init PROVE Registry!Init
      OBVIOUS
    <2>1. file \in {Broken} \cup Seq(Item)
      BY FileAssumption DEF Init
    <2> QED
      BY <2>1, InitLive DEF Registry!Init, Registry!Readable, Registry!Item, Item, Loaded
  <1>2. Init => IdInv
    BY InitTypes, InitUnique DEF IdInv
  <1>3. IdInv /\ [Next]_vars => IdInv'
    BY NextTypes, NextUnique DEF IdInv
  <1> QED
    BY <1>1, <1>2, <1>3, NextRefines, PTL DEF Spec, RefinesRegistry, Registry!Spec

=============================================================================
