-------------------------- MODULE Listings_proofs ---------------------------
(***************************************************************************)
(* Theorems of Listings, for a table of any size, any times and any limit: *)
(* what a walk through the audit log by its cursor, and one through a list *)
(* by page numbers, shows of the rows that were there at the beginning.    *)
(***************************************************************************)
EXTENDS Listings, FiniteSetTheorems, TLAPS

USE ListingsAssumption

\* The first page of a set, newest first.
LEMMA FirstPage ==
    ASSUME NEW T \in SUBSET Rows, NEW take \in Nat, NEW S \in Pages(T, 0, take, TRUE)
    PROVE  /\ S \subseteq T /\ NewestFirst(S, T \ S)
           /\ Cardinality(T) \in Nat /\ IsFiniteSet(T)
           /\ Cardinality(S) = AtMost(take, Cardinality(T))
<1>1. IsFiniteSet(T) /\ Cardinality(T) \in Nat
  BY FS_Subset, FS_CardinalityType
<1>2. S \subseteq T
  BY DEF Pages
<1>3. PICK B \in SUBSET (T \ S) :
        /\ Cardinality(B) = AtMost(0, Cardinality(T))
        /\ Cardinality(S) = AtMost(take, Cardinality(T) - Cardinality(B))
        /\ NewestFirst(S, T \ (B \cup S))
  BY DEF Pages
<1>4. Cardinality(B) = 0
  BY <1>1, <1>3 DEF AtMost
<1>5. B = {}
  BY <1>1, <1>3, <1>4, FS_Subset, FS_EmptySet
<1>6. T \ (B \cup S) = T \ S
  BY <1>5
<1>7. Cardinality(T) - Cardinality(B) = Cardinality(T)
  BY <1>1, <1>4
<1> QED BY <1>1, <1>2, <1>3, <1>6, <1>7

-----------------------------------------------------------------------------
(* The walk through the audit log.                                         *)

WalkInv == TypeOK /\ Ahead /\ AuditWalk

LEMMA WalkInit == Init => WalkInv
<1> SUFFICES ASSUME Init PROVE WalkInv
  OBVIOUS
<1> USE DEF Init
<1>1. TypeOK
  <2>1. walk \in Walk
    BY DEF Walk
  <2>2. created \in [Rows -> 0..MaxTime] /\ seen \in [Rows -> 0..2]
    BY DEF Init
  <2> QED BY <2>1, <2>2 DEF TypeOK
<1>2. Ahead /\ AuditWalk
  BY DEF Ahead, AuditWalk
<1> QED BY <1>1, <1>2 DEF WalkInv

\* No other listing is the audit log.
LEMMA AuditLogApart == AuditLog \notin Listings
BY DEF AuditLog, Listings, FindAllEmpresas, FindAllUsuarios, FindAllPerfis, FindAllPermissoes,
   FindPerfisByNome, FindPermissoesByNome, FindUsersByCompany, FindCompaniesByUser

LEMMA BeginInv == WalkInv /\ Begin => WalkInv'
<1> SUFFICES ASSUME WalkInv, Begin PROVE WalkInv'
  OBVIOUS
<1>1. /\ TypeOK /\ walk.at = "idle"
      /\ UNCHANGED <<created, removed, seen, shrunk, early, cuts>>
  BY DEF WalkInv, Begin
<1>2. PICK limit \in Limits :
        \/ walk' = [walk EXCEPT !.at = "cursor", !.limit = limit] /\ lasting' = Stored
        \/ \E l \in Listings :
             /\ walk' = [walk EXCEPT !.at = "page", !.limit = limit, !.listing = l]
             /\ lasting' = Shown(l)
  BY DEF Begin
<1>3. limit \in 1..MaxLimit
  BY DEF Limits, AtMost
<1>4. CASE walk' = [walk EXCEPT !.at = "cursor", !.limit = limit] /\ lasting' = Stored
  <2>1. TypeOK'
    <3>1. walk' \in Walk
      BY <1>1, <1>3, <1>4 DEF TypeOK, Walk
    <3> QED BY <1>1, <1>4, <3>1 DEF TypeOK, Stored
  <2>2. walk'.at = "cursor" /\ walk'.cursor = walk.cursor /\ walk'.listing = walk.listing
    BY <1>1, <1>4 DEF TypeOK, Walk
  <2>3. Ahead' /\ AuditWalk'
    <3>1. CASE walk.listing = AuditLog
      <4>1. walk.cursor = MaxTime + 1 /\ \A r \in Rows : seen[r] = 0
        BY <1>1 DEF WalkInv, Ahead
      <4>2. \A r \in Rows : created[r] < MaxTime + 1
        BY <1>1 DEF TypeOK
      <4>3. \A r \in lasting' : r \in Rows /\ created[r] # 0
        BY <1>4 DEF Stored
      <4>4. \A r \in Rows : seen[r] <= 1
        BY <4>1
      <4> QED BY <1>1, <2>2, <3>1, <4>1, <4>2, <4>3, <4>4 DEF Ahead, AuditWalk
    <3>2. CASE walk.listing # AuditLog
      BY <1>1, <3>2 DEF WalkInv, Ahead
    <3> QED BY <3>1, <3>2
  <2> QED BY <2>1, <2>3 DEF WalkInv
<1>5. CASE \E l \in Listings :
             /\ walk' = [walk EXCEPT !.at = "page", !.limit = limit, !.listing = l]
             /\ lasting' = Shown(l)
  <2>1. PICK l \in Listings :
          /\ walk' = [walk EXCEPT !.at = "page", !.limit = limit, !.listing = l]
          /\ lasting' = Shown(l)
    BY <1>5
  <2>2. walk' \in Walk /\ walk'.listing = l /\ walk'.at = "page"
    BY <1>1, <1>3, <2>1 DEF TypeOK, Walk
  <2>3. lasting' \subseteq Rows
    BY <2>1 DEF Shown, Stored
  <2> QED BY <1>1, <2>2, <2>3, AuditLogApart DEF WalkInv, TypeOK, Ahead, AuditWalk
<1> QED BY <1>2, <1>4, <1>5

LEMMA GotOK ==
    ASSUME TypeOK, NEW S, Got(S)
    PROVE  /\ seen' \in [Rows -> 0..2]
           /\ \A r \in Rows : r \notin S => seen'[r] = seen[r]
           /\ \A r \in Rows : r \in S /\ seen[r] = 0 => seen'[r] = 1
BY DEF TypeOK, Got, AtMost

\* A walk by page number.
LEMMA PageInv == WalkInv /\ (FindItems \/ CountTotal) => WalkInv'
<1> SUFFICES ASSUME WalkInv, FindItems \/ CountTotal PROVE WalkInv'
  OBVIOUS
<1>1. TypeOK /\ UNCHANGED <<created, removed, lasting, shrunk, early, cuts>>
  BY DEF WalkInv, FindItems, CountTotal, history
<1>2. walk.at \in {"page", "items", "count"} /\ walk \in Walk
  BY <1>1 DEF FindItems, CountTotal, TypeOK
<1>3. walk.listing # AuditLog
  BY <1>2 DEF WalkInv, Ahead
<1>4. \A w \in Walk : /\ Answer(w) \in Walk /\ Answer(w).listing = w.listing
                      /\ Answer(w).at \in {"page", "done"}
  <2> SUFFICES ASSUME NEW w \in Walk
               PROVE  /\ Answer(w) \in Walk /\ Answer(w).listing = w.listing
                      /\ Answer(w).at \in {"page", "done"}
    OBVIOUS
  <2>1. [w EXCEPT !.at = "page", !.page = w.page + 1, !.total = 0] \in Walk
    <3>1. w.page + 1 \in Nat \ {0}
      BY DEF Walk
    <3> QED BY <3>1 DEF Walk
  <2>2. [w EXCEPT !.at = "done"] \in Walk
    BY DEF Walk
  <2> QED BY <2>1, <2>2 DEF Answer, Walk
<1>5. walk' \in Walk /\ walk'.listing = walk.listing /\ walk'.at \notin {"idle", "cursor"}
  <2>1. CASE FindItems
    <3>1. [walk EXCEPT !.at = "count"] \in Walk
      BY <1>2 DEF Walk
    <3>2. walk' = [walk EXCEPT !.at = "count"] \/ walk' = Answer(walk)
      BY <2>1 DEF FindItems
    <3> QED BY <1>2, <1>4, <3>1, <3>2 DEF Walk
  <2>2. CASE CountTotal
    <3>1. IsFiniteSet(Shown(walk.listing))
      BY FS_Subset DEF Shown, Stored
    <3> DEFINE n == Cardinality(Shown(walk.listing))  w == [walk EXCEPT !.total = n]
    <3>2. n \in Nat
      BY <3>1, FS_CardinalityType
    <3> HIDE DEF n
    <3>3. w \in Walk /\ w.listing = walk.listing
      BY <1>2, <3>2 DEF Walk
    <3>4. /\ [w EXCEPT !.at = "items"] \in Walk /\ [w EXCEPT !.at = "items"].listing = w.listing
          /\ [w EXCEPT !.at = "items"].at = "items"
      BY <3>3 DEF Walk
    <3>5. walk' = IF walk.at = "page" THEN [w EXCEPT !.at = "items"] ELSE Answer(w)
      BY <2>2 DEF CountTotal, n
    <3> HIDE DEF w
    <3> QED BY <1>4, <3>3, <3>4, <3>5
  <2> QED BY <2>1, <2>2
<1>6. seen' \in [Rows -> 0..2]
  <2>1. CASE FindItems
    BY <1>1, <2>1, GotOK DEF FindItems
  <2>2. CASE CountTotal
    BY <1>1, <2>2 DEF CountTotal, history, TypeOK
  <2> QED BY <2>1, <2>2
<1> QED BY <1>1, <1>3, <1>5, <1>6 DEF WalkInv, TypeOK, Ahead, AuditWalk

\* A page of the audit log.
LEMMA FindManyInv == WalkInv /\ FindMany => WalkInv'
<1> SUFFICES ASSUME WalkInv, FindMany PROVE WalkInv'
  OBVIOUS
<1> DEFINE T == {r \in Stored : created[r] < walk.cursor}
<1>1. /\ TypeOK /\ walk.at = "cursor" /\ walk \in Walk
      /\ UNCHANGED <<created, removed, lasting, shrunk, early>>
  BY DEF WalkInv, FindMany, TypeOK
<1>2. PICK rows \in Pages(T, 0, walk.limit + 1, TRUE) :
        \E items \in Pages(rows, 0, walk.limit, TRUE) :
          /\ Got(items)
          /\ \/ items = rows /\ walk' = [walk EXCEPT !.at = "done"] /\ UNCHANGED cuts
             \/ /\ items # rows
                /\ \E c \in NextCursor(items, rows) : walk' = [walk EXCEPT !.cursor = c]
                /\ cuts' = cuts \cup OldestOf(items)
  BY DEF FindMany
<1>3. PICK items \in Pages(rows, 0, walk.limit, TRUE) :
        /\ Got(items)
        /\ \/ items = rows /\ walk' = [walk EXCEPT !.at = "done"] /\ UNCHANGED cuts
           \/ /\ items # rows
              /\ \E c \in NextCursor(items, rows) : walk' = [walk EXCEPT !.cursor = c]
              /\ cuts' = cuts \cup OldestOf(items)
  BY <1>2
<1>4. T \subseteq Rows /\ walk.limit \in Nat /\ walk.limit > 0 /\ walk.limit + 1 \in Nat
  BY <1>1 DEF Walk, Stored
<1>5. /\ rows \subseteq T /\ NewestFirst(rows, T \ rows)
      /\ Cardinality(T) \in Nat /\ IsFiniteSet(T)
      /\ Cardinality(rows) = AtMost(walk.limit + 1, Cardinality(T))
  BY <1>2, <1>4, FirstPage
<1>6. /\ items \subseteq rows /\ NewestFirst(items, rows \ items)
      /\ Cardinality(rows) \in Nat
      /\ Cardinality(items) = AtMost(walk.limit, Cardinality(rows))
  BY <1>3, <1>4, <1>5, FirstPage
<1>7. /\ seen' \in [Rows -> 0..2]
      /\ \A r \in Rows : r \notin items => seen'[r] = seen[r]
      /\ \A r \in Rows : r \in items /\ seen[r] = 0 => seen'[r] = 1
  BY <1>1, <1>3, GotOK
<1>8. CASE walk.listing # AuditLog
  <2>1. FALSE
    BY <1>1, <1>8 DEF WalkInv, Ahead
  <2> QED BY <2>1
<1>9. CASE walk.listing = AuditLog
  <2>1. \A r \in Rows : /\ created[r] \in Nat /\ walk.cursor \in Nat
                        /\ seen[r] <= 1 /\ seen[r] \in Nat
                        /\ created[r] < walk.cursor => seen[r] = 0
                        /\ r \in lasting => seen[r] = 1 \/ created[r] \in cuts
                                             \/ created[r] < walk.cursor
    BY <1>1, <1>9 DEF WalkInv, TypeOK, Walk, Ahead, AuditWalk
  <2>2. \A r \in items : r \in Rows /\ r \in T /\ created[r] < walk.cursor
    BY <1>4, <1>5, <1>6
  <2>3. \A r \in Rows : seen'[r] <= 1 /\ (r \in items => seen'[r] = 1)
    BY <1>7, <2>1, <2>2
  <2>4. lasting \subseteq Stored
    BY <1>1 DEF WalkInv, Ahead, TypeOK, Stored
  <2>5. CASE items = rows /\ walk' = [walk EXCEPT !.at = "done"] /\ UNCHANGED cuts
    <3>1. T = items
      <4>1. Cardinality(rows) = Cardinality(T)
        BY <1>4, <1>5, <1>6, <2>5 DEF AtMost
      <4> QED BY <1>5, <2>5, <4>1, FS_Subset
    <3>2. walk' \in Walk /\ walk'.at = "done" /\ walk'.listing = AuditLog
      BY <1>1, <1>9, <2>5 DEF Walk
    <3>3. TypeOK'
      BY <1>1, <1>7, <2>5, <3>2 DEF TypeOK, Times
    <3>4. \A r \in lasting : seen'[r] = 1 \/ created[r] \in cuts
      <4> SUFFICES ASSUME NEW r \in lasting PROVE seen'[r] = 1 \/ created[r] \in cuts
        OBVIOUS
      <4>1. r \in Rows /\ r \in Stored
        BY <2>4 DEF Stored
      <4>2. CASE created[r] < walk.cursor
        BY <2>3, <3>1, <4>1, <4>2
      <4>3. CASE ~(created[r] < walk.cursor)
        <5>1. r \notin items
          BY <2>2, <4>3
        <5> QED BY <1>7, <2>1, <4>1, <4>3, <5>1
      <4> QED BY <4>2, <4>3
    <3>5. AuditWalk'
      BY <1>1, <2>3, <2>5, <3>4 DEF AuditWalk
    <3>6. Ahead'
      BY <3>2 DEF Ahead
    <3> QED BY <3>3, <3>5, <3>6 DEF WalkInv
  <2>6. CASE /\ items # rows
             /\ \E c \in NextCursor(items, rows) : walk' = [walk EXCEPT !.cursor = c]
             /\ cuts' = cuts \cup OldestOf(items)
    <3>1. PICK c \in OldestOf(items) : walk' = [walk EXCEPT !.cursor = c]
      BY <2>6 DEF NextCursor
    <3>2. PICK o \in items : created[o] = c /\ \A p \in items : created[p] >= c
      BY <3>1 DEF OldestOf
    <3>3. o \in Rows /\ c \in Times /\ c < walk.cursor
      BY <1>1, <2>2, <3>2 DEF TypeOK, Times, Stored
    <3>4. OldestOf(items) \subseteq Times
      BY <1>1, <2>2 DEF OldestOf, TypeOK, Times, Stored
    <3>5. /\ walk' \in Walk /\ walk'.at = "cursor" /\ walk'.listing = AuditLog
          /\ walk'.cursor = c
      <4>1. c \in 1..(MaxTime + 1)
        BY <3>3 DEF Times
      <4> QED BY <1>1, <1>9, <3>1, <4>1 DEF Walk
    <3>6. TypeOK'
      BY <1>1, <1>7, <2>6, <3>4, <3>5 DEF TypeOK
    <3>7. ASSUME NEW r \in Rows, created[r] < c
          PROVE  seen'[r] = 0
      <4>1. r \notin items
        BY <2>1, <3>2, <3>3, <3>7 DEF Times
      <4>2. created[r] < walk.cursor
        BY <2>1, <3>3, <3>7 DEF Times
      <4> QED BY <1>7, <2>1, <4>1, <4>2
    <3>8. ASSUME NEW r \in lasting
          PROVE  seen'[r] = 1 \/ created[r] \in cuts' \/ created[r] < c
      <4>1. r \in Rows /\ r \in Stored
        BY <2>4 DEF Stored
      <4>2. CASE r \in items
        BY <2>3, <4>1, <4>2
      <4>3. CASE r \notin items /\ ~(created[r] < walk.cursor)
        BY <1>7, <2>1, <2>6, <4>1, <4>3
      <4>4. CASE r \notin items /\ created[r] < walk.cursor
        <5>1. r \in T
          BY <4>1, <4>4
        <5>2. created[o] >= created[r]
          <6>1. CASE r \in rows
            BY <1>6, <3>2, <4>4, <6>1 DEF NewestFirst
          <6>2. CASE r \notin rows
            BY <1>5, <1>6, <3>2, <5>1, <6>2 DEF NewestFirst
          <6> QED BY <6>1, <6>2
        <5>3. created[r] = c \/ created[r] < c
          BY <2>1, <3>2, <3>3, <4>1, <5>2 DEF Times
        <5> QED BY <2>6, <3>1, <5>3
      <4> QED BY <4>2, <4>3, <4>4
    <3>9. Ahead'
      <4>1. \A r \in lasting : created[r] # 0
        BY <2>4 DEF Stored
      <4> QED BY <1>1, <3>5, <3>7, <3>8, <4>1 DEF Ahead
    <3>10. AuditWalk'
      BY <2>3, <3>5 DEF AuditWalk
    <3> QED BY <3>6, <3>9, <3>10 DEF WalkInv
  <2> QED BY <1>3, <2>5, <2>6
<1> QED BY <1>8, <1>9

\* The other requests: a row that appears has not been shown, and the audit log
\* loses none.
LEMMA OthersInv ==
    ASSUME WalkInv, NEW r \in Rows, Appear(r) \/ Remove(r)
    PROVE  WalkInv'
<1>1. TypeOK /\ UNCHANGED <<walk, seen, cuts>>
  BY DEF WalkInv, Appear, Remove
<1>2. TypeOK'
  <2>1. CASE Appear(r)
    BY <1>1, <2>1 DEF Appear, TypeOK, Times, Underway
  <2>2. CASE Remove(r)
    BY <1>1, <2>2 DEF Remove, TypeOK, Stored
  <2> QED BY <2>1, <2>2
<1>3. CASE walk.listing # AuditLog
  <2>1. walk.at \notin {"idle", "cursor"}
    BY <1>3 DEF WalkInv, Ahead
  <2> QED BY <1>1, <1>2, <1>3, <2>1 DEF WalkInv, Ahead, AuditWalk
<1>4. CASE walk.listing = AuditLog
  <2>1. Appear(r) /\ lasting' = lasting
    BY <1>4 DEF Remove, AuditLog, Appear
  <2>2. walk.at = "cursor"
    BY <1>4, <2>1 DEF WalkInv, Ahead, Appear, Underway
  <2>3. \A q \in Rows : created[q] # 0 => created'[q] = created[q]
    BY <1>1, <2>1 DEF Appear, TypeOK
  <2>4. created'[r] = created[r] \/ created[r] = 0
    BY <2>1 DEF Appear
  <2>5. \A q \in Rows : q # r => created'[q] = created[q]
    BY <1>1, <2>1 DEF Appear, TypeOK
  <2>6. seen[r] = 0 \/ created[r] # 0
    BY <1>1, <2>2 DEF WalkInv, Ahead, TypeOK, Walk
  <2>7. \A q \in Rows : created'[q] < walk.cursor => seen[q] = 0
    BY <2>2, <2>4, <2>5, <2>6 DEF WalkInv, Ahead
  <2>8. \A q \in lasting : q \in Rows /\ created[q] # 0 /\ created'[q] = created[q]
    BY <1>1, <2>2, <2>3 DEF WalkInv, Ahead, TypeOK
  <2>9. Ahead'
    BY <1>1, <1>4, <2>1, <2>2, <2>7, <2>8 DEF WalkInv, Ahead
  <2>10. AuditWalk'
    BY <1>1, <1>4, <2>2 DEF WalkInv, AuditWalk
  <2> QED BY <1>2, <2>9, <2>10 DEF WalkInv
<1> QED BY <1>3, <1>4

LEMMA WalkStep == WalkInv /\ [Next]_vars => WalkInv'
<1> SUFFICES ASSUME WalkInv, [Next]_vars PROVE WalkInv'
  OBVIOUS
<1>1. CASE Done \/ UNCHANGED vars
  BY <1>1 DEF Done, vars, history, WalkInv, TypeOK, Ahead, AuditWalk
<1> QED BY <1>1, BeginInv, PageInv, FindManyInv, OthersInv DEF Next

-----------------------------------------------------------------------------
(* The walk by page number.                                                *)

\* A row that shares its time with no other, and is not on a page, belongs to an
\* earlier or a later one.
LEMMA PageOf ==
    ASSUME created \in [Rows -> Nat], NEW T \in SUBSET Rows,
           NEW skip \in Nat, NEW take \in Nat, NEW S \in Pages(T, skip, take, TRUE),
           NEW r \in T, r \notin S, \A q \in T \ {r} : created[q] # created[r],
           NEW N, N = {q \in T : created[q] > created[r]}
    PROVE  Cardinality(N) < skip \/ Cardinality(N) >= skip + take
<1>1. IsFiniteSet(T) /\ IsFiniteSet(N)
  BY FS_Subset
<1>2. PICK B \in SUBSET (T \ S) :
        /\ Cardinality(B) = AtMost(skip, Cardinality(T))
        /\ Cardinality(S) = AtMost(take, Cardinality(T) - Cardinality(B))
        /\ NewestFirst(B, T \ B) /\ NewestFirst(S, T \ (B \cup S))
  BY DEF Pages
<1>3. S \subseteq T /\ B \subseteq T /\ B \cap S = {}
  BY <1>2 DEF Pages
<1>4. IsFiniteSet(B) /\ IsFiniteSet(S)
  BY <1>1, <1>3, FS_Subset
<1>5. /\ Cardinality(T) \in Nat /\ Cardinality(N) \in Nat
      /\ Cardinality(B) \in Nat /\ Cardinality(S) \in Nat
  BY <1>1, <1>4, FS_CardinalityType
<1>6. CASE r \in B
  <2>1. N \subseteq B
    <3>1. ASSUME NEW q \in N, q \notin B PROVE FALSE
      <4>1. q \in T \ B /\ created[q] > created[r] /\ q \in Rows /\ r \in Rows
        BY <3>1
      <4>2. created[r] >= created[q]
        BY <1>2, <1>6, <4>1 DEF NewestFirst
      <4>3. created[q] \in Nat /\ created[r] \in Nat
        BY <4>1
      <4> QED BY <4>1, <4>2, <4>3
    <3> QED BY <3>1
  <2>2. N \cup {r} \subseteq B /\ r \notin N
    BY <1>6, <2>1
  <2>3. Cardinality(N \cup {r}) = Cardinality(N) + 1
    BY <1>1, <2>2, FS_AddElement
  <2>4. Cardinality(N \cup {r}) <= Cardinality(B)
    BY <1>4, <2>2, FS_Subset
  <2>5. Cardinality(B) <= skip
    BY <1>2, <1>5 DEF AtMost
  <2> QED BY <1>5, <2>3, <2>4, <2>5
<1>7. CASE r \notin B
  <2>1. B \cup S \subseteq N
    <3>1. ASSUME NEW q \in B \cup S PROVE created[q] >= created[r]
      BY <1>2, <1>7, <3>1 DEF NewestFirst
    <3>2. ASSUME NEW q \in B \cup S PROVE q \in N
      <4>1. q \in T \ {r} /\ q \in Rows /\ r \in Rows
        BY <1>3, <1>7, <3>2
      <4>2. created[q] # created[r] /\ created[q] >= created[r]
        BY <3>1, <3>2, <4>1
      <4>3. created[q] \in Nat /\ created[r] \in Nat
        BY <4>1
      <4> QED BY <4>1, <4>2, <4>3
    <3> QED BY <3>2
  <2>2. Cardinality(B \cup S) = Cardinality(B) + Cardinality(S)
    <3>1. Cardinality(B \cap S) = 0
      BY <1>3, FS_EmptySet
    <3>2. Cardinality(B \cup S) = Cardinality(B) + Cardinality(S) - Cardinality(B \cap S)
      BY <1>4, FS_Union
    <3> QED BY <1>5, <3>1, <3>2
  <2>3. Cardinality(B \cup S) <= Cardinality(N)
    BY <1>1, <2>1, FS_Subset
  <2>4. Cardinality(B) = skip
    <3>1. Cardinality(B) # Cardinality(T)
      BY <1>1, <1>3, <1>7, FS_Subset
    <3> QED BY <1>2, <3>1 DEF AtMost
  <2>5. Cardinality(S) = take
    <3>1. r \in N \/ r \notin B \cup S
      BY <1>7
    <3>2. (B \cup S) \subseteq T /\ B \cup S # T
      BY <1>3, <1>7
    <3>3. Cardinality(B \cup S) # Cardinality(T)
      BY <1>1, <3>2, FS_Subset
    <3>4. Cardinality(S) # Cardinality(T) - Cardinality(B)
      BY <1>5, <2>2, <3>3
    <3> QED BY <1>2, <3>4 DEF AtMost
  <2> QED BY <1>5, <2>2, <2>3, <2>4, <2>5
<1> QED BY <1>6, <1>7

\* The pages up to the last one hold every row that was counted.
LEMMA LastPage ==
    ASSUME NEW total \in Nat, NEW limit \in Nat \ {0}, NEW page \in Nat \ {0},
           ~(page < TotalPages(total, limit))
    PROVE  total <= page * limit
<1> DEFINE d == (total + limit - 1) \div limit
           m == (total + limit - 1) % limit
<1>1. d \in Int /\ m \in 0..(limit - 1) /\ total + limit - 1 = limit * d + m
  OBVIOUS
<1>2. d <= page
  BY <1>1 DEF TotalPages
<1> HIDE DEF d, m
<1>3. limit * d <= limit * page
  BY <1>1, <1>2
<1>4. total <= limit * d
  BY <1>1
<1> QED BY <1>1, <1>3, <1>4

\* A stored row stays with its time, and what has been shown stays shown.
LEMMA Monotone ==
    ASSUME TypeOK, [Next]_vars
    PROVE  /\ \A o \in Stored : o \in Stored' /\ created'[o] = created[o]
           /\ \A o \in Rows : seen[o] >= 1 => seen'[o] >= 1
<1>1. CASE Begin \/ CountTotal \/ Done \/ UNCHANGED vars
  BY <1>1 DEF Begin, CountTotal, Done, vars, history, Stored
<1>2. CASE FindItems \/ FindMany
  <2>1. PICK S : Got(S)
    BY <1>2 DEF FindItems, FindMany
  <2>2. \A o \in Rows : seen[o] >= 1 => seen'[o] >= 1
    BY <2>1 DEF Got, AtMost, TypeOK
  <2> QED BY <1>2, <2>2 DEF FindItems, FindMany, Stored
<1>3. ASSUME NEW r \in Rows, Appear(r) \/ Remove(r)
      PROVE  /\ \A o \in Stored : o \in Stored' /\ created'[o] = created[o]
             /\ seen' = seen
  BY <1>3 DEF Appear, Remove, Stored, TypeOK, Times
<1> QED BY <1>1, <1>2, <1>3 DEF Next

\* A removal is not forgotten.
LEMMA ShrunkStays == shrunk /\ [Next]_vars => shrunk'
<1> SUFFICES ASSUME shrunk, [Next]_vars PROVE shrunk'
  OBVIOUS
<1>1. shrunk' = shrunk \/ shrunk' = TRUE
  BY DEF Next, Begin, FindItems, CountTotal, FindMany, Appear, Remove, Done, vars, history
<1> QED BY <1>1, Zenon

\* The time of a new cut is that of an item.
LEMMA CutsStep ==
    ASSUME TypeOK, CutsShown, [Next]_vars
    PROVE  CutsShown'
<1> SUFFICES ASSUME NEW c \in cuts'
             PROVE  \E o \in Stored' : created'[o] = c /\ seen'[o] >= 1
  BY DEF CutsShown
<1>1. CASE c \in cuts
  <2>1. PICK o \in Stored : created[o] = c /\ seen[o] >= 1
    BY <1>1 DEF CutsShown
  <2>2. o \in Rows
    BY DEF Stored
  <2> QED BY <2>1, <2>2, Monotone
<1>2. CASE c \notin cuts
  <2>1. FindMany
    BY <1>2 DEF Next, Begin, FindItems, CountTotal, Appear, Remove, Done, vars, history
  <2>2. PICK rows \in Pages({r \in Stored : created[r] < walk.cursor}, 0, walk.limit + 1, TRUE) :
          \E items \in Pages(rows, 0, walk.limit, TRUE) :
            Got(items) /\ (UNCHANGED cuts \/ cuts' = cuts \cup OldestOf(items))
    BY <2>1 DEF FindMany
  <2>3. PICK items \in Pages(rows, 0, walk.limit, TRUE) :
          Got(items) /\ (UNCHANGED cuts \/ cuts' = cuts \cup OldestOf(items))
    BY <2>2
  <2>4. c \in OldestOf(items)
    BY <1>2, <2>3
  <2>5. PICK o \in items : created[o] = c
    BY <2>4 DEF OldestOf
  <2>6. o \in Stored /\ o \in Rows
    BY <2>2, <2>5 DEF Pages, Stored
  <2>7. seen'[o] >= 1
    BY <2>3, <2>5, <2>6 DEF Got, AtMost, TypeOK
  <2> QED BY <2>5, <2>6, <2>7, Monotone
<1> QED BY <1>1, <1>2

\* Rows are removed in removals only.
LEMMA UnremovedStep ==
    ASSUME TypeOK, Unremoved, [Next]_vars
    PROVE  Unremoved'
<1>1. CASE Begin
  BY <1>1 DEF Begin, Unremoved, Stored, Shown
<1>2. CASE FindItems \/ CountTotal \/ FindMany \/ Done \/ UNCHANGED vars
  BY <1>2 DEF FindItems, CountTotal, FindMany, Done, vars, history, Unremoved, Stored
<1>3. ASSUME NEW r \in Rows, Appear(r) \/ Remove(r) PROVE Unremoved'
  <2>1. Stored \subseteq Stored'
    BY <1>3, Monotone
  <2> QED BY <1>3, <2>1 DEF Appear, Remove, Unremoved
<1> QED BY <1>1, <1>2, <1>3 DEF Next

\* What a walk by page number has got of the first n rows: all that have been shown
\* throughout and share their time with none.
SeenFirst(n) == \A r \in lasting \ Tied(Stored) : Cardinality(Newer(r)) < n => seen[r] >= 1

\* A row that appears pushes others back.
LEMMA SeenFirstStays ==
    ASSUME TypeOK, TypeOK', Unremoved, [Next]_vars, lasting' \subseteq lasting,
           NEW n \in Nat, SeenFirst(n)
    PROVE  SeenFirst(n)'
<1> SUFFICES ASSUME NEW r \in lasting', r \notin Tied(Stored)', Cardinality(Newer(r)') < n
             PROVE  seen'[r] >= 1
  BY DEF SeenFirst
<1>1. r \in lasting /\ r \in Stored /\ r \in Rows
  BY DEF Unremoved, Stored
<1>2. r \notin Tied(Stored)
  BY <1>1, Monotone DEF Tied
<1>3. Newer(r) \subseteq Newer(r)'
  BY <1>1, Monotone DEF Newer
<1>4. IsFiniteSet(Newer(r)')
  BY FS_Subset DEF Newer, Stored
<1>5. Cardinality(Newer(r)) < n
  <2>1. /\ Cardinality(Newer(r)) <= Cardinality(Newer(r)')
        /\ IsFiniteSet(Newer(r))
    BY <1>3, <1>4, FS_Subset
  <2>2. Cardinality(Newer(r)) \in Nat /\ Cardinality(Newer(r)') \in Nat
    BY <1>4, <2>1, FS_CardinalityType
  <2> QED BY <2>1, <2>2
<1>6. seen[r] >= 1
  BY <1>1, <1>2, <1>5 DEF SeenFirst
<1> QED BY <1>1, <1>6, Monotone

\* The items of a page add the rows of the page.
LEMMA ItemsSeen ==
    ASSUME TypeOK, TypeOK', Unremoved, FindItems, walk.listing.ordered, ~shrunk,
           SeenFirst((walk.page - 1) * walk.limit),
           NEW n \in Nat, n = walk.page * walk.limit
    PROVE  SeenFirst(n)'
<1>1. /\ UNCHANGED <<created, removed, lasting>> /\ removed = {}
      /\ walk.page \in Nat \ {0} /\ walk.limit \in Nat \ {0}
  BY DEF FindItems, Unremoved, TypeOK, Walk
<1> DEFINE skip == (walk.page - 1) * walk.limit
<1>2. /\ skip \in Nat /\ walk.limit \in Nat
      /\ skip + walk.limit = n
  BY <1>1
<1> HIDE DEF skip
<1>3. Shown(walk.listing) = Stored
  BY <1>1 DEF Shown
<1>4. PICK S \in Pages(Stored, skip, walk.limit, TRUE) : Got(S)
  BY <1>3 DEF FindItems, skip
<1> SUFFICES ASSUME NEW r \in lasting, r \notin Tied(Stored),
                    Cardinality(Newer(r)) < n
             PROVE  seen'[r] >= 1
  <2>1. /\ Tied(Stored)' = Tied(Stored) /\ lasting' = lasting
        /\ \A r \in Rows : Newer(r)' = Newer(r)
    BY <1>1 DEF Tied, Newer, Stored
  <2>2. lasting \subseteq Rows
    BY DEF TypeOK
  <2> QED BY <2>1, <2>2 DEF SeenFirst
<1>5. r \in Stored /\ r \in Rows /\ Stored \subseteq Rows
  BY DEF Unremoved, Stored
<1>6. CASE r \in S
  BY <1>4, <1>5, <1>6 DEF Got, AtMost, TypeOK
<1>7. CASE r \notin S
  <2>1. \A q \in Stored \ {r} : created[q] # created[r]
    BY <1>5 DEF Tied
  <2>2. created \in [Rows -> Nat]
    BY DEF TypeOK
  <2>3. Cardinality(Newer(r)) < skip \/ Cardinality(Newer(r)) >= skip + walk.limit
    <3>1. Newer(r) = {q \in Stored : created[q] > created[r]} /\ Stored \in SUBSET Rows
      BY <1>5 DEF Newer
    <3> QED BY <1>2, <1>4, <1>5, <1>7, <2>1, <2>2, <3>1, PageOf
  <2>4. Cardinality(Newer(r)) \in Nat
    BY FS_Subset, FS_CardinalityType DEF Newer, Stored
  <2>5. Cardinality(Newer(r)) < skip
    BY <1>2, <2>3, <2>4
  <2>6. seen[r] >= 1
    BY <2>5 DEF SeenFirst, skip
  <2> QED BY <1>4, <1>5, <2>6 DEF Got, AtMost, TypeOK
<1> QED BY <1>6, <1>7

\* The first rows, as many as there are, are all rows.
LEMMA AllSeen ==
    ASSUME TypeOK', Unremoved', removed' = {}, NEW n \in Nat, SeenFirst(n)',
           Cardinality(Stored') <= n
    PROVE  ListingComplete'
<1> SUFFICES ASSUME NEW r \in lasting', r \notin Tied(Stored)' PROVE seen'[r] >= 1
  BY DEF ListingComplete, Shown, Tied, Stored
<1>1. r \in Stored' /\ Newer(r)' \subseteq Stored' /\ r \notin Newer(r)'
  <2>1. r \in Stored' /\ r \in Rows
    BY DEF Unremoved, Stored
  <2>2. created'[r] \in Int
    BY <2>1 DEF TypeOK
  <2> QED BY <2>1, <2>2 DEF Newer
<1>2. IsFiniteSet(Stored') /\ IsFiniteSet(Newer(r)')
  BY <1>1, FS_Subset DEF Stored
<1>3. /\ Cardinality(Newer(r)') <= Cardinality(Stored')
      /\ Cardinality(Newer(r)') # Cardinality(Stored')
  BY <1>1, <1>2, FS_Subset
<1>4. Cardinality(Newer(r)') \in Nat /\ Cardinality(Stored') \in Nat
  BY <1>2, FS_CardinalityType
<1>5. Cardinality(Newer(r)') < n
  BY <1>3, <1>4
<1> QED BY <1>5 DEF SeenFirst

\* Where the client goes after the answer to page walk.page.
LEMMA AfterAnswer ==
    ASSUME NEW w \in Walk
    PROVE  LET v == Answer(w) IN
           /\ v \in Walk /\ v.listing = w.listing /\ v.limit = w.limit
           /\ \/ v.at = "page" /\ v.page = w.page + 1
              \/ v.at = "done" /\ ~(w.page < TotalPages(w.total, w.limit))
<1>1. CASE w.page < TotalPages(w.total, w.limit)
  <2>1. w.page + 1 \in Nat \ {0}
    BY DEF Walk
  <2>2. Answer(w) = [w EXCEPT !.at = "page", !.page = w.page + 1, !.total = 0]
    BY <1>1 DEF Answer
  <2> DEFINE v == [w EXCEPT !.at = "page", !.page = w.page + 1, !.total = 0]
  <2>3. /\ v \in Walk /\ v.listing = w.listing /\ v.limit = w.limit
        /\ v.at = "page" /\ v.page = w.page + 1
    BY <2>1 DEF Walk
  <2> QED BY <2>2, <2>3
<1>2. CASE ~(w.page < TotalPages(w.total, w.limit))
  <2>1. Answer(w) = [w EXCEPT !.at = "done"]
    BY <1>2 DEF Answer
  <2> DEFINE v == [w EXCEPT !.at = "done"]
  <2>2. /\ v \in Walk /\ v.listing = w.listing /\ v.limit = w.limit
        /\ v.at = "done"
    BY DEF Walk
  <2> QED BY <1>2, <2>1, <2>2
<1> QED BY <1>1, <1>2

\* After the items and the number of rows of a page are known, the first pages have
\* been seen, and if the walk is over, all.
LEMMA PageAnswered ==
    ASSUME TypeOK', Unremoved', NEW w \in Walk, walk' = Answer(w), w.listing.ordered,
           NEW n \in Nat, n = w.page * w.limit,
           ~shrunk' => SeenFirst(n)',
           ~shrunk' /\ ~early' => w.total = Cardinality(Stored')
    PROVE  PagesAhead' /\ ListingComplete'
<1>1. /\ walk' \in Walk /\ walk'.listing = w.listing /\ walk'.limit = w.limit
      /\ \/ walk'.at = "page" /\ walk'.page = w.page + 1
         \/ walk'.at = "done" /\ ~(w.page < TotalPages(w.total, w.limit))
  BY AfterAnswer
<1>2. w.page \in Nat \ {0} /\ w.limit \in Nat \ {0} /\ w.total \in Nat
  BY DEF Walk
<1>3. CASE walk'.at = "page" /\ walk'.page = w.page + 1
  <2>1. PagesRead' = w.page
    BY <1>2, <1>3 DEF PagesRead
  <2> QED BY <1>1, <1>3, <2>1 DEF PagesAhead, ListingComplete, SeenFirst
<1>4. CASE walk'.at = "done" /\ ~(w.page < TotalPages(w.total, w.limit))
  <2>1. PagesAhead'
    BY <1>4 DEF PagesAhead
  <2>2. CASE shrunk' \/ early'
    BY <2>1, <2>2 DEF ListingComplete
  <2>3. CASE ~shrunk' /\ ~early'
    <3>1. Cardinality(Stored') <= n
      BY <1>2, <1>4, <2>3, LastPage
    <3>2. removed' = {} /\ SeenFirst(n)'
      BY <2>3 DEF Unremoved
    <3> QED BY <2>1, <3>1, <3>2, AllSeen
  <2> QED BY <2>1, <2>2, <2>3
<1> QED BY <1>1, <1>3, <1>4

\* A client that walks an unordered list, or one from which rows are removed, is
\* promised nothing.
LEMMA Unpromised ==
    ASSUME walk'.at # "idle", ~walk'.listing.ordered \/ shrunk'
    PROVE  PagesAhead' /\ ListingComplete'
BY DEF PagesAhead, ListingComplete

\* A step keeps what the numbered pages promise.
LEMMA PagesStep ==
    ASSUME TypeOK, TypeOK', Ahead, AuditWalk', CutsShown', Unremoved, Unremoved',
           PagesAhead, ListingComplete, [Next]_vars
    PROVE  PagesAhead' /\ ListingComplete'
<1>1. walk \in Walk /\ walk' \in Walk
  BY DEF TypeOK
<1>2. ~shrunk' => ~shrunk
  BY ShrunkStays
<1>3. CASE Begin
  <2>1. PICK limit \in Limits :
          \/ walk' = [walk EXCEPT !.at = "cursor", !.limit = limit]
          \/ \E l \in Listings :
               walk' = [walk EXCEPT !.at = "page", !.limit = limit, !.listing = l]
    BY <1>3 DEF Begin
  <2>2. walk'.at \in {"cursor", "page"} /\ walk'.page = 1
    BY <1>1, <1>3, <2>1 DEF Begin, PagesAhead, Walk
  <2>3. PagesRead' * walk'.limit = 0
    BY <1>1, <2>2 DEF PagesRead, Walk
  <2>4. \A r \in lasting' : Cardinality(Newer(r)') \in Nat
    BY FS_Subset, FS_CardinalityType DEF Newer, Stored
  <2> QED BY <2>2, <2>3, <2>4 DEF PagesAhead, ListingComplete
<1>4. CASE FindItems
  <2>1. /\ walk.at \in {"page", "items"} /\ UNCHANGED <<created, removed, lasting, shrunk, early>>
        /\ walk' = IF walk.at = "page" THEN [walk EXCEPT !.at = "count"] ELSE Answer(walk)
    BY <1>4 DEF FindItems
  <2>2. CASE walk.listing.ordered /\ ~shrunk
    <3>1. PICK n \in Nat : n = walk.page * walk.limit
      BY <1>1 DEF Walk
    <3>2. SeenFirst((walk.page - 1) * walk.limit)
      BY <2>1, <2>2 DEF PagesAhead, PagesRead, SeenFirst
    <3>3. SeenFirst(n)'
      BY <1>4, <2>2, <3>1, <3>2, ItemsSeen
    <3>4. CASE walk.at = "page"
      <4>1. walk'.at = "count" /\ walk'.page = walk.page /\ walk'.limit = walk.limit
        BY <1>1, <2>1, <3>4 DEF Walk
      <4>2. PagesRead' * walk'.limit = n
        BY <3>1, <4>1 DEF PagesRead
      <4> QED BY <3>3, <4>1, <4>2 DEF PagesAhead, ListingComplete, SeenFirst
    <3>5. CASE walk.at = "items"
      <4>1. ~early => walk.total = Cardinality(Stored)
        BY <2>2, <3>5 DEF PagesAhead
      <4>2. ~shrunk' /\ ~early' => walk.total = Cardinality(Stored')
        BY <2>1, <4>1 DEF Stored
      <4>3. walk' = Answer(walk)
        BY <2>1, <3>5
      <4> QED BY <1>1, <2>2, <3>1, <3>3, <4>2, <4>3, PageAnswered
    <3> QED BY <2>1, <3>4, <3>5
  <2>3. CASE ~walk.listing.ordered \/ shrunk
    <3>1. walk'.at # "idle" /\ walk'.listing = walk.listing
      BY <1>1, <2>1, AfterAnswer DEF Walk
    <3> QED BY <2>1, <2>3, <3>1, Unpromised
  <2> QED BY <2>2, <2>3
<1>5. CASE CountTotal
  <2> DEFINE w == [walk EXCEPT !.total = Cardinality(Shown(walk.listing))]
  <2>1. /\ walk.at \in {"page", "count"} /\ UNCHANGED <<created, removed, history>>
        /\ walk' = IF walk.at = "page" THEN [w EXCEPT !.at = "items"] ELSE Answer(w)
    BY <1>5 DEF CountTotal
  <2>2. /\ w \in Walk /\ w.page = walk.page /\ w.limit = walk.limit
        /\ w.listing = walk.listing /\ w.total = Cardinality(Shown(walk.listing))
    <3>1. IsFiniteSet(Shown(walk.listing))
      BY FS_Subset DEF Shown, Stored
    <3>2. Cardinality(Shown(walk.listing)) \in Nat
      BY <3>1, FS_CardinalityType
    <3> QED BY <1>1, <3>2 DEF Walk
  <2> HIDE DEF w
  <2>3. CASE walk.listing.ordered /\ ~shrunk
    <3>1. PICK n \in Nat : n = PagesRead * walk.limit
      BY <1>1 DEF Walk, PagesRead
    <3>2. SeenFirst(n)
      BY <2>1, <2>3, <3>1 DEF PagesAhead, SeenFirst
    <3>3. SeenFirst(n)'
      BY <2>1, <3>2, SeenFirstStays DEF history
    <3>4. w.total = Cardinality(Stored')
      <4>1. Shown(walk.listing) = Stored /\ Stored' = Stored
        BY <2>1, <2>3 DEF Shown, Unremoved, Stored
      <4> QED BY <2>2, <4>1
    <3>5. CASE walk.at = "page"
      <4>1. /\ walk'.at = "items" /\ walk'.page = walk.page /\ walk'.limit = walk.limit
            /\ walk'.total = w.total
        BY <2>1, <2>2, <3>5 DEF Walk
      <4>2. PagesRead' * walk'.limit = n
        BY <3>1, <3>5, <4>1 DEF PagesRead
      <4> QED BY <3>3, <3>4, <4>1, <4>2 DEF PagesAhead, ListingComplete, SeenFirst
    <3>6. CASE walk.at = "count"
      <4>1. walk' = Answer(w) /\ n = w.page * w.limit
        BY <2>1, <2>2, <3>1, <3>6 DEF PagesRead
      <4> QED BY <2>2, <2>3, <3>3, <3>4, <4>1, PageAnswered
    <3> QED BY <2>1, <3>5, <3>6
  <2>4. CASE ~walk.listing.ordered \/ shrunk
    <3>1. walk'.at # "idle" /\ walk'.listing = walk.listing
      BY <2>1, <2>2, AfterAnswer DEF Walk
    <3> QED BY <2>1, <2>4, <3>1, Unpromised DEF history
  <2> QED BY <2>3, <2>4
<1>6. CASE FindMany
  <2>1. /\ walk.at = "cursor" /\ walk.listing = AuditLog
        /\ walk'.at \in {"cursor", "done"} /\ walk'.listing = AuditLog
    <3>1. walk.at = "cursor" /\ walk.listing = AuditLog
      BY <1>6 DEF FindMany, Ahead
    <3>2. walk' = [walk EXCEPT !.at = "done"] \/ \E c : walk' = [walk EXCEPT !.cursor = c]
      BY <1>6 DEF FindMany
    <3> QED BY <1>1, <3>1, <3>2 DEF Walk
  <2>2. PagesAhead'
    BY <2>1 DEF PagesAhead
  <2>3. ASSUME walk'.at = "done", NEW r \in lasting', r \notin Tied(Stored)'
        PROVE  seen'[r] >= 1
    <3>1. seen'[r] = 1 \/ created'[r] \in cuts'
      BY <2>1, <2>3 DEF AuditWalk
    <3>2. ASSUME created'[r] \in cuts' PROVE seen'[r] >= 1
      <4>1. PICK o \in Stored' : created'[o] = created'[r] /\ seen'[o] >= 1
        BY <3>2 DEF CutsShown
      <4>2. r \in Stored'
        BY DEF Unremoved
      <4>3. o = r
        BY <2>3, <4>1, <4>2 DEF Tied
      <4> QED BY <4>1, <4>3
    <3> QED BY <3>1, <3>2
  <2>4. Shown(walk.listing)' = Stored'
    BY <2>1 DEF Shown, AuditLog, Stored
  <2>5. ListingComplete'
    BY <2>3, <2>4 DEF ListingComplete, Tied
  <2> QED BY <2>2, <2>5
<1>7. ASSUME NEW r \in Rows, Appear(r) PROVE PagesAhead' /\ ListingComplete'
  <2>1. /\ walk.at \in {"page", "items", "count", "cursor"}
        /\ UNCHANGED <<walk, lasting, shrunk>> /\ early' = (early \/ walk.at = "items")
    BY <1>7 DEF Appear, Underway
  <2>2. CASE walk.listing.ordered /\ ~shrunk /\ walk.at # "cursor"
    <3>1. PICK n \in Nat : n = PagesRead * walk.limit
      BY <1>1 DEF Walk, PagesRead
    <3>2. SeenFirst(n)
      BY <2>1, <2>2, <3>1 DEF PagesAhead, SeenFirst
    <3>3. SeenFirst(n)'
      BY <2>1, <3>2, SeenFirstStays
    <3>4. PagesRead' * walk'.limit = n
      BY <2>1, <3>1 DEF PagesRead
    <3> QED BY <2>1, <3>3, <3>4 DEF PagesAhead, ListingComplete, SeenFirst
  <2>3. CASE ~walk.listing.ordered \/ shrunk \/ walk.at = "cursor"
    BY <2>1, <2>3 DEF PagesAhead, ListingComplete
  <2> QED BY <2>2, <2>3
<1>8. ASSUME NEW r \in Rows, Remove(r) PROVE PagesAhead' /\ ListingComplete'
  BY <1>8, Unpromised DEF Remove, Underway
<1>9. CASE Done \/ UNCHANGED vars
  BY <1>9 DEF Done, vars, history, PagesAhead, ListingComplete, PagesRead, Newer, Tied,
     Stored, Shown
<1> QED BY <1>3, <1>4, <1>5, <1>6, <1>7, <1>8, <1>9 DEF Next

-----------------------------------------------------------------------------
(* The theorems.                                                           *)

\* At the beginning nothing is shown, removed or cut.
LEMMA IInvInit == Init => IInv
<1> SUFFICES ASSUME Init PROVE IInv
  OBVIOUS
<1>1. WalkInv
  BY WalkInit
<1>2. CutsShown /\ Unremoved /\ PagesAhead /\ ListingComplete
  BY DEF Init, CutsShown, Unremoved, PagesAhead, ListingComplete
<1> QED BY <1>1, <1>2 DEF IInv, WalkInv

\* A step preserves the strengthening.
LEMMA IInvStep == IInv /\ [Next]_vars => IInv'
<1> SUFFICES ASSUME IInv, [Next]_vars PROVE IInv'
  OBVIOUS
<1>1. TypeOK' /\ Ahead' /\ AuditWalk'
  BY WalkStep DEF IInv, WalkInv
<1>2. CutsShown' /\ Unremoved'
  BY CutsStep, UnremovedStep DEF IInv
<1>3. PagesAhead' /\ ListingComplete'
  BY <1>1, <1>2, PagesStep DEF IInv
<1> QED BY <1>1, <1>2, <1>3 DEF IInv

\* IInv holds in every state, for any table, times and limit.
THEOREM Inductive == Spec => []IInv
BY IInvInit, IInvStep, PTL DEF Spec

\* The walk through the audit log shows no row twice, and misses one that was there at
\* the beginning only if it has the time of a cut.
THEOREM AuditIsWalked == Spec => []AuditWalk
<1>1. IInv => AuditWalk
  BY DEF IInv
<1> QED BY <1>1, Inductive, PTL

\* A walk by page number through an ordered list sees every row that was shown
\* throughout, but for removals, rows between count and items, and equal times.
THEOREM ListingsAreComplete == Spec => []ListingComplete
<1>1. IInv => ListingComplete
  BY DEF IInv
<1> QED BY <1>1, Inductive, PTL
=============================================================================
