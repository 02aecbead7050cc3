------------------------------ MODULE Listings ------------------------------
(***************************************************************************)
(* A client that reads a table page by page while others change it: the    *)
(* audit log by a cursor (AuditLogController, PrismaAuditLogRepository),   *)
(* everything else by page number (PaginationDto, PaginatedResponseDto).   *)
(*                                                                         *)
(* A table is a set of rows with the times of their creation.  Of a page   *)
(* only the set of its rows matters.  Rows that a query orders alike, or   *)
(* that it does not order, come in any order, another one every time.      *)
(***************************************************************************)
EXTENDS Integers, FiniteSets

CONSTANTS
    Rows,
    MaxTime,    \* bound on the times of creation
    MaxLimit    \* MAX_LIMIT, @Max of PaginationDto

ASSUME ListingsAssumption ==
    IsFiniteSet(Rows) /\ MaxTime \in Nat \ {0} /\ MaxLimit \in Nat \ {0}

VARIABLES
    created,    \* createdAt of each row, 0 if there is none
    removed,    \* rows that are soft-deleted
    walk,       \* what the client asks for next
    \* history
    seen,       \* how often the client has got a row, at most twice counted
    lasting,    \* rows that the listing has shown since the walk began
    shrunk,     \* a row that was shown has been removed since
    early,      \* a row has appeared after the count and before the items
    cuts        \* times of the last rows of the pages

history == <<seen, lasting, shrunk, early, cuts>>
vars == <<created, removed, walk, history>>

Times == 1..MaxTime

\* Is the query ordered, does it hide removed rows, may it count first?
FindAllEmpresas == [ordered |-> TRUE, hides |-> TRUE, countsFirst |-> TRUE]
FindAllUsuarios(all) == [ordered |-> TRUE, hides |-> ~all, countsFirst |-> TRUE]
FindAllPerfis == [ordered |-> FALSE, hides |-> TRUE, countsFirst |-> FALSE]
FindAllPermissoes == [ordered |-> FALSE, hides |-> TRUE, countsFirst |-> FALSE]
FindPerfisByNome == [ordered |-> FALSE, hides |-> TRUE, countsFirst |-> FALSE]
FindPermissoesByNome == [ordered |-> FALSE, hides |-> TRUE, countsFirst |-> FALSE]

\* Memberships are never removed.
FindUsersByCompany == [ordered |-> FALSE, hides |-> FALSE, countsFirst |-> TRUE]
FindCompaniesByUser == [ordered |-> FALSE, hides |-> FALSE, countsFirst |-> TRUE]

\* Neither are the rows of the audit log, of which nothing is counted.
AuditLog == [ordered |-> TRUE, hides |-> FALSE, countsFirst |-> FALSE]

Listings == {FindAllEmpresas, FindAllUsuarios(TRUE), FindAllUsuarios(FALSE),
             FindAllPerfis, FindAllPermissoes, FindPerfisByNome, FindPermissoesByNome,
             FindUsersByCompany, FindCompaniesByUser}

Walk == [at : {"idle", "page", "items", "count", "cursor", "done"},
         listing : Listings \cup {AuditLog}, limit : 1..MaxLimit,
         page : Nat \ {0}, total : Nat, cursor : 1..(MaxTime + 1)]

TypeOK ==
    /\ created \in [Rows -> 0..MaxTime]
    /\ removed \subseteq Rows
    /\ walk \in Walk
    /\ seen \in [Rows -> 0..2]
    /\ lasting \subseteq Rows
    /\ shrunk \in BOOLEAN /\ early \in BOOLEAN
    /\ cuts \subseteq Times

Init ==
    /\ created \in [Rows -> 0..MaxTime]
    /\ removed = {}
    /\ walk = [at |-> "idle", listing |-> AuditLog, limit |-> 1,
               page |-> 1, total |-> 0, cursor |-> MaxTime + 1]
    /\ seen = [r \in Rows |-> 0]
    /\ lasting = {} /\ shrunk = FALSE /\ early = FALSE /\ cuts = {}

Stored == {r \in Rows : created[r] # 0}

\* The rows that the listing shows.
Shown(listing) == IF listing.hides THEN Stored \ removed ELSE Stored

AtMost(m, n) == IF m <= n THEN m ELSE n

NewestFirst(X, Y) == \A x \in X, y \in Y : created[x] >= created[y]

\* skip, take and orderBy on the rows of T.
Pages(T, skip, take, ordered) ==
    {S \in SUBSET T : \E B \in SUBSET (T \ S) :
        /\ Cardinality(B) = AtMost(skip, Cardinality(T))
        /\ Cardinality(S) = AtMost(take, Cardinality(T) - Cardinality(B))
        /\ ordered => NewestFirst(B, T \ B) /\ NewestFirst(S, T \ (B \cup S))}

Got(S) == seen' = [r \in Rows |-> IF r \in S THEN AtMost(seen[r] + 1, 2) ELSE seen[r]]

\* ClassValidator refuses a limit above MAX_LIMIT; the audit log takes MAX_LIMIT.
Limits == {AtMost(asked, MaxLimit) : asked \in 1..(MaxLimit + 1)}
-----------------------------------------------------------------------------
(* The client.                                                             *)

Begin ==
    /\ walk.at = "idle"
    /\ \E limit \in Limits :
         \/ walk' = [walk EXCEPT !.at = "cursor", !.limit = limit] /\ lasting' = Stored
         \/ \E l \in Listings :
              /\ walk' = [walk EXCEPT !.at = "page", !.limit = limit, !.listing = l]
              /\ lasting' = Shown(l)
    /\ UNCHANGED <<created, removed, seen, shrunk, early, cuts>>

\* Fault: the last page is lost when it is not full.
FullPages(total, limit) == total \div limit

TotalPages(total, limit) == (total + limit - 1) \div limit

\* The answer is complete: the client goes on to the next page, if there is one.
Answer(w) ==
    IF w.page < TotalPages(w.total, w.limit)
    THEN [w EXCEPT !.at = "page", !.page = @ + 1, !.total = 0]
    ELSE [w EXCEPT !.at = "done"]

\* findMany, before or after count.
FindItems ==
    /\ walk.at \in {"page", "items"}
    /\ \E S \in Pages(Shown(walk.listing), (walk.page - 1) * walk.limit, walk.limit,
                      walk.listing.ordered) : Got(S)
    /\ walk' = IF walk.at = "page" THEN [walk EXCEPT !.at = "count"] ELSE Answer(walk)
    /\ UNCHANGED <<created, removed, lasting, shrunk, early, cuts>>

CountTotal ==
    /\ \/ walk.at = "page" /\ walk.listing.countsFirst
       \/ walk.at = "count"
    /\ LET w == [walk EXCEPT !.total = Cardinality(Shown(walk.listing))] IN
       walk' = IF walk.at = "page" THEN [w EXCEPT !.at = "items"] ELSE Answer(w)
    /\ UNCHANGED <<created, removed, history>>

\* The time of the oldest row of S, in a set.
OldestOf(S) == {created[r] : r \in {q \in S : \A p \in S : created[p] >= created[q]}}

\* Fault: the cursor is taken from the row that shows that there is more.
CursorBeyond(items, rows) == OldestOf(rows)

\* createdAt of the last item.
NextCursor(items, rows) == OldestOf(items)

\* findMany of the audit log: one row more than the page tells if there is a next.
FindMany ==
    /\ walk.at = "cursor"
    /\ \E rows \in Pages({r \in Stored : created[r] < walk.cursor}, 0, walk.limit + 1, TRUE) :
         \E items \in Pages(rows, 0, walk.limit, TRUE) :
           /\ Got(items)
           /\ \/ items = rows /\ walk' = [walk EXCEPT !.at = "done"] /\ UNCHANGED cuts
              \/ /\ items # rows
                 /\ \E c \in NextCursor(items, rows) : walk' = [walk EXCEPT !.cursor = c]
                 /\ cuts' = cuts \cup OldestOf(items)
    /\ UNCHANGED <<created, removed, lasting, shrunk, early>>
-----------------------------------------------------------------------------
(* The other requests.                                                     *)

Underway == walk.at \in {"page", "items", "count", "cursor"}

\* A row that the listing did not show: a new one, whose time may be that of rows
\* there are or an earlier one (the INSERT that commits last), or a restored one.
Appear(r) ==
    /\ Underway
    /\ \/ /\ created[r] = 0
          /\ \E t \in Times : created' = [created EXCEPT ![r] = t]
          /\ UNCHANGED removed
       \/ r \in removed /\ removed' = removed \ {r} /\ UNCHANGED created
    /\ early' = (early \/ walk.at = "items")
    /\ UNCHANGED <<walk, seen, lasting, shrunk, cuts>>

\* A removal that the listing shows.
Remove(r) ==
    /\ Underway /\ walk.listing.hides
    /\ r \in Stored \ removed
    /\ removed' = removed \cup {r}
    /\ lasting' = lasting \ {r} /\ shrunk' = TRUE
    /\ UNCHANGED <<created, walk, seen, early, cuts>>

Done == walk.at = "done" /\ UNCHANGED vars

Next ==
    \/ Begin \/ FindItems \/ CountTotal \/ FindMany
    \/ \E r \in Rows : Appear(r) \/ Remove(r)
    \/ Done

Spec == Init /\ [][Next]_vars
-----------------------------------------------------------------------------
(* Properties.                                                             *)

\* Rows that another one has the time of.
Tied(T) == {r \in T : \E q \in T \ {r} : created[q] = created[r]}

\* The cursor "nunca devolve o mesmo item em duas páginas", whatever is inserted; and
\* a row that was there at the beginning is missing at the end only if it has the time
\* of a row that was the last of its page.
AuditWalk == walk.listing = AuditLog =>
    /\ \A r \in Rows : seen[r] <= 1
    /\ walk.at = "done" => \A r \in lasting : seen[r] = 1 \/ created[r] \in cuts

\* By page number, newest first: a row that was shown all the time is missing at the
\* end only if another was removed meanwhile, or appeared between the count that ended
\* the walk and the items, or was created at the same time.
ListingComplete ==
    walk.at = "done" /\ walk.listing.ordered /\ ~shrunk /\ ~early
      => \A r \in lasting \ Tied(Shown(walk.listing)) : seen[r] >= 1

(* The inductive invariant: the audit log, then the numbered pages.        *)

\* Rows behind the cursor have not been shown, and a row that was there at the
\* beginning and has not been shown is behind the cursor or has the time of a cut.
Ahead ==
    /\ walk.at \in {"idle", "cursor"} => walk.listing = AuditLog
    /\ walk.listing = AuditLog => walk.at \in {"idle", "cursor", "done"}
    /\ walk.at = "idle" => walk.cursor = MaxTime + 1 /\ \A r \in Rows : seen[r] = 0
    /\ walk.at = "cursor" =>
         /\ \A r \in Rows : created[r] < walk.cursor => seen[r] = 0
         /\ \A r \in lasting :
              created[r] # 0 /\ (seen[r] = 1 \/ created[r] \in cuts \/ created[r] < walk.cursor)

\* The time of a cut is that of a row which has been shown.
CutsShown == \A c \in cuts : \E o \in Stored : created[o] = c /\ seen[o] >= 1

\* Without a removal every stored row is shown.
Unremoved == (~shrunk => removed = {}) /\ lasting \subseteq Stored

\* The rows that an ordered listing puts before r.
Newer(r) == {q \in Stored : created[q] > created[r]}

\* The pages whose items have been read.
PagesRead == IF walk.at = "count" THEN walk.page ELSE walk.page - 1

\* A row that was shown throughout and would be on a page that has been read has been
\* seen: rows that appear only push it back.  What has been counted before the items
\* are read is the number of rows.
PagesAhead ==
    /\ walk.at = "idle" => walk.page = 1
    /\ walk.listing.ordered /\ ~shrunk =>
         /\ walk.at = "items" /\ ~early => walk.total = Cardinality(Stored)
         /\ walk.at \in {"page", "items", "count"} =>
              \A r \in lasting \ Tied(Stored) :
                Cardinality(Newer(r)) < PagesRead * walk.limit => seen[r] >= 1

IInv == /\ TypeOK /\ Ahead /\ AuditWalk
        /\ CutsShown /\ Unremoved /\ PagesAhead /\ ListingComplete
=============================================================================
