----------------------------- MODULE RecordPages -----------------------------
(***************************************************************************)
(* The panel's lists of users, tiers, keys, invite codes and usage records *)
(* (store/pagination.go and the List*Page queries, panel/pagination.go):   *)
(* a page is the rows behind a cursor in the order of time and id, one row *)
(* more is fetched to know whether there is a next page, and the cursor of *)
(* the next page is the last row shown.  Rows come and go between pages.   *)
(*                                                                         *)
(* The database keeps times to the second, so many rows share one.  Ids    *)
(* are never used again (they are random, or AUTOINCREMENT), but a row may *)
(* be inserted with a time that is already past: usage records are queued. *)
(***************************************************************************)
EXTENDS Naturals, Sequences, FiniteSets, SequencesExt

CONSTANTS
    Ids,               \* row ids, in the order of the id column
    Seconds,           \* values of the time column
    Subsecond,         \* instants in a second
    PageLimits         \* values of the limit parameter, after its checks

ASSUME PagesConstants ==
    /\ Ids \subseteq Nat /\ Seconds \subseteq Nat
    /\ Subsecond \in Nat \ {0} /\ PageLimits \subseteq Nat \ {0}

VARIABLES
    direction,         \* timeIDAscending or timeIDDescending
    rows,              \* the table: rows of the list
    usedIds,           \* the ids given out so far
    reader             \* the browser: what it was shown, its cursor, what it has missed

pagesVars == <<direction, rows, usedIds, reader>>

Row == [at : Seconds, id : Ids]
NoCursor == {}

\* history: steady holds the rows that were there all the time since the first page.
Reading(shown, cursor, steady, ended) ==
    [shown |-> shown, cursor |-> cursor, steady |-> steady, ended |-> ended]

PagesInit ==
    /\ direction \in {"ascending", "descending"}
    /\ rows = {}
    /\ usedIds = {}
    /\ reader = Reading(<<>>, NoCursor, {}, TRUE)

-----------------------------------------------------------------------------
\* Mutant: only the times are compared.
Behind_TimeOnly(r, s) == IF direction = "ascending" THEN r.at > s.at ELSE r.at < s.at

\* timeIDCursorPredicate: r comes after s.
Behind(r, s) ==
    IF direction = "ascending" THEN r.at > s.at \/ (r.at = s.at /\ r.id > s.id)
    ELSE r.at < s.at \/ (r.at = s.at /\ r.id < s.id)

\* formatTime: an instant is kept to the second.
FormatTime(instant) == instant \div Subsecond

\* The ORDER BY of the queries.
Precedes(r, s) ==
    IF direction = "ascending" THEN r.at < s.at \/ (r.at = s.at /\ r.id < s.id)
    ELSE r.at > s.at \/ (r.at = s.at /\ r.id > s.id)

\* The k-th row has k - 1 rows before it.
InOrder(S) ==
    [k \in 1 .. Cardinality(S) |-> CHOOSE r \in S : Cardinality({s \in S : Precedes(s, r)}) = k - 1]

\* WHERE, ORDER BY and LIMIT of a List*Page query.
Fetched(cursor, limit) ==
    LET behind == InOrder({r \in rows : \A c \in cursor : Behind(r, c)})
    IN  SubSeq(behind, 1, IF Len(behind) < limit + 1 THEN Len(behind) ELSE limit + 1)

\* finalizeTimeIDPage: the surplus row only says that there is more.
FinalizePage(fetched, limit) ==
    IF Len(fetched) <= limit THEN [items |-> fetched, hasMore |-> FALSE, next |-> NoCursor]
    ELSE LET items == SubSeq(fetched, 1, limit)
         IN [items |-> items, hasMore |-> TRUE, next |-> {items[limit]}]

\* A list handler answers with the page behind the cursor of the last one; a browser
\* that has reached the end starts again.
NextPage(limit) ==
    LET first == reader.ended
        page == FinalizePage(Fetched(IF first THEN NoCursor ELSE reader.cursor, limit), limit)
    IN  /\ reader' = Reading((IF first THEN <<>> ELSE reader.shown) \o page.items, page.next,
                             IF first THEN rows ELSE reader.steady, ~page.hasMore)
        /\ UNCHANGED <<direction, rows, usedIds>>

\* A row is created; its time may be that of an earlier moment.
InsertRow(id, instant) ==
    /\ id \notin usedIds
    /\ rows' = rows \cup {[at |-> FormatTime(instant), id |-> id]}
    /\ usedIds' = usedIds \cup {id}
    /\ UNCHANGED <<direction, reader>>

\* A row is deleted, compacted, or no longer within the period the list is about.
DeleteRow(row) ==
    /\ rows' = rows \ {row}
    /\ reader' = [reader EXCEPT !.steady = @ \ {row}]
    /\ UNCHANGED <<direction, usedIds>>

Instants == {s * Subsecond + k : s \in Seconds, k \in 0 .. Subsecond - 1}

PagesNext ==
    \/ \E limit \in PageLimits : NextPage(limit)
    \/ \E id \in Ids, instant \in Instants : InsertRow(id, instant)
    \/ \E row \in rows : DeleteRow(row)

PagesSpec == PagesInit /\ [][PagesNext]_pagesVars

-----------------------------------------------------------------------------
\* Leafing through a list while rows are inserted, deleted and share their second, the
\* row of the cursor included, shows no row twice and all in order; a row that was
\* there all the time is shown by the time its place was passed, and every one when
\* the list says it has ended.
PagesInv ==
    /\ rows \subseteq Row
    /\ \A i, j \in DOMAIN reader.shown : i < j => Precedes(reader.shown[i], reader.shown[j])
    /\ \A r \in reader.steady :
         reader.ended \/ (\E c \in reader.cursor : ~Precedes(c, r)) => r \in ToSet(reader.shown)
=============================================================================
