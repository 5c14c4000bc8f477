----------------------------- MODULE QueryPages -----------------------------
(***************************************************************************)
(* A caller reads the entries of a stored capture page by page, and its    *)
(* statistics, while the capture may still grow: Store.Entries             *)
(* (internal/core/store.go), newMatcher, match, QueryEntries and Analyze   *)
(* (internal/core/query.go).  Nothing is kept between two calls: a page is *)
(* computed from the rows of its moment and the offset the caller brings.  *)
(*                                                                         *)
(* Rows are listed by their sequence number, those of one number in the    *)
(* order they were stored.  A row is known by its place in this order.     *)
(* Substring conditions on the host, the path, headers and types all work  *)
(* alike: an entry has a set of texts, a query the texts it wants.         *)
(***************************************************************************)
EXTENDS Integers, Sequences, SequencesExt, FiniteSets, FiniteSetsExt

CONSTANTS Entries,     \* what an entry can be
          Queries,     \* what a caller can ask for
          Limits,      \* the page sizes it uses
          MaxRows,     \* bound: places for rows
          MaxNow       \* bound: the clock, in seconds

(* query.go:15-37: a query has all its fields, those not asked for at their zero. *)
QueryFields == {"texts", "hasError", "statuses", "classes", "minPriority", "preset", "since",
                "minSize", "maxSize", "body"}

ConstantsOK ==
  /\ MaxRows \in Nat /\ MaxNow \in Nat /\ Limits \subseteq Nat \ {0}
  /\ \A q \in Queries : DOMAIN q = QueryFields

VARIABLES rows,      \* the entries of the capture, by place
          now,       \* the clock
          query,     \* the query of this caller
          pages,     \* the places of the entries its pages showed
          offset,    \* next_offset of the last page; Done when it had none
          known,     \* history: the places that matched when the first page was read
          dropped,   \* history: one that matched has ceased to since then
          stats      \* the last statistics; Nothing before
vars == <<rows, now, query, pages, offset, known, dropped, stats>>

Done == -1
Nothing == [matched |-> -1]

----------------------------------------------------------------------------
HasError(e) == e.status >= 400 \/ e.error
StatusError(e) == e.status >= 400

\* query.go:46, 62-66
Valid(q) == q.maxSize > 0 => q.maxSize >= q.minSize

\* query.go:118-131
Preset(e, preset) ==
  CASE preset = "errors_only" -> HasError(e)
    [] preset = "api_focus" -> e.class = "api" \/ HasError(e)
    [] preset = "page_bootstrap" -> e.class \in {"api", "document", "script", "stylesheet"}
    [] OTHER -> TRUE

MatchStatus(e, q, at) ==
  /\ q.texts \subseteq e.texts
  /\ q.hasError \in {"any", IF StatusError(e) THEN "yes" ELSE "no"}
  /\ q.statuses # {} => e.status \in q.statuses
  /\ q.classes # {} => e.class \in q.classes
  /\ e.priority >= q.minPriority
  /\ Preset(e, q.preset)
  /\ q.since > 0 => e.start >= at - q.since
  /\ e.size >= q.minSize /\ (q.maxSize > 0 => e.size <= q.maxSize)
  /\ q.body => e.decodes

(* A condition on the body needs a body that decodes (query.go:145-171). *)
Match(e, q, at) ==
  /\ q.texts \subseteq e.texts
  /\ q.hasError \in {"any", IF HasError(e) THEN "yes" ELSE "no"}
  /\ q.statuses # {} => e.status \in q.statuses
  /\ q.classes # {} => e.class \in q.classes
  /\ e.priority >= q.minPriority
  /\ Preset(e, q.preset)
  /\ q.since > 0 => e.start >= at - q.since
  /\ e.size >= q.minSize /\ (q.maxSize > 0 => e.size <= q.maxSize)
  /\ q.body => e.decodes

(* The places of the rows a query finds. *)
Found(q) == {n \in DOMAIN rows : Match(rows[n], q, now)}

(* In the order of the rows: each has those before it in front of it. *)
Sorted(places) ==
  [k \in 1..Cardinality(places) |-> CHOOSE n \in places : Cardinality({m \in places : m < n}) = k - 1]

Matching(q) == Sorted(Found(q))

PageSkipsOne(q, limit, from) ==
  LET found == Matching(q)
      shown == SubSeq(found, from + 1, IF from + limit < Len(found) THEN from + limit ELSE Len(found))
  IN  [entries |-> shown, matched |-> Len(found),
       next |-> IF from + Len(shown) + 1 < Len(found) THEN from + Len(shown) + 1 ELSE Done]

PageOneShort(q, limit, from) ==
  LET found == Matching(q)
      shown == SubSeq(found, from + 1, IF from + limit < Len(found) THEN from + limit ELSE Len(found))
  IN  [entries |-> shown, matched |-> Len(found),
       next |-> IF from + Len(shown) + 1 < Len(found) THEN from + Len(shown) ELSE Done]

\* query.go:187-208
Page(q, limit, from) ==
  LET found == Matching(q)
      shown == SubSeq(found, from + 1, IF from + limit < Len(found) THEN from + limit ELSE Len(found))
  IN  [entries |-> shown, matched |-> Len(found),
       next |-> IF from + Len(shown) < Len(found) THEN from + Len(shown) ELSE Done]

Key(e, groupBy) == IF groupBy = "status" THEN e.status ELSE e.class

(* One turn of the loop of Analyze for every entry that matches (query.go:252-297). *)
Analysis(q, groupBy) ==
  LET found == Found(q)
      count == Cardinality(found)
      durations == SetToSortSeq(found, LAMBDA m, n : rows[m].duration < rows[n].duration
                                                   \/ (rows[m].duration = rows[n].duration /\ m < n))
      keys == {Key(rows[n], groupBy) : n \in found}
  IN [matched |-> count,
      errors |-> Cardinality({n \in found : HasError(rows[n])}),
      bytes |-> MapThenSumSet(LAMBDA n : rows[n].size, found),
      groups |-> [k \in keys |-> Cardinality({n \in found : Key(rows[n], groupBy) = k})],
      average |-> IF count = 0 THEN 0 ELSE MapThenSumSet(LAMBDA n : rows[n].duration, found) \div count,
      p95 |-> IF count = 0 THEN 0 ELSE rows[durations[1 + ((count - 1) * 95) \div 100]].duration]

----------------------------------------------------------------------------
Init ==
  /\ \E places \in SUBSET (1..MaxRows) : rows \in [places -> Entries]
  /\ now = 0
  /\ query \in {q \in Queries : Valid(q)}
  /\ pages = <<>> /\ offset = 0 /\ known = {} /\ dropped = FALSE /\ stats = Nothing

(* The next page: the caller passes next_offset on. *)
Ask(limit) ==
  /\ offset # Done
  /\ LET page == Page(query, limit, offset) IN
       pages' = pages \o page.entries /\ offset' = page.next
  /\ known' = IF offset = 0 THEN Found(query) ELSE known
  /\ dropped' = (dropped /\ offset # 0)
  /\ UNCHANGED <<rows, now, query, stats>>

Analyze(groupBy) ==
  /\ stats' = Analysis(query, groupBy)
  /\ UNCHANGED <<rows, now, query, pages, offset, known, dropped>>

(* What was found may change, and statistics with it. *)
Moves ==
  /\ UNCHANGED <<query, pages, offset, known>>
  /\ dropped' = (dropped \/ ~ Found(query) \subseteq Found(query)')
  /\ stats' = Nothing

(* A live session stores a new entry, whose sequence number may be one that
   an earlier entry has, or a smaller one (live.go:117). *)
Grow ==
  /\ \E n \in (1..MaxRows) \ DOMAIN rows, e \in Entries :
       rows' = [m \in DOMAIN rows \cup {n} |-> IF m = n THEN e ELSE rows[m]]
  /\ UNCHANGED now /\ Moves

(* The response of a request that waited for it arrives (live.go:133-141). *)
Update ==
  /\ \E n \in DOMAIN rows, e \in Entries :
       /\ rows[n].status = 0 /\ e.status # 0 /\ e.start = rows[n].start /\ e.texts = rows[n].texts
       /\ rows' = [rows EXCEPT ![n] = e]
  /\ UNCHANGED now /\ Moves

Tick == now < MaxNow /\ now' = now + 1 /\ UNCHANGED rows /\ Moves

Next == (\E l \in Limits : Ask(l)) \/ (\E g \in {"status", "class"} : Analyze(g)) \/ Grow \/ Update \/ Tick
Spec == Init /\ [][Next]_vars

----------------------------------------------------------------------------
(* A caller that goes on to the last page with next_offset has seen every
   entry that matched when it read the first, wherever the capture grows in
   between and whatever the page sizes are, unless an entry has ceased to
   match (query.go:193-206): a response that says otherwise, or the clock of a
   query that looks at it.  An offset is no cursor: an entry may come twice. *)
PagesAreWhole == offset = Done /\ ~ dropped => known \subseteq Range(pages)

(* A caller that saw no entry twice has seen all that match by its last page,
   those stored while it read included; unless, again, one has ceased to. *)
LastPageStep ==
  offset # Done /\ offset' = Done /\ ~ dropped' /\ IsInjective(pages') => Range(pages') = Found(query)
LastPageIsLast == [][LastPageStep]_vars

(* Inductive, and implies the two properties above: what is found in front of
   the offset has been shown, if it was there at the first page. *)
InFront(n) == Cardinality({m \in Found(query) : m < n})

PagesOK ==
  /\ DOMAIN rows \subseteq 1..MaxRows /\ query \in Queries /\ dropped \in BOOLEAN
  /\ pages \in Seq(Nat) /\ (offset = Done \/ offset \in Nat)
  /\ offset # Done => Len(pages) = offset
  /\ offset # 0 /\ ~ dropped =>
       /\ known \cup Range(pages) \subseteq Found(query)
       /\ offset # Done => offset <= Cardinality(Found(query))
       /\ \A n \in known : offset = Done \/ InFront(n) < offset => n \in Range(pages)

(* The statistics of a query count what its pages list: as many errors as the
   same query asking for errors finds, and each entry in one group
   (query.go:105-106, 252-280). *)
StatsAgree ==
  stats # Nothing =>
    LET errors == [query EXCEPT !.hasError = "yes"] IN
    /\ stats.matched = Page(query, 1, 0).matched
    /\ query.hasError = "any" => stats.errors = Page(errors, 1, 0).matched
    /\ MapThenSumSet(LAMBDA k : stats.groups[k], DOMAIN stats.groups) = stats.matched

=============================================================================
