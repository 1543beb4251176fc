----------------------------- MODULE PersonalLists -----------------------------
(* The lists the gateway makes for one user out of the library upstream, which *)
(* it can only see page by page, and the user's own rows: resume, next-up,     *)
(* latest, and items by what the user did with them.  Each page is a request   *)
(* of its own, between which the library may change.  With them, the cache of  *)
(* child counts, which a page that is not the whole must never enter.          *)
EXTENDS Integers, FiniteSets, Sequences, SequencesExt, FiniteSetsExt, TLC

CONSTANTS
  Items,          \* a set of numbers; a smaller one was used more recently
  SeriesOf,       \* the series of an item, or Nothing
  IndexOf,        \* <<season, episode>>, or Nothing
  SortKey,        \* what SortBy orders by, for each item
  Libraries,      \* libraries to begin with
  Flags,          \* what the user did: functions from Items to sets of flags
  Requests,
  IdBatch, ScanBatch, ScanLimit, LatestCap, LatestDefault, SeriesMargin, MaxChanges,
  Nothing

VARIABLES
  library,    \* the items upstream, in the order of its lists
  did,        \* per item, what its row says: a subset of RowFlags; {} is no row
  counts,     \* item_child_counts: what is known of the size of each series
  job,        \* the request in progress
  changes,
  largest     \* auxiliary: the sizes each series has had

vars == <<library, did, counts, job, changes, largest>>

AllSeries == {SeriesOf[i] : i \in Items} \ {Nothing}
NoJob == [at |-> "none"]

\* A bare row has none of the metadata, so that nobody knows its series.
RowFlags == {"played", "favorite", "resumable", "orphan", "bare"}

Episodes(s, lib) == SelectSeq(lib, LAMBDA i : SeriesOf[i] = s)

Init ==
  /\ library \in Libraries /\ did \in Flags
  /\ counts = [s \in AllSeries |-> 0]
  /\ job = NoJob /\ changes = 0
  /\ largest = [s \in AllSeries |-> {Len(Episodes(s, library))}]

-----------------------------------------------------------------------------
(* Pure parts *)

\* parsePersonalQuery: what must hold of an item and what must not.  A filter
\* is a flag and whether it is wanted ("IsUnplayed" is <<"played", FALSE>>).
Wanted(filters) == {f[1] : f \in {g \in filters : g[2]}}
Unwanted(filters) == {f[1] : f \in {g \in filters : ~g[2]}}

\* ListPlaybackStates without orphans; of next-up it is the rows it has in hand.
KnownIn(rows, i) == rows[i] # {} /\ "orphan" \notin rows[i]
Known(i) == KnownIn(did, i)

\* matchesState
Matches(i, filters) ==
  Known(i) /\ Wanted(filters) \subseteq did[i] /\ Unwanted(filters) \cap did[i] = {}

\* matchesKnownStateStructure: a row without metadata may be of any series.
MayBeOf(i, series) == series = Nothing \/ "bare" \in did[i] \/ SeriesOf[i] = series
IsOf(i, series) == series = Nothing \/ SeriesOf[i] = series

\* excludeSetForNegativeQuery
Excluded(filters, series) ==
  {i \in Items : Known(i) /\ MayBeOf(i, series) /\ Unwanted(filters) \cap did[i] # {}}

\* estimateNegativeTotal counts only the rows whose series is known.
NegativeTotal(total, r) ==
  LET out == {i \in Excluded(r.filters, r.series) :
                r.series = Nothing \/ ("bare" \notin did[i] /\ SeriesOf[i] = r.series)}
      n == total - Cardinality(out) IN
  IF n < 0 THEN 0 ELSE n

\* pageItems, pageResolvedPersonalItems
Paged(items, start, limit) ==
  LET from == IF start < 0 THEN 0 ELSE start IN
  IF from >= Len(items) THEN <<>>
  ELSE IF limit <= 0 \/ from + limit > Len(items) THEN SubSeq(items, from + 1, Len(items))
  ELSE SubSeq(items, from + 1, from + limit)

\* What the upstream answers for StartIndex and Limit.
Page(lib, start, limit) ==
  SubSeq(lib, start + 1, IF start + limit > Len(lib) THEN Len(lib) ELSE start + limit)

Recent(items) == SetToSortSeq(items, LAMBDA a, b : a < b)

\* groupResumeItems: of a series only the first.
Grouped(items) ==
  SelectSeq(items, LAMBDA i :
    \/ SeriesOf[i] = Nothing
    \/ \A j \in ToSet(items) : SeriesOf[j] = SeriesOf[i] => j >= i)

\* indexAfter, and episodeOrderLess on two places of a list: episodes with a
\* full index come first and in order, the others stay as they were.
After(a, b) == a[1] > b[1] \/ (a[1] = b[1] /\ a[2] > b[2])
OrderLess(a, b) ==
  \/ IndexOf[a] # Nothing /\ IndexOf[b] = Nothing
  \/ IndexOf[a] # Nothing /\ IndexOf[b] # Nothing /\ After(IndexOf[b], IndexOf[a])
Ordered(items) ==
  LET place(p, q) == \/ OrderLess(items[p], items[q])
                     \/ ~OrderLess(items[q], items[p]) /\ p < q
      order == SetToSortSeq(DOMAIN items, place) IN
  [n \in DOMAIN items |-> items[order[n]]]

Active(rows, i) == KnownIn(rows, i) /\ rows[i] \cap {"played", "resumable"} # {}

\* recentlyActiveSeries: the series of all rows, the most recent first.
RecentSeries(rows) ==
  LET known == {i \in Items : SeriesOf[i] # Nothing /\ KnownIn(rows, i) /\ "bare" \notin rows[i]}
      first == {i \in known : \A j \in known : SeriesOf[j] = SeriesOf[i] => j >= i} IN
  [n \in 1..Cardinality(first) |-> SeriesOf[Recent(first)[n]]]

\* lastWatchedEpisodeIndexFromItems
LastWatched(episodes, rows) ==
  LET watched == {j \in ToSet(episodes) : Active(rows, j) /\ IndexOf[j] # Nothing}
      seen == {IndexOf[i] : i \in watched} IN
  IF seen = {} THEN Nothing ELSE CHOOSE a \in seen : \A b \in seen \ {a} : After(a, b)

\* episodeAfter, and the loop of writeNextUpItems that takes the first.
NextEpisode(episodes, rows) ==
  LET last == LastWatched(episodes, rows)
      fit(i) == /\ ~KnownIn(rows, i) \/ "played" \notin rows[i]
                /\ last = Nothing \/ (IndexOf[i] # Nothing /\ After(IndexOf[i], last)) IN
  SelectSeq(Ordered(episodes), fit)

\* seriesHasEligibleNextUpActivity
Eligible(s, rows) == \E i \in Items : SeriesOf[i] = s /\ Active(rows, i) /\ "bare" \notin rows[i]

\* newestIncompleteActiveItemIDs
Incomplete(rows) == Page(Recent({i \in Items : Active(rows, i) /\ "bare" \in rows[i]}), 0, IdBatch)

\* applyResolvedItemsToStates: the rows of what the library returned are whole
\* and no orphans; those of what it is known not to have are orphans.
Applied_Faulty(rows, there, gone) == rows
Applied(rows, there, gone) ==
  [i \in Items |-> IF rows[i] # {} /\ i \in there THEN rows[i] \ {"orphan", "bare"}
                   ELSE IF i \in gone THEN rows[i] \cup {"orphan"} ELSE rows[i]]

\* sortResolvedPersonalItems, with stateRecency where the key is the same
Sorted(items, order) ==
  LET before(a, b) == CASE order = "up" -> SortKey[a] < SortKey[b]
                        [] order = "down" -> SortKey[a] > SortKey[b]
                        [] OTHER -> FALSE IN
  IF order = "none" THEN items
  ELSE SetToSortSeq(ToSet(items),
                    LAMBDA a, b : before(a, b) \/ (~before(b, a) /\ a < b))

\* learnChildCountsFromItems: a page may carry the sizes of some series.
Learned(series) ==
  [s \in AllSeries |-> IF s \in series /\ Episodes(s, library) # <<>>
                       THEN Len(Episodes(s, library)) ELSE counts[s]]

\* fetchItemChildCount: the answer to a request for no items at all has either
\* the total or nothing to go by.
FetchedCount_Faulty(total, page) == IF total > 0 THEN total ELSE Len(page)
FetchedCount(total, page) == IF total > 0 THEN total ELSE 0

-----------------------------------------------------------------------------
(* Requests *)

Running(kind) == job.at = "run" /\ job.req.kind = kind

\* Informed: the rows could be read, and the upstream said how many items it has.
Done(items, status, total, informed) ==
  job' = [at |-> "done", req |-> job.req, items |-> items, status |-> status,
          begun |-> job.begun, total |-> total, informed |-> informed]
Finish(items, status, total) == Done(items, status, total, TRUE)

\* The request reads the rows and prepares what it will ask for.  Latest goes on
\* without them when they cannot be read.
Begin(r, read) ==
  LET common == [at |-> "run", req |-> r, begun |-> [lib |-> library, did |-> did],
                 items |-> <<>>, start |-> 0] IN
  /\ job = NoJob /\ (read \/ r.kind = "latest")
  /\ \/ /\ r.kind = "positive"
        /\ job' = common @@ [ids |-> Recent({i \in Items : Matches(i, r.filters)
                                                          /\ MayBeOf(i, r.series)})]
     \/ /\ r.kind = "resume"
        /\ job' = common @@ [ids |-> Recent({i \in Items : "resumable" \in did[i]})]
     \/ /\ r.kind = "negative"
        /\ job' = common @@ [exclude |-> Excluded(r.filters, r.series), skipped |-> 0,
                             scanned |-> 0, total |-> -1]
     \/ /\ r.kind = "latest"
        /\ job' = common @@ [limit |-> LET l == IF r.limit <= 0 THEN LatestDefault ELSE r.limit IN
                                       IF l > LatestCap THEN LatestCap ELSE l,
                             ask |-> 0, informed |-> read]
     \/ /\ r.kind = "nextup"
        /\ job' = common @@ [series |-> IF r.series # Nothing THEN <<r.series>> ELSE Nothing,
                             rows |-> did, all |-> <<>>, total |-> -1]
     \/ /\ r.kind = "series"
        /\ job' = common
  /\ UNCHANGED <<library, did, counts, changes, largest>>

\* resolveItemsByID and resolvePersonalItemsByID, one batch: what the library
\* does not return is an orphan from now on; of what it returns, the list takes
\* what its own query wants.
ResolveBatch(kind) ==
  LET batch == Page(job.ids, job.start, IdBatch)
      there == ToSet(library)
      wanted == {i \in there : IsOf(i, job.req.series)} IN
  /\ Running(kind) /\ job.start < Len(job.ids)
  /\ did' = [i \in Items |-> IF i \notin ToSet(batch) \/ i \in there \ wanted THEN did[i]
                             ELSE IF i \in wanted THEN did[i] \ {"orphan", "bare"}
                             ELSE did[i] \cup {"orphan"}]
  /\ job' = [job EXCEPT !.items = @ \o SelectSeq(batch, LAMBDA i : i \in wanted),
                        !.start = @ + IdBatch]
  /\ IF kind = "resume" THEN counts' = counts
     ELSE \E series \in SUBSET AllSeries : counts' = Learned(series)
  /\ UNCHANGED <<library, changes, largest>>

\* A batch that fails is left out by resume, and ends a list by filter.
BatchFails(kind) ==
  /\ Running(kind) /\ job.start < Len(job.ids)
  /\ IF kind = "resume" THEN job' = [job EXCEPT !.start = @ + IdBatch]
     ELSE Finish(<<>>, "failed", 0)
  /\ UNCHANGED <<library, did, counts, changes, largest>>

\* All are resolved.  What the gateway cannot judge of the query it asks about
\* the resolved items once more (filterResolvedPersonalItemsWithBackend); then
\* it sorts, and cuts out the page.
Resolved(kind) ==
  LET r == job.req
      items == IF kind = "resume" THEN Grouped(job.items)
               ELSE Sorted(SelectSeq(job.items, LAMBDA i :
                             r.only = Nothing \/ (i \in r.only /\ i \in ToSet(library))),
                           r.sort) IN
  /\ Running(kind) /\ job.start >= Len(job.ids)
  /\ \/ Finish(Paged(items, r.start, r.limit), "ok", Len(items))
     \/ r.only # Nothing /\ job.items # <<>> /\ Finish(<<>>, "failed", 0)
  /\ UNCHANGED <<library, did, counts, changes, largest>>

\* writeNegativePersonalItems: one batch of the scan, item by item.  Whoever
\* asks without a limit gets what the scan reaches.  The first page that carries a
\* total is believed; when none does, the total is what is shown.
Limit == IF job.req.limit <= 0 THEN ScanLimit ELSE job.req.limit
BatchLimit ==
  IF job.req.limit <= 0 \/ 3 * job.req.limit < ScanBatch THEN ScanBatch ELSE 3 * job.req.limit

\* The start of the next batch in the library: one counts what the upstream
\* returned, not what was kept of it.
NextStart_Faulty(batch) == job.start + Len(SelectSeq(batch, LAMBDA i : i \notin job.exclude))
NextStart(batch) == job.start + Len(batch)

Scan(known) ==
  LET r == job.req
      all == SelectSeq(library, LAMBDA i : /\ IsOf(i, r.series)
                                           /\ r.only = Nothing \/ i \in r.only)
      batch == Page(all, job.start, BatchLimit)
      total == IF job.total < 0 /\ known THEN Len(all) ELSE job.total
      shown(n) == IF total < 0 THEN n
                  ELSE IF r.only # Nothing THEN total
                  ELSE Max({NegativeTotal(total, r), n + r.start})
      step(acc, i) ==
        IF acc.stop THEN acc
        ELSE LET a == [acc EXCEPT !.scanned = @ + 1] IN
             IF i \in job.exclude THEN a
             ELSE IF a.skipped < r.start THEN [a EXCEPT !.skipped = @ + 1]
             ELSE [a EXCEPT !.items = Append(@, i),
                            !.stop = \/ Len(a.items) + 1 >= Limit
                                     \/ a.scanned >= ScanLimit]
      scan == FoldLeft(step, [items |-> job.items, skipped |-> job.skipped,
                              scanned |-> job.scanned, stop |-> FALSE], batch) IN
  /\ Running("negative")
  /\ IF /\ batch # <<>> /\ Len(batch) = BatchLimit
        /\ scan.scanned < ScanLimit /\ Len(scan.items) < Limit
     THEN job' = [job EXCEPT !.items = scan.items, !.skipped = scan.skipped,
                             !.scanned = scan.scanned, !.start = NextStart(batch),
                             !.total = total]
     ELSE Done(scan.items, "ok", shown(Len(scan.items)), total >= 0)
  /\ \E series \in SUBSET AllSeries : counts' = Learned(series)
  /\ UNCHANGED <<library, did, changes, largest>>

\* writeLatestItems: asks for more while too many of the answer were played, as
\* far as it knows.
Hidden(rows, i) == "played" \in rows[i] /\ "orphan" \notin rows[i]
Latest ==
  LET ask == IF job.ask = 0 THEN job.limit ELSE 3 * job.ask
      page == Page(library, 0, ask)
      kept == Page(SelectSeq(page, LAMBDA i : ~(job.informed /\ Hidden(job.begun.did, i))),
                   0, job.limit) IN
  /\ Running("latest")
  /\ IF Len(kept) < job.limit /\ Len(page) = ask /\ 3 * ask <= LatestCap
     THEN job' = [job EXCEPT !.ask = ask]
     ELSE Done(kept, "ok", Len(kept), job.informed)
  /\ \E series \in SUBSET AllSeries : counts' = Learned(series)
  /\ UNCHANGED <<library, did, changes, largest>>

\* Any page that fails ends these lists.
PageFails ==
  /\ Running("negative") \/ Running("latest")
  /\ Finish(<<>>, "failed", 0)
  /\ UNCHANGED <<library, did, counts, changes, largest>>

\* The rows that next-up has in hand are saved one by one, and an error is ignored.
SaveSome(rows) ==
  \E saved \in SUBSET {i \in Items : rows[i] # job.rows[i]} :
    did' = [i \in Items |-> IF i \in saved THEN rows[i] ELSE did[i]]

\* repairIncompleteNextUpStates asks for some of the rows without metadata; what a
\* full answer lacks is gone.  Then the series are those of the rows.
Repair(answers, whole) ==
  LET asked == ToSet(Incomplete(job.rows))
      there == IF answers THEN asked \cap ToSet(library) ELSE {}
      rows == Applied(job.rows, there, IF answers /\ whole THEN asked \ there ELSE {}) IN
  /\ Running("nextup") /\ job.series = Nothing
  /\ job' = [job EXCEPT !.rows = rows,
                        !.series = Paged(RecentSeries(rows), 0, job.req.limit + SeriesMargin)]
  /\ SaveSome(rows)
  /\ UNCHANGED <<library, counts, changes, largest>>

\* fetchCompleteSeriesEpisodes: whether what was collected is all of it.
Complete_Faulty(all, total, last) == last \/ (total >= 0 /\ Len(all) = total)
Complete(all, total, last) == total >= 0 /\ Len(all) = total

\* One series of next-up is through, with the episodes and whether they are all;
\* their rows are brought up to date before they are judged.
SeriesDone(all, complete) ==
  LET s == Head(job.series)
      rows == Applied(job.rows, ToSet(all), {})
      next == NextEpisode(all, rows) IN
  /\ counts' = IF complete /\ all # <<>> THEN [counts EXCEPT ![s] = Len(all)] ELSE counts
  /\ SaveSome(rows)
  /\ job' = [job EXCEPT !.series = Tail(@), !.all = <<>>, !.total = -1, !.start = 0,
       !.rows = rows,
       !.items = IF /\ complete /\ next # <<>>
                    /\ job.req.series # Nothing \/ Eligible(s, rows)
                 THEN Append(@, Head(next)) ELSE @]

Listed == Running("nextup") /\ job.series # Nothing

\* One page of a series.  The upstream may leave out the total.
SeriesPage ==
  LET s == Head(job.series)
      batch == Page(Episodes(s, library), job.start, ScanBatch)
      new == SelectSeq(batch, LAMBDA i : i \notin ToSet(job.all))
      all == job.all \o new IN
  /\ Listed /\ job.series # <<>>
  /\ \E known \in BOOLEAN :
       LET total == IF job.total < 0 /\ known THEN Len(Episodes(s, library)) ELSE job.total
           over == total >= 0 /\ Len(all) >= total
           last == \/ new = <<>> \/ Len(batch) < ScanBatch
                   \/ job.start + ScanBatch >= ScanLimit IN
       IF over \/ last THEN SeriesDone(all, Complete(all, total, last))
       ELSE /\ job' = [job EXCEPT !.all = all, !.total = total, !.start = @ + ScanBatch]
            /\ UNCHANGED <<did, counts>>
  /\ UNCHANGED <<library, changes, largest>>

SeriesFails ==
  /\ Listed /\ job.series # <<>>
  /\ SeriesDone(job.all, FALSE)
  /\ UNCHANGED <<library, changes, largest>>

NextUpDone ==
  /\ Listed /\ job.series = <<>>
  /\ Finish(Paged(job.items, job.req.start, job.req.limit), "ok", Len(job.items))
  /\ UNCHANGED <<library, did, counts, changes, largest>>

\* applyChildCountsToAggregates and overlayUserData, of a page that shows a
\* series: its size, as known or as the upstream now says, and how many of it
\* are left to play, when the user has rows of it.
Played(s) == {i \in Items : /\ SeriesOf[i] = s /\ Known(i) /\ "bare" \notin did[i]
                            /\ "played" \in did[i]}
Left(s, size) ==
  IF size = 0 \/ ~\E i \in Items : SeriesOf[i] = s /\ Known(i) /\ "bare" \notin did[i]
  THEN Nothing
  ELSE size - Min({Cardinality(Played(s)), size})

Overlay ==
  LET s == job.req.series
      all == Episodes(s, library) IN
  /\ Running("series")
  /\ \E total \in {0, Len(all)}, page \in {<<>>, Page(all, 0, 1)} :
       LET size == IF counts[s] > 0 THEN counts[s] ELSE FetchedCount(total, page) IN
       /\ counts' = [counts EXCEPT ![s] = size]
       /\ Finish(<<Left(s, size)>>, "ok", size)
  /\ UNCHANGED <<library, did, changes, largest>>

Return ==
  /\ job.at = "done" /\ job' = NoJob
  /\ changes' = MaxChanges    \* one list after another would show nothing new
  /\ UNCHANGED <<library, did, counts, largest>>

\* The library loses an item or gains one, anywhere.
Change ==
  /\ changes < MaxChanges /\ changes' = changes + 1
  /\ \/ \E n \in DOMAIN library : library' = RemoveAt(library, n)
     \/ \E i \in Items \ ToSet(library) : library' = <<i>> \o library
  /\ largest' = [s \in AllSeries |-> largest[s] \cup {Len(Episodes(s, library'))}]
  /\ UNCHANGED <<did, counts, job>>

Next ==
  \/ \E r \in Requests, read \in BOOLEAN : changes = 0 /\ Begin(r, read)
  \/ \E kind \in {"positive", "resume"} : ResolveBatch(kind) \/ BatchFails(kind) \/ Resolved(kind)
  \/ \E known \in BOOLEAN : Scan(known)
  \/ Latest \/ PageFails
  \/ \E answers, whole \in BOOLEAN : Repair(answers, whole)
  \/ SeriesPage \/ SeriesFails \/ NextUpDone
  \/ Overlay \/ Return \/ Change

Spec == Init /\ [][Next]_vars

-----------------------------------------------------------------------------
(* Properties *)

TypeOK ==
  /\ ToSet(library) \subseteq Items /\ IsInjective(library)
  /\ did \in [Items -> SUBSET RowFlags]
  /\ counts \in [AllSeries -> Nat]

\* "a partial page would poison the child-count cache" (server.go:2184): the
\* size kept of a series is one it had.
CountsWhole == \A s \in AllSeries : counts[s] # 0 => counts[s] \in largest[s]

\* The definitions the lists are measured by, over a library that stays.
Unseen(lib, d) == SelectSeq(lib, LAMBDA i : ~Hidden(d, i))
Meant(r, lib, d) ==
  LET row(i) == IF "orphan" \in d[i] THEN {} ELSE d[i]
      fits(i) == /\ Wanted(r.filters) \subseteq row(i) /\ Unwanted(r.filters) \cap row(i) = {}
                 /\ r.series = Nothing \/ SeriesOf[i] = r.series
                 /\ r.only = Nothing \/ i \in r.only IN
  IF r.kind = "negative" THEN SelectSeq(Page(lib, 0, ScanLimit), fits)
  ELSE Sorted(Recent({i \in ToSet(lib) : fits(i)}), r.sort)

\* Every list is what the user asked for when the library stays as it was and
\* answers: filters select the items whose rows fit, and pages of the scan, the
\* batches and the lists cut it up without a gap or an overlap.  A total is no less
\* than the place of the last item shown, unless the upstream never gave one; then a
\* scan counts what it shows.  Latest stops early only at its limits, and shows
\* nothing played unless the rows could not be read, when it shows everything;
\* next-up is the first episode not played after the last one watched, whatever the
\* rows of episodes that are there said of having been lost, and only of a series
\* the user is known to have watched or asked for.
ListsAsMeant ==
  job.at = "done" /\ job.status = "ok" /\ changes = 0 =>
    LET r == job.req
        lib == job.begun.lib
        d == job.begun.did
        shown == IF job.informed THEN Unseen(lib, d) ELSE lib
        active(i) == d[i] \cap {"played", "resumable"} # {} IN
    /\ r.kind \in {"positive", "negative"} =>
         /\ job.items = Paged(Meant(r, lib, d), r.start, r.limit)
         /\ IF job.informed
            THEN r.start >= 0 => job.total >= r.start + Len(job.items) \/ job.items = <<>>
            ELSE r.kind = "negative" /\ job.total = Len(job.items)
    /\ r.kind = "positive" => job.total = Len(Meant(r, lib, d))
    /\ r.kind = "latest" =>
         /\ IsPrefix(job.items, shown)
         /\ Len(lib) <= LatestCap \div 3 => Len(job.items) >=
              Min({Len(shown), IF r.limit <= 0 THEN LatestDefault ELSE r.limit, LatestCap})
    /\ r.kind = "nextup" => \A i \in ToSet(job.items) :
         /\ "played" \notin d[i]
         /\ r.series # SeriesOf[i] =>
              \E k \in Items : SeriesOf[k] = SeriesOf[i] /\ active(k)
         /\ \A j \in ToSet(lib) :
              SeriesOf[j] = SeriesOf[i] /\ IndexOf[j] # Nothing /\ IndexOf[i] # Nothing =>
                /\ active(j) => ~After(IndexOf[j], IndexOf[i])
                /\ After(IndexOf[i], IndexOf[j]) =>
                     \/ "played" \in d[j]
                     \/ \E k \in ToSet(lib) : /\ SeriesOf[k] = SeriesOf[i] /\ active(k)
                                              /\ IndexOf[k] # Nothing
                                              /\ ~After(IndexOf[j], IndexOf[k])

\* The lists and the counts they leave behind.
ListsSound == TypeOK /\ CountsWhole /\ ListsAsMeant
================================================================================
