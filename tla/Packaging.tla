------------------------------- MODULE Packaging -------------------------------
(* How a conversion is cut into segments: the timeline made from the index of  *)
(* the film, and the runs of FFmpeg whose output is split at its cuts, as      *)
(* fragmented MP4 or as a transport stream.  The index may differ from what    *)
(* the film has, timestamps are rounded, a transport stream's wrap, and FFmpeg *)
(* may stop at any point.  Segments count from 0; a time is a number of ticks. *)
EXTENDS Integers, Sequences, FiniteSets, SequencesExt, FiniteSetsExt

CONSTANTS
  Titles,             \* the films: their sample tables, and the keyframes they have
  Second, Target, Rest, MaxTicks, Tolerance,  \* in ticks
  Wrap,               \* the range of a transport stream's timestamps
  Roundings,          \* by which the container's timestamps may be off
  Lookahead,          \* lookaheadSegments
  MaxRanges,          \* of an observation
  MaxRuns,            \* bound
  Nothing

VARIABLES
  title,
  timeline,  \* of the job: Nothing before prepare has read it
  stored,    \* the segments published: the keyframes each holds
  run,       \* the run of FFmpeg and its splitter
  early,     \* whether FFmpeg ever stopped before the end of the film
  runs

vars == <<title, timeline, stored, run, early, runs>>

Abs(n) == IF n < 0 THEN -n ELSE n
Below(n) == [i \in 1..n |-> i - 1]
Total(s) == FoldLeft(LAMBDA a, n : a + n, 0, s)

-----------------------------------------------------------------------------
(* The index: sample tables in runs of equal values, walked in lockstep *)

WellFormed(table) == table # <<>> /\ \A i \in DOMAIN table : table[i].count > 0
Expanded(table) ==
  FlattenSeq([i \in DOMAIN table |-> [n \in 1..table[i].count |-> table[i].value]])
Samples(t) == Total([i \in DOMAIN t.durations |-> t.durations[i].count])

\* The samples stss names; without it every sample is a keyframe.
Sync(t) == IF t.sync = Nothing THEN 1..Samples(t) ELSE t.sync

\* editShift: at most two edits, an empty one only in front.
EditsFit(edits) ==
  /\ Len(edits) <= 2
  /\ \A i \in DOMAIN edits : edits[i].media >= 0 \/ (edits[i].media = -1 /\ i = 1)
EditShift(edits) ==
  LET media == SelectSeq(edits, LAMBDA d : d.media >= 0)
      empty == SelectSeq(edits, LAMBDA d : d.media = -1)
  IN (IF empty = <<>> THEN 0 ELSE empty[1].duration)
       - (IF media = <<>> THEN 0 ELSE Last(media).media)

\* The walk is at a sample of the run `at` of offsets, with `left` samples of it.
Walked(t, walk, n, more) ==
  LET left == walk.left - 1
      next == left = 0 /\ more
  IN [dts |-> walk.dts + Expanded(t.durations)[n],
      at |-> IF next THEN walk.at + 1 ELSE walk.at,
      left |-> IF next /\ walk.at < Len(t.offsets) THEN t.offsets[walk.at + 1].count
               ELSE left,
      times |-> IF n \notin Sync(t) THEN walk.times
                ELSE Append(walk.times,
                            walk.dts + t.offsets[walk.at].value + EditShift(t.edits))]

\* The presentation times of the keyframes, Nothing when the tables do not fit.
SampleTimes(t) ==
  LET count == Samples(t)
      start == [dts |-> 0, at |-> 1, left |-> t.offsets[1].count, times |-> <<>>]
      walk == FoldLeft(LAMBDA w, n : IF w.at > Len(t.offsets) THEN w
                                     ELSE Walked(t, w, n, n < count),
                       start, [n \in 1..count |-> n])
  IN IF /\ WellFormed(t.durations) /\ WellFormed(t.offsets)
        /\ \A i \in DOMAIN t.durations : t.durations[i].value > 0
        /\ Sync(t) \subseteq 1..count
        /\ EditsFit(t.edits)
        /\ walk.at <= Len(t.offsets)
     THEN walk.times
     ELSE Nothing

\* makeTimeline: cuts are keyframes at least a target apart, and a last interval
\* that is next to nothing joins the one before.
Cuts(keys, duration) ==
  LET cuts == FoldLeft(LAMBDA cs, k : IF k >= Last(cs) + Target THEN Append(cs, k) ELSE cs,
                       <<0>>, keys)
      joined == duration - Last(cuts) < Rest /\ Len(cuts) > 1
  IN Append(IF joined THEN Front(cuts) ELSE cuts, duration)

Unusable == [cuts |-> <<>>, keys |-> <<>>]
MakeTimeline(times, duration) ==
  LET keys == SelectSeq(Below(duration), LAMBDA k : k \in ToSet(times))
  IN IF duration \in 1..MaxTicks /\ keys # <<>> /\ keys[1] <= Second
     THEN [cuts |-> Cuts(keys, duration), keys |-> keys]
     ELSE Unusable

ReadTimeline(t) ==
  IF SampleTimes(t) = Nothing THEN Unusable ELSE MakeTimeline(SampleTimes(t), t.duration)

-----------------------------------------------------------------------------
(* The timeline *)

Length == Len(timeline.cuts) - 1
Segments == 0..Length - 1
Cut(i) == timeline.cuts[i + 1]

\* Timeline.Segment
Segment(ticks) ==
  Max({0} \cup {i \in Segments : Cut(i) <= ticks})

\* Manifest: the target duration in whole seconds, and each segment's.
Manifest ==
  LET lengths == [i \in 1..Length |-> Cut(i) - Cut(i - 1)]
  IN [target |-> Max({1} \cup {(lengths[i] + Second - 1) \div Second : i \in 1..Length}),
      lengths |-> lengths]

\* jobView: the intervals that are published, adjacent ones as one.
Ranges ==
  LET published == SelectSeq(Below(Length), LAMBDA i : stored[i] # Nothing)
  IN FoldLeft(
       LAMBDA view, i :
         IF view.ranges # <<>> /\ Last(view.ranges)[2] = Cut(i)
         THEN [view EXCEPT !.ranges[Len(view.ranges)] = <<@[1], Cut(i + 1)>>]
         ELSE IF Len(view.ranges) < MaxRanges
         THEN [view EXCEPT !.ranges = Append(@, <<Cut(i), Cut(i + 1)>>)]
         ELSE [view EXCEPT !.truncated = TRUE],
       [ranges |-> <<>>, truncated |-> FALSE], published)

-----------------------------------------------------------------------------
(* A run of FFmpeg *)

Idle == [pc |-> "idle", start |-> 0, end |-> 0, index |-> -1, writer |-> Nothing,
         rest |-> <<>>, begun |-> Nothing, made |-> {}, failure |-> ""]

Init ==
  /\ title \in Titles /\ timeline = Nothing /\ stored = <<>>
  /\ run = Idle /\ early = FALSE /\ runs = 0

Prepare ==
  /\ timeline = Nothing
  /\ timeline' = ReadTimeline(title)
  /\ stored' = [i \in 0..Len(timeline'.cuts) - 2 |-> Nothing]
  /\ UNCHANGED <<title, run, early, runs>>

\* FFmpeg seeks to the segment before the one asked for, by its own index: it
\* begins with the last keyframe that is not later, one before it, or the first of all.
SeekPoints(ticks) ==
  {n \in DOMAIN title.keys :
     /\ n = 1 \/ title.keys[n] <= ticks
     /\ Cardinality({m \in DOMAIN title.keys : m > n /\ title.keys[m] <= ticks}) <= 1}

\* work, and runFFmpeg up to its start: a window from the segment asked for.
Start(i) ==
  /\ run.pc = "idle" /\ runs < MaxRuns
  /\ \E n \in SeekPoints(Cut(Max({0, i - 1}))) :
       run' = [Idle EXCEPT !.pc = "opening", !.start = i, !.end = Min({Length, i + Lookahead}),
                           !.rest = SubSeq(title.keys, n, Len(title.keys))]
  /\ runs' = runs + 1
  /\ UNCHANGED <<title, timeline, stored, early>>

\* moov, or the program tables of the transport stream, come first.
Tables ==
  /\ run.pc = "opening"
  /\ run' = [run EXCEPT !.pc = "reading"]
  /\ UNCHANGED <<title, timeline, stored, early, runs>>

\* The end of a run: a writer that is left is aborted.
Ended(failure, made) == [Idle EXCEPT !.start = run.start, !.end = run.end, !.pc = "ended",
                                     !.made = made, !.failure = failure]
Fails(failure) ==
  run' = Ended(failure, run.made) /\ UNCHANGED stored

\* commit: what is published already stays.
Made == run.made \cup IF run.writer = Nothing THEN {} ELSE {run.index}
Commit ==
  stored' = [i \in DOMAIN stored |->
               IF i \in Made \ run.made /\ stored[i] = Nothing THEN run.writer ELSE stored[i]]

\* fragmentTime: the decode time and the composition offset of the first sample.
FragmentTime(key, rounding) == key + rounding

\* The timestamp in a transport stream, of which only the remainder is sent; it is
\* taken to be within half the range of where the run was to begin.
Sent(key, rounding) == (key + rounding) % Wrap
Unwrapped(sent, anchor) ==
  LET low == anchor - Wrap \div 2 IN low + ((sent - low) % Wrap)
TransportTime(key, rounding) ==
  Unwrapped(Sent(key, rounding), Cut(Max({0, run.start - 1})))

Stamp(key, rounding) ==
  IF title.container = "ts" THEN TransportTime(key, rounding) ELSE FragmentTime(key, rounding)

\* The segment of a timestamp that may be rounded down.
SegmentOf_Faulty(pts) == Segment(pts)
SegmentOf(pts) == Segment(pts + Tolerance)

\* In a transport stream the first packet is written at once.
Begun(writer, key) ==
  IF writer # Nothing /\ title.container = "ts"
  THEN Append(writer, [key |-> key, whole |-> FALSE]) ELSE writer

\* The fragment of the next keyframe, with its timestamp: it continues the segment,
\* begins one, or is past the window.
Continues(key, i) ==
  /\ i = run.index
  /\ run' = [run EXCEPT !.begun = key, !.rest = Tail(@), !.writer = Begun(@, key)]
  /\ UNCHANGED stored

GoesBack(i) == i < run.index /\ Fails("worker")

OffTheCut(i, pts) == i >= run.start /\ i > 0 /\ Abs(pts - Cut(i)) > Tolerance
NotTheCut(i, pts) == i > run.index /\ OffTheCut(i, pts) /\ Fails("index")

Begins(key, i, pts) ==
  /\ i > run.index /\ ~OffTheCut(i, pts)
  /\ Commit
  /\ run' = IF i >= run.end THEN Ended("", Made)
            ELSE [run EXCEPT !.index = i, !.begun = key, !.rest = Tail(@), !.made = Made,
                             !.writer = IF i >= run.start THEN Begun(<<>>, key) ELSE Nothing]

Keyframe(pts, key) ==
  LET i == SegmentOf(pts)
  IN \/ Continues(key, i)
     \/ GoesBack(i)
     \/ NotTheCut(i, pts)
     \/ Begins(key, i, pts)

\* The next moof, or the next packet with a random access point: splitFragments
\* and splitTransport differ in the timestamp and in when they write.
Split ==
  /\ run.pc = "reading" /\ run.rest # <<>> /\ run.begun = Nothing
  /\ \E r \in Roundings : Keyframe(Stamp(run.rest[1], r), run.rest[1])
  /\ UNCHANGED <<title, timeline, early, runs>>

\* mdat, or the packets up to the next keyframe
Data ==
  /\ run.begun # Nothing
  /\ run' = [run EXCEPT !.begun = Nothing,
                        !.writer = IF @ = Nothing THEN @
                                   ELSE LET whole == [key |-> run.begun, whole |-> TRUE]
                                        IN IF title.container = "ts"
                                           THEN Append(Front(@), whole)
                                           ELSE Append(@, whole)]
  /\ UNCHANGED <<title, timeline, stored, early, runs>>

\* The output ends between two boxes or packets, at the end of the film or before;
\* only then is FFmpeg's exit looked at.
EndOfOutput(exit) ==
  /\ run.pc \in {"opening", "reading"}
  /\ IF run.end = Length /\ run.index = run.end - 1
     THEN Commit /\ run' = Ended(exit, Made)
     ELSE Fails("worker")
  /\ early' = (early \/ run.rest # <<>> \/ run.begun # Nothing)
  /\ UNCHANGED <<title, timeline, runs>>

\* It ends within one, or the run is obsolete or the cache full when a segment is
\* begun, written or published.
Breaks ==
  /\ run.pc \in {"opening", "reading"}
  /\ Fails("worker")
  /\ UNCHANGED <<title, timeline, early, runs>>

\* The job may run again, for any segment.
Again ==
  /\ run.pc = "ended"
  /\ run' = Idle
  /\ UNCHANGED <<title, timeline, stored, early, runs>>

Next ==
  \/ Prepare
  \/ \E i \in DOMAIN stored : Start(i)
  \/ Tables \/ Split \/ Data
  \/ \E exit \in {"", "worker"} : EndOfOutput(exit)
  \/ Breaks \/ Again

Spec == Init /\ [][Next]_vars

-----------------------------------------------------------------------------
(* Properties *)

TypeOK ==
  /\ title \in Titles /\ runs \in 0..MaxRuns /\ early \in BOOLEAN
  /\ run.index \in -1..run.end /\ run.made \subseteq DOMAIN stored

Usable == timeline \notin {Nothing, Unusable}

\* The walk gives each keyframe the decode time of its sample, the offset of its
\* run, and the shift of the edits, which is when the film shows it if the index is
\* true; tables that do not cover the samples are refused.
TimesOfTables ==
  LET durations == Expanded(title.durations)
      offsets == Expanded(title.offsets)
      covered == Len(offsets) >= Len(durations) /\ Sync(title) \subseteq DOMAIN durations
      time(n) == Total(SubSeq(durations, 1, n - 1)) + offsets[n] + EditShift(title.edits)
  IN timeline = Nothing =>
       /\ (SampleTimes(title) = Nothing) = ~covered
       /\ covered => ToSet(SampleTimes(title)) = {time(n) : n \in Sync(title)}
       /\ title.true => SampleTimes(title) = title.keys

\* Every cut but the ends is a keyframe of the index and the first one at least a
\* target after the cut before, so no segment could have ended earlier; the film is
\* covered, the last segment is not next to nothing, and the target duration the
\* manifest states is that of its longest segment.
CutsAreKeyframes ==
  Usable =>
    /\ Cut(0) = 0 /\ Cut(Length) = title.duration /\ Length > 0
    /\ \A i \in 1..Length - 1 :
         /\ Cut(i) \in ToSet(timeline.keys) /\ Cut(i) >= Cut(i - 1) + Target
         /\ \A k \in ToSet(timeline.keys) : k < Cut(i - 1) + Target \/ k >= Cut(i)
    /\ Length > 1 => title.duration - Cut(Length - 1) >= Rest
    /\ \A k \in ToSet(timeline.keys) :
         k < Cut(Length - 1) + Target \/ title.duration - k < Rest
    /\ Manifest.target * Second >= Max(ToSet(Manifest.lengths))
    /\ (Manifest.target - 1) * Second < Max(ToSet(Manifest.lengths))
    /\ Total(Manifest.lengths) = title.duration

\* The keyframes of the film that lie in a segment, the first and the last of
\* which have no bound outwards.
InSegment(i) ==
  SelectSeq(title.keys, LAMBDA k : (i = 0 \/ k >= Cut(i)) /\ (i = Length - 1 \/ k < Cut(i + 1)))
Whole(keys) == [n \in DOMAIN keys |-> [key |-> keys[n], whole |-> TRUE]]

\* A published segment is the same wherever the run began that made it, whatever
\* the index says: all keyframes in its interval, the first of which is the cut.
\* Only the last one may be cut short, by an FFmpeg that stopped early.
SegmentsAreWhole ==
  \A i \in DOMAIN stored : stored[i] # Nothing =>
    /\ stored[i] = Whole(InSegment(i)) \/ (i = Length - 1 /\ early)
    /\ i > 0 /\ stored[i] # <<>> => Abs(stored[i][1].key - Cut(i)) <= 2 * Tolerance

\* A run makes nothing outside its window, and one that ended well has made each
\* segment of it in which the film has a keyframe.  With a true index each has, so
\* what was asked for is there.
WindowIsMade ==
  /\ run.made \subseteq run.start..run.end - 1
  /\ run.pc = "ended" /\ run.failure = "" =>
       \A i \in run.start..run.end - 1 : i \in run.made \/ (~title.true /\ InSegment(i) = <<>>)

\* However its timestamp is rounded, a keyframe of a film whose index is true is put
\* in the segment it belongs to, so no such film is refused; in a transport stream if
\* it is within half the range of where the run was to begin.
KeyframesFindTheirSegment ==
  title.true /\ run.pc = "reading" /\ run.rest # <<>> =>
    LET key == run.rest[1]
        near == Abs(key - Cut(Max({0, run.start - 1}))) + Tolerance < Wrap \div 2
    IN title.container = "mp4" \/ near =>
         \A r \in Roundings : key \in ToSet(InSegment(SegmentOf(Stamp(key, r))))

\* The intervals the console shows are those that are published, none adjacent to
\* another, and it says when some are left out.
RangesShowStored ==
  Usable =>
    LET shown == {i \in DOMAIN stored :
                    \E r \in ToSet(Ranges.ranges) : r[1] <= Cut(i) /\ Cut(i + 1) <= r[2]}
        published == {i \in DOMAIN stored : stored[i] # Nothing}
    IN /\ shown \subseteq published
       /\ Ranges.truncated = (shown # published)
       /\ \A r, o \in ToSet(Ranges.ranges) : r[2] # o[1]

PackagingSound ==
  /\ TypeOK /\ TimesOfTables /\ CutsAreKeyframes /\ SegmentsAreWhole
  /\ WindowIsMade /\ KeyframesFindTheirSegment /\ RangesShowStored
=============================================================================
