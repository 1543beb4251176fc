------------------------------- MODULE Playback -------------------------------
(* What the gateway remembers of the items of one user: the rows of            *)
(* user_item_data under playback reports, writes of user data and the lists    *)
(* that resolve rows against the library, each a series of store and upstream  *)
(* calls without a lock; and the guard that keeps a denied playback out of it. *)
(*                                                                             *)
(* A row's user columns belong to the user; its metadata (the identity seen,   *)
(* the runtime, the orphan mark) to whoever looked at the library last.  Dates *)
(* are left out: the lists that sort by them are in PersonalLists.             *)
EXTENDS Integers, FiniteSets

CONSTANTS
  Items, Clients,
  Reports,          \* reports a client sends: [event, body, query, form]
  Writes,           \* writes of user data: [kind, ...]
  Runtime,          \* length of every item, in seconds (one tick each)
  MinPct, MaxPct, MinDuration,
  MaxOps, MaxTurns, \* bounds: requests, and changes of library and clock
  Nothing

VARIABLES
  row,        \* the stored rows
  library,    \* the identity each item has upstream, 0 when it is gone
  op,         \* the request each client has under way
  guard,      \* playbackGuardTracker: denials, with their generation
  generation,
  ops, turns

vars == <<row, library, op, guard, generation, ops, turns>>

Fresh == [played |-> FALSE, pos |-> 0, pct |-> Nothing, count |-> 0, fav |-> FALSE,
          likes |-> Nothing, hide |-> FALSE, seen |-> 0, runtime |-> 0, orphan |-> FALSE]
Metadata == {"seen", "runtime", "orphan"}
UserColumns == DOMAIN Fresh \ Metadata
Listed == {"resume", "filtered", "nextup"}
NoOp == [pc |-> "idle", kind |-> "", item |-> Nothing, what |-> Nothing, state |-> Nothing,
         read |-> Nothing, left |-> {}, found |-> {}, gen |-> 0, late |-> FALSE]

Init ==
  /\ row = [i \in Items |-> Nothing]
  /\ library = [i \in Items |-> 1]
  /\ op = [c \in Clients |-> NoOp]
  /\ guard = [i \in Items |-> Nothing] /\ generation = 0
  /\ ops = 0 /\ turns = 0

\* Writes are of these kinds, and Nothing is not a denial.
GuardRecord == [gen : Nat, old : BOOLEAN]
Assumption ==
  /\ \A w \in Writes : /\ w.kind \in {"played", "favorite", "rating", "hide", "userdata"}
                       /\ w.kind = "played" => w.value \in BOOLEAN
  /\ Nothing \notin GuardRecord

-----------------------------------------------------------------------------
(* Operators of the handlers *)

Or(a, b) == IF a # Nothing THEN a ELSE b

\* playbackDetailsFromRequest: a form overrides the query field by field, and a
\* query that names an item fills what a JSON body leaves open; a body without
\* the item's ID and without any of the four fields counts for nothing.
Details(r) ==
  LET b == r.body
      q == r.query IN
  IF q = Nothing THEN b
  ELSE IF ~b.named /\ {b.pos, b.played, b.pct, b.runtime} = {Nothing} THEN q
  ELSE [b EXCEPT !.pos = Or(@, q.pos), !.played = Or(@, q.played),
                 !.pct = Or(@, q.pct), !.runtime = Or(@, q.runtime)]

NeedsMetadata(s) == s.seen = 0

Stored(s, value) == IF value = Nothing THEN s ELSE value

\* The report's details go into the row; those it has no value for stay.
Reported(s, d) ==
  [s EXCEPT !.seen = Stored(@, d.seen), !.runtime = Stored(@, d.runtime),
            !.pos = Stored(@, d.pos), !.pct = Stored(@, d.pct),
            !.played = Stored(@, d.played)]

Completed(s) ==
  \/ s.played
  \/ /\ s.runtime > 0 /\ s.pos > 0
     /\ 100 * s.pos >= MinPct * s.runtime
     /\ \/ 100 * s.pos > MaxPct * s.runtime
        \/ s.pos >= s.runtime - 1
        \/ MinDuration > 0 /\ s.runtime < MinDuration

TooEarly(s) == ~s.played /\ s.runtime > 0 /\ s.pos > 0 /\ 100 * s.pos < MinPct * s.runtime

\* applyStoppedPlaybackState
Stopped(s, wasPlayed) ==
  LET early == IF TooEarly(s) THEN [s EXCEPT !.pos = 0, !.pct = Nothing]
               ELSE [s EXCEPT !.pos = IF @ < 0 THEN 0 ELSE @]
      whole == early.pct # Nothing /\ early.pct >= MaxPct IN
  IF Completed(s) \/ whole
  THEN [early EXCEPT !.played = TRUE, !.pos = 0, !.pct = 100,
                     !.count = IF wasPlayed THEN @ ELSE @ + 1]
  ELSE early

\* applyUserDataBodyToState
FromBody(s, w) ==
  [s EXCEPT !.played = Stored(@, w.played), !.pos = Stored(@, w.pos),
            !.pct = Stored(@, w.pct), !.fav = Stored(@, w.fav),
            !.likes = Stored(@, w.likes),
            !.count = Stored(IF w.played = TRUE /\ ~s.played THEN @ + 1 ELSE @, w.count)]

\* handlePersonalStateWrite
Written(s, w) ==
  CASE w.kind = "played" /\ w.value ->
         [s EXCEPT !.played = TRUE, !.count = @ + 1, !.pos = 0, !.pct = 100]
    [] w.kind = "played" /\ ~w.value ->
         [s EXCEPT !.played = FALSE, !.pos = 0, !.pct = Nothing]
    [] w.kind = "favorite" -> [s EXCEPT !.fav = w.value]
    [] w.kind = "rating"   -> [s EXCEPT !.likes = w.value]
    [] w.kind = "hide"     -> [s EXCEPT !.hide = w.value]
    [] w.kind = "userdata" -> FromBody(s, w)

\* The columns a request is about.
Columns(o) ==
  CASE o.kind = "report" -> {"played", "pos", "pct", "count"}
    [] o.kind # "report" /\ o.what.kind = "played" -> {"played", "pos", "pct", "count"}
    [] o.kind # "report" /\ o.what.kind = "favorite" -> {"fav"}
    [] o.kind # "report" /\ o.what.kind = "rating" -> {"likes"}
    [] o.kind # "report" /\ o.what.kind = "hide" -> {"hide"}
    [] o.kind # "report" /\ o.what.kind = "userdata" -> UserColumns \ {"hide"}

\* mergeItemMetadata
Merged(s, identity) == [s EXCEPT !.seen = identity, !.runtime = Runtime]

\* fingerprintsCompatible: nothing known of the old item, or nothing different.
Compatible(s, identity) == s.seen = 0 \/ s.seen = identity

\* reconcileResolvedItem: an item that is gone, or another one under the same
\* ID, makes the row an orphan; one that is the same ends that.
Reconciled(s, present, identity) ==
  IF ~present \/ ~Compatible(s, identity)
  THEN [s EXCEPT !.orphan = TRUE]
  ELSE [Merged(s, identity) EXCEPT !.orphan = FALSE]

Resumable(s) == s.pos > 0 /\ ~s.played /\ ~s.hide

\* What a list asks the library about: only the resume list looks at orphans.
InList(s, kind) ==
  /\ s # Nothing
  /\ kind = "resume" => Resumable(s)
  /\ kind # "resume" => ~s.orphan

-----------------------------------------------------------------------------
(* Playback admission *)

Begin(c, o) == /\ op[c].pc = "idle" /\ ops < MaxOps
               /\ ops' = ops + 1
               /\ op' = [op EXCEPT ![c] = o]

\* sweep, which every call of the tracker begins with
Swept == [i \in Items |-> IF guard[i] # Nothing /\ guard[i].old THEN Nothing ELSE guard[i]]

\* snapshot: the generation of the denial a new attempt knows of, or 0.
InfoBegin(c, i) ==
  /\ Begin(c, [NoOp EXCEPT !.pc = "info", !.item = i,
                           !.gen = IF Swept[i] = Nothing THEN 0 ELSE Swept[i].gen])
  /\ guard' = Swept
  /\ UNCHANGED <<row, library, generation, turns>>

NextGeneration_Faulty(i) == IF Swept[i] = Nothing THEN 1 ELSE Swept[i].gen + 1
NextGeneration(i) == generation + 1

\* deny: the upstream refused the playback for too many sessions.
InfoDenied(c) ==
  LET i == op[c].item IN
  /\ op[c].pc = "info"
  /\ generation' = generation + 1
  /\ guard' = [Swept EXCEPT ![i] = [gen |-> NextGeneration(i), old |-> FALSE]]
  /\ op' = [d \in Clients |->
              IF d = c THEN NoOp
              ELSE IF op[d].pc = "info" /\ op[d].item = i THEN [op[d] EXCEPT !.late = TRUE]
              ELSE op[d]]
  /\ UNCHANGED <<row, library, ops, turns>>

\* clearIfGeneration: a playback that is admitted takes back the denial it saw.
InfoGranted(c) ==
  LET i == op[c].item IN
  /\ op[c].pc = "info"
  /\ guard' = IF op[c].gen # 0 /\ Swept[i] # Nothing /\ Swept[i].gen = op[c].gen
              THEN [Swept EXCEPT ![i] = Nothing] ELSE Swept
  /\ op' = [op EXCEPT ![c] = NoOp]
  /\ UNCHANGED <<row, library, generation, ops, turns>>

\* Any other answer: an upstream that fails, or a 401 with another reason.
InfoFailed(c) ==
  /\ op[c].pc = "info"
  /\ op' = [op EXCEPT ![c] = NoOp]
  /\ UNCHANGED <<row, library, guard, generation, ops, turns>>

\* playbackGuardTTL passes for a denial.
Age(i) ==
  /\ guard[i] # Nothing /\ ~guard[i].old /\ turns < MaxTurns
  /\ guard' = [guard EXCEPT ![i].old = TRUE]
  /\ turns' = turns + 1
  /\ UNCHANGED <<row, library, op, generation, ops>>

-----------------------------------------------------------------------------
(* Reports and writes: find the row, change it, look at the library, save it *)

\* recordPlaybackRequest, up to its look at the guard: while a denial is in
\* force the report of a playback that never started is dropped.
Report(c, i, r) ==
  /\ IF Swept[i] # Nothing
     THEN Begin(c, NoOp)
     ELSE Begin(c, [NoOp EXCEPT !.pc = "find", !.kind = "report", !.item = i, !.what = r])
  /\ guard' = Swept
  /\ UNCHANGED <<row, library, generation, turns>>

Write(c, i, w) ==
  /\ Begin(c, [NoOp EXCEPT !.pc = "find", !.kind = "write", !.item = i, !.what = w])
  /\ UNCHANGED <<row, library, guard, generation, turns>>

\* stateForItem: the row, orphaned or not, or a new one.
StateForItem(i) == IF row[i] = Nothing THEN Fresh ELSE row[i]

Find(c) ==
  LET i == op[c].item
      w == op[c].what
      s == StateForItem(i)
      changed == IF op[c].kind = "report" THEN Reported(s, Details(w)) ELSE Written(s, w) IN
  /\ op[c].pc = "find"
  /\ op' = [op EXCEPT ![c].state = changed, ![c].read = s,
              ![c].pc = IF op[c].kind = "write" THEN "enrich"
                        ELSE IF w.event # "stopped" THEN "save"
                        ELSE IF changed.runtime = 0 \/ NeedsMetadata(changed) THEN "enrich"
                        ELSE "stop"]
  /\ UNCHANGED <<row, library, guard, generation, ops, turns>>

\* enrichPlaybackStateMetadata: the item is there, or the request goes on with
\* what it has.
Enrich(c) ==
  LET i == op[c].item IN
  /\ op[c].pc = "enrich"
  /\ \E answered \in BOOLEAN :
       op' = [op EXCEPT
         ![c].state = IF answered /\ library[i] # 0
                      THEN [Merged(@, library[i]) EXCEPT !.orphan = FALSE] ELSE @,
         ![c].pc = IF op[c].kind = "report" THEN "stop" ELSE "save"]
  /\ UNCHANGED <<row, library, guard, generation, ops, turns>>

Stop(c) ==
  /\ op[c].pc = "stop"
  /\ op' = [op EXCEPT ![c].state = Stopped(@, op[c].read.played), ![c].pc = "save"]
  /\ UNCHANGED <<row, library, guard, generation, ops, turns>>

\* SavePlaybackState writes every column of the row.
Save(c) ==
  /\ op[c].pc = "save"
  /\ row' = [row EXCEPT ![op[c].item] = op[c].state]
  /\ op' = [op EXCEPT ![c] = NoOp]
  /\ UNCHANGED <<library, guard, generation, ops, turns>>

\* The store fails: the request answers 500 and leaves nothing.
StoreFails(c) ==
  /\ op[c].pc \in {"find", "save", "load", "resolve"} /\ op[c].kind # "nextup"
  /\ op' = [op EXCEPT ![c] = NoOp]
  /\ UNCHANGED <<row, library, guard, generation, ops, turns>>

-----------------------------------------------------------------------------
(* Lists, which resolve the rows they name against the library *)

\* writeResumeItems, writePositivePersonalItems and writeNextUpItems: the rows
\* are listed; next-up keeps them as they were then.
List(c, kind) ==
  LET ids == {i \in Items : InList(row[i], kind)} IN
  /\ IF ids = {} THEN Begin(c, NoOp)
     ELSE Begin(c, [NoOp EXCEPT !.pc = "fetch", !.kind = kind, !.left = ids,
                                !.read = row])
  /\ UNCHANGED <<row, library, guard, generation, turns>>

\* idResolutionResponseComplete: all of the items asked for that there are.
IsComplete(asked, found) == found = {i \in asked : library[i] # 0}

\* The library answers for those it still has, or for a part of them.  Next-up
\* takes a part for no proof that the others are gone, and asks only about rows
\* in use without metadata; the other lists take whatever is missing for gone.
Fetch(c) ==
  /\ op[c].pc = "fetch"
  /\ \E found \in SUBSET {i \in op[c].left : library[i] # 0} :
       op' = [op EXCEPT ![c].found = {<<i, library[i]>> : i \in found}, ![c].pc = "load",
                ![c].left =
                  IF op[c].kind # "nextup" THEN @
                  ELSE found \cup
                         {i \in @ : /\ IsComplete(@, found)
                                    /\ NeedsMetadata(op[c].read[i])
                                    /\ op[c].read[i].played \/ op[c].read[i].pos # 0}]
  /\ UNCHANGED <<row, library, guard, generation, ops, turns>>

FetchFails(c) ==
  /\ op[c].pc = "fetch"
  /\ op' = [op EXCEPT ![c] = NoOp]
  /\ UNCHANGED <<row, library, guard, generation, ops, turns>>

\* The next of the rows asked for, read again but by next-up.
Load(c) ==
  /\ op[c].pc = "load"
  /\ IF op[c].left = {} THEN op' = [op EXCEPT ![c] = NoOp]
     ELSE \E i \in op[c].left :
            op' = [op EXCEPT ![c].item = i, ![c].left = @ \ {i}, ![c].pc = "resolve",
                     ![c].state = IF op[c].kind = "nextup" THEN op[c].read[i]
                                  ELSE StateForItem(i)]
  /\ UNCHANGED <<row, library, guard, generation, ops, turns>>

\* SavePlaybackResolution writes the columns of the metadata alone; it makes
\* the row when there is none.
SavedResolution_Faulty(i, s) == s
SavedResolution(i, s) ==
  IF row[i] = Nothing THEN s
  ELSE [f \in DOMAIN s |-> IF f \in Metadata THEN s[f] ELSE row[i][f]]

Resolve(c) ==
  LET i == op[c].item
      present == \E p \in op[c].found : p[1] = i
      identity == IF present THEN (CHOOSE p \in op[c].found : p[1] = i)[2] ELSE 0 IN
  /\ op[c].pc = "resolve"
  /\ row' = [row EXCEPT
              ![i] = SavedResolution(i, Reconciled(op[c].state, present, identity))]
  /\ op' = [op EXCEPT ![c].pc = "load"]
  /\ UNCHANGED <<library, guard, generation, ops, turns>>

\* An item that the list's own query does not want is left as it is, and so is
\* the row that next-up finds unchanged, or fails to save.
Skip(c) ==
  /\ op[c].pc = "resolve"
  /\ op[c].kind = "nextup" \/ \E p \in op[c].found : p[1] = op[c].item
  /\ op' = [op EXCEPT ![c].pc = "load"]
  /\ UNCHANGED <<row, library, guard, generation, ops, turns>>

\* The library loses an item, or gets another one under its ID.
Librarian(i) ==
  /\ turns < MaxTurns /\ turns' = turns + 1
  /\ \E identity \in {0, 1, 2} \ {library[i]} : library' = [library EXCEPT ![i] = identity]
  /\ UNCHANGED <<row, op, guard, generation, ops>>

-----------------------------------------------------------------------------
Next ==
  \/ \E c \in Clients :
       \/ \E i \in Items : \/ InfoBegin(c, i)
                           \/ \E r \in Reports : Report(c, i, r)
                           \/ \E w \in Writes : Write(c, i, w)
       \/ InfoDenied(c) \/ InfoGranted(c) \/ InfoFailed(c)
       \/ Find(c) \/ Enrich(c) \/ Stop(c) \/ Save(c) \/ StoreFails(c)
       \/ \E kind \in Listed : List(c, kind)
       \/ Fetch(c) \/ FetchFails(c) \/ Load(c) \/ Resolve(c) \/ Skip(c)
  \/ \E i \in Items : Age(i) \/ Librarian(i)

Spec == Init /\ [][Next]_vars

-----------------------------------------------------------------------------
(* Properties *)

\* Rows and guards keep their types, and the generation is ahead of them all.
TypeOK ==
  /\ \A i \in Items : row[i] # Nothing =>
       /\ DOMAIN row[i] = DOMAIN Fresh /\ row[i].pos \in -1..Runtime
       /\ row[i].seen \in 0..2 /\ row[i].runtime \in {0, Runtime}
       /\ {row[i].played, row[i].fav, row[i].hide, row[i].orphan} \subseteq BOOLEAN
  /\ \A i \in Items : guard[i] # Nothing => guard[i].gen \in 1..generation

\* A column of the user changes by a request about that column, or by one that
\* overlapped another one's change: whoever resolves rows against the library,
\* at whatever moment and with whatever answer, undoes nothing a user did, and
\* neither does a write about something else (the stores write whole rows, but
\* SavePlaybackResolution only its own columns).
KeepsUserData ==
  \A i \in Items : row[i] # Nothing /\ row'[i] # row[i] =>
    \A f \in UserColumns : row'[i][f] # row[i][f] =>
      \E c \in Clients : /\ op[c].pc = "save" /\ op[c].item = i
                         /\ f \in Columns(op[c]) \/ op[c].read[f] # row[i][f]

\* A denial stays until it is old or a playback that began after it succeeds:
\* a success on its way when the denial was recorded does not take it back.
KeepsDenials ==
  \A i \in Items : guard[i] # Nothing /\ ~guard[i].old /\ guard'[i] = Nothing =>
    \E c \in Clients : op[c].pc = "info" /\ op[c].item = i /\ ~op[c].late

PlaybackSound == [][TypeOK /\ KeepsUserData /\ KeepsDenials]_vars
===============================================================================
