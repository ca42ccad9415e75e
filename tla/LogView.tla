------------------------------- MODULE LogView -------------------------------
(***************************************************************************)
(* The theme's System Log and Kernel Log: view/openuf-theme/logs.js.          *)
(*                                                                          *)
(* LuCI writes the whole log into a textarea, at every poll and at every       *)
(* change of its filters.  Each write queues one redraw for the next frame,     *)
(* which walks the rows there are against the new lines, keeps those that are    *)
(* still there in order and builds the others.  The rows come in chunks.  The    *)
(* levels of the Kernel Log's lines are read apart from it, while the log goes    *)
(* on changing.                                                             *)
(***************************************************************************)
EXTENDS Integers, Sequences, FiniteSets, FiniteSetsExt, SequencesExt

CONSTANTS
  Lines,      \* the lines there are
  Parsed,     \* those in the form the view expects of a log line
  Level,      \* the level of each line: "err", "warn" or "info"
  Filters,    \* the sets of lines LuCI's filters may hide
  None,       \* no severity
  CHUNK,      \* rows to a chunk
  Log,        \* the log when the page is opened
  RingSize,   \* lines the log keeps
  MaxLogged,  \* bound on lines logged
  MaxViews    \* bound on textareas: LuCI's view drawn afresh

ASSUME LogViewAssumption ==
  /\ Parsed \subseteq Lines /\ Level \in [Lines -> {"err", "warn", "info"}]
  /\ CHUNK \in Nat \ {0} /\ Log \in Seq(Lines) /\ RingSize \in Nat /\ MaxLogged \in Nat /\ MaxViews \in Nat

VARIABLES
  ring,      \* the log itself, oldest first
  logged,    \* bound: lines logged
  kind,      \* "syslog" or "dmesg"
  value,     \* the textarea's text
  views,     \* bound: textareas so far
  on,        \* this.list is there, and the textarea's value is hooked
  mode,      \* data-uf-logs: "list", "raw", "off", or None without the attribute
  want,      \* this.want
  shown,     \* this.shown
  chunks,    \* the rows, in their chunks
  count,     \* this.count
  queued,    \* a frame will run update()
  levels,    \* this.levels: the lines whose level the last read found
  reading,   \* the read of the levels in flight, 1 or 2 by turns, or 0
  noLevels,  \* this.noLevels: a read failed
  built      \* history: rows built by the last update

log == <<ring, logged>>
luci == <<kind, value, views>>
drawn == <<chunks, count>>
reads == <<reading, noLevels>>
vars == <<log, luci, on, mode, want, shown, drawn, queued, levels, reads, built>>

-----------------------------------------------------------------------------
(* Rows, and what is counted of them                                        *)

\* row and setSeverity: a line of the System Log names its severity; one of the
\* Kernel Log has it once its level is known, and waits for it until then.
BuildRow(known, line) ==
  [line |-> line,
   sev |-> IF line \in (IF kind = "syslog" THEN Parsed ELSE known) THEN Level[line] ELSE None,
   asked |-> FALSE, inRead |-> FALSE]
Build(lines, i, j) ==
  LET new == SubSeq(lines, i, j) IN [k \in DOMAIN new |-> BuildRow(levels, new[k])]
Waiting(row) == kind = "dmesg" /\ row.sev = None

\* A sequence without the elements of a set.
Without(s, set) == FlattenSeq([i \in DOMAIN s |-> IF s[i] \in set THEN <<>> ELSE <<s[i]>>])

Zero == [total |-> 0, parsed |-> 0, err |-> 0, warn |-> 0]

\* tally: what rows count for; a continued line neither as an error nor as a warning.
Tally(rows) ==
  LET parsed == {i \in DOMAIN rows : rows[i].line \in Parsed} IN
  [total |-> Len(rows), parsed |-> Cardinality(parsed),
   err |-> Cardinality({i \in parsed : rows[i].sev = "err"}),
   warn |-> Cardinality({i \in parsed : rows[i].sev = "warn"})]
Counted(c, off, rows) ==
  [k \in DOMAIN c |-> c[k] - Tally(off)[k] + Tally(rows)[k]]

\* usable: half the lines at least must be in the form expected.
Usable(c) == c.total = 0 \/ c.parsed * 2 >= c.total

Rows == FlattenSeq(chunks)
LinesOf(rows) == [i \in DOMAIN rows |-> rows[i].line]

-----------------------------------------------------------------------------
(* The rows to the new lines                                                *)

\* Rows in chunks of CHUNK, the last one what is left.
Cut(rows) ==
  [k \in 1..((Len(rows) + CHUNK - 1) \div CHUNK) |->
    SubSeq(rows, (k - 1) * CHUNK + 1, Min({k * CHUNK, Len(rows)}))]

\* append: the last chunk is filled up, then there are new ones.
Filled(cs, rows) ==
  IF cs = <<>> \/ Len(Last(cs)) >= CHUNK THEN cs \o Cut(rows)
  ELSE LET room == Min({CHUNK - Len(Last(cs)), Len(rows)}) IN
       Front(cs) \o <<Last(cs) \o SubSeq(rows, 1, room)>>
         \o Cut(SubSeq(rows, room + 1, Len(rows)))

\* settle: a chunk grown to more than twice its length is cut.
Unsplit(cs) == cs   \* mutant: never cut
Settled(cs) ==
  FlattenSeq([c \in DOMAIN cs |-> IF Len(cs[c]) > 2 * CHUNK THEN Cut(cs[c]) ELSE <<cs[c]>>])

\* The first place of a line from index j on, or 0.
FirstOfAll(lines, line, j) ==   \* mutant: looked for from the start each time
  LET at == {i \in DOMAIN lines : lines[i] = line} IN IF at = {} THEN 0 ELSE Min(at)
FirstAt(lines, line, j) ==
  LET at == {i \in j..Len(lines) : lines[i] = line} IN IF at = {} THEN 0 ELSE Min(at)

\* A row is kept if its line is found, unless the line of the row after it comes
\* first: then this one moved.
KeepsFound(lines, rows, i, j) ==   \* mutant: a row that moved is kept as well
  FirstAt(lines, rows[i].line, j) # 0
Keeps(lines, rows, i, j) ==
  LET k == FirstAt(lines, rows[i].line, j)
      later == IF k > j /\ i < Len(rows) THEN FirstAt(lines, rows[i + 1].line, j) ELSE 0
  IN k # 0 /\ ~(later >= j /\ later < k)

\* The place in the new lines that the walk has come to after each row.
After(lines, rows, i, j) ==
  IF Keeps(lines, rows, i, j) THEN FirstAt(lines, rows[i].line, j) + 1 ELSE j
Walked(lines, rows) ==
  LET place[i \in 0..Len(rows)] ==
        IF i = 0 THEN 1 ELSE After(lines, rows, i, place[i - 1])
  IN place

\* sync: a row that is not kept goes, and its chunk with its last row; the lines
\* before a kept row that have none get theirs above it, in its chunk, and those
\* after the last one at the end.
Sync(lines) ==
  LET rows == Rows
      place == Walked(lines, rows)
      Kept(i) == Keeps(lines, rows, i, place[i - 1])
      Above(i) == IF Kept(i) THEN Build(lines, place[i - 1], place[i] - 2) ELSE <<>>
      Before(c) == Len(FlattenSeq(SubSeq(chunks, 1, c - 1)))
      piece == [i \in DOMAIN rows |-> IF Kept(i) THEN Above(i) \o <<rows[i]>> ELSE <<>>]
      Synced(c) == FlattenSeq([k \in DOMAIN chunks[c] |-> piece[Before(c) + k]])
      rest == Build(lines, place[Len(rows)], Len(lines))
      fresh == FlattenSeq([i \in DOMAIN rows |-> Above(i)]) \o rest
      gone == FlattenSeq([i \in DOMAIN rows |-> IF Kept(i) THEN <<>> ELSE <<rows[i]>>])
  IN IF lines = <<>> THEN [chunks |-> <<>>, count |-> Zero, built |-> 0]
     ELSE [chunks |-> Settled(Filled(Without([c \in DOMAIN chunks |-> Synced(c)], {<<>>}), rest)),
           count |-> Counted(count, gone, fresh), built |-> Len(fresh)]

-----------------------------------------------------------------------------
(* The levels                                                               *)

MapRows(cs, Op(_)) == [c \in DOMAIN cs |-> [k \in DOMAIN cs[c] |-> Op(cs[c][k])]]

\* readLevels: the rows that wait and that no read has answered are asked for, one
\* read at a time.
Asking(row) == Waiting(row) /\ ~row.asked
AskingOnce(cs) ==   \* mutant: the levels are read once
  \A c \in DOMAIN cs : \A k \in DOMAIN cs[c] : Asking(cs[c][k])
SomeAsking(cs) == \E c \in DOMAIN cs : \E k \in DOMAIN cs[c] : Asking(cs[c][k])
Asked(cs) == MapRows(cs, LAMBDA row : [row EXCEPT !.inRead = Asking(row)])

ReadLevels(cs) ==
  IF reading = 0 /\ ~noLevels /\ SomeAsking(cs)
  THEN chunks' = Asked(cs) /\ reading' = 1
  ELSE chunks' = cs /\ reading' = reading

\* What a read found, for the rows that wait; those it was for are not asked
\* for again.
Answered(cs, known) ==
  MapRows(cs, LAMBDA row :
    [row EXCEPT !.sev = IF Waiting(row) /\ row.line \in known THEN Level[row.line] ELSE @,
                !.asked = @ \/ row.inRead, !.inRead = FALSE])

\* The counts of the rows that a read changed: off as they were, on as they are.
NotRecounted(c, old, new) == c   \* mutant: a level found changes no count
Recounted(c, old, new) ==
  LET Changed(rows) == FlattenSeq([i \in DOMAIN old |->
                         IF old[i].sev = new[i].sev THEN <<>> ELSE <<rows[i]>>])
  IN Counted(c, Changed(old), Changed(new))

-----------------------------------------------------------------------------
\* What LuCI writes: the log without the lines its filters hide, either way round.
Texts == {LET t == Without(ring, f) IN IF r THEN Reverse(t) ELSE t :
            f \in Filters, r \in BOOLEAN}

\* attach: nothing is hooked, and the text is left alone, unless the log parses.
Attached(text) ==
  LET rows == [i \in DOMAIN text |-> BuildRow(levels, text[i])]
      c == Tally(rows)
  IN [on |-> Usable(c),
      chunks |-> IF Usable(c) THEN Settled(Filled(<<>>, rows)) ELSE <<>>,
      count |-> IF Usable(c) THEN c ELSE Zero]

Init ==
  /\ ring = Log /\ logged = 0
  /\ kind \in {"syslog", "dmesg"} /\ value = <<>> /\ views = 1
  /\ on = TRUE /\ want \in {"list", "raw"} /\ mode = want
  /\ shown = <<>> /\ chunks = <<>> /\ count = Zero
  /\ queued = FALSE /\ levels = {} /\ reading = 0 /\ noLevels = FALSE /\ built = 0

\* The system logs a line.
Logs(l) ==
  /\ logged < MaxLogged /\ logged' = logged + 1
  /\ ring' = LET r == Append(ring, l) IN IF Len(r) > RingSize THEN Tail(r) ELSE r
  /\ UNCHANGED <<luci, on, mode, want, shown, drawn, queued, levels, reads, built>>

\* LuCI writes the text: the hook queues a frame, once.
Writes(text) ==
  /\ value # text /\ value' = text
  /\ queued' = (queued \/ on)
  /\ UNCHANGED <<log, kind, views, on, mode, want, shown, drawn, levels, reads, built>>

\* The list, or the textarea while the log does not parse.
ModeFor(c) == IF Usable(c) THEN want ELSE "off"

\* The frame: update.
Frame ==
  /\ queued /\ queued' = FALSE
  /\ IF ~on \/ value = shown
     THEN UNCHANGED <<mode, shown, drawn, reading, built>>
     ELSE LET s == Sync(value) IN
          /\ shown' = value
          /\ count' = s.count /\ built' = s.built
          /\ mode' = ModeFor(s.count)
          /\ ReadLevels(s.chunks)
  /\ UNCHANGED <<log, luci, on, want, levels, noLevels>>

\* The "List" and "Raw" buttons, which are not there when the log does not parse.
Press(m) ==
  /\ on /\ mode \in {"list", "raw"} /\ m # want
  /\ want' = m /\ mode' = m
  /\ UNCHANGED <<log, luci, on, shown, drawn, queued, levels, reads, built>>

\* LuCI draws its view afresh: a new textarea, and attach on it.  A frame that was
\* queued for the old one still runs.
Redrawn(text) ==
  LET a == Attached(text) IN
  /\ views < MaxViews /\ views' = views + 1
  /\ value' = text /\ on' = a.on
  /\ shown' = IF a.on THEN text ELSE shown
  /\ mode' = IF a.on THEN want ELSE None
  /\ count' = a.count
  /\ ReadLevels(a.chunks)
  /\ UNCHANGED <<log, kind, want, queued, levels, noLevels, built>>

\* The read of the levels is answered from the log as it is now, or fails; either
\* way it asks again for the rows that have come to wait meanwhile.
ReadEnds(known) ==
  LET cs == Answered(chunks, known) IN
  /\ reading # 0
  /\ levels' = known
  /\ IF ~on
     THEN reading' = 0 /\ UNCHANGED drawn
     ELSE /\ count' = Recounted(count, Rows, FlattenSeq(cs))
          /\ IF ~noLevels' /\ SomeAsking(cs)
             THEN chunks' = Asked(cs) /\ reading' = 3 - reading
             ELSE chunks' = cs /\ reading' = 0
  /\ UNCHANGED <<log, luci, on, mode, want, shown, queued, built>>

ReadAnswered == noLevels' = noLevels /\ ReadEnds(Range(ring))
ReadFails == noLevels' = TRUE /\ ReadEnds(levels)

Next ==
  \/ \E l \in Lines : Logs(l)
  \/ \E text \in Texts : Writes(text) \/ Redrawn(text)
  \/ Frame
  \/ \E m \in {"list", "raw"} : Press(m)
  \/ ReadAnswered \/ ReadFails

Spec == Init /\ [][Next]_vars

\* The browser runs the frame, and the read ends one way or the other.
\* (Frame alone takes queued back, and ReadEnds alone ends the read in flight.)
FairSpec ==
  /\ Spec
  /\ WF_queued(queued /\ queued' = FALSE)
  /\ WF_reading(reading # 0 /\ reading' \in {0, 3 - reading})

-----------------------------------------------------------------------------
\* With no frame to come, the rows are the log as LuCI has written it, line by
\* line, whatever lines repeat, moved, were filtered or came back.
RowsAreTheLog == on /\ ~queued => LinesOf(Rows) = value

\* The counts, kept line by line as rows are built, dropped and given a severity,
\* are those of the rows there are.
CountsAreTheRows == count = Tally(Rows)

\* No chunk is left empty or grows past twice its length.
ChunksFit == \A c \in DOMAIN chunks : Len(chunks[c]) \in 1..(2 * CHUNK)

\* A poll that drops the oldest lines and adds some touches just those rows, whatever
\* lines repeat, as long as none of the dropped lines but the last is there again.  (Two
\* that come again, in their order, are kept where they are now, and all in between is
\* built.)
PollTouchesOnlyTheNew ==
  [][\A d \in 0..Len(shown) :
       LET kept == SubSeq(shown, d + 1, Len(shown)) IN
       /\ on /\ on' /\ shown' # shown /\ views' = views
       /\ kept # <<>> /\ Len(kept) <= Len(shown') /\ SubSeq(shown', 1, Len(kept)) = kept
       /\ Range(SubSeq(shown, 1, d - 1)) \cap Range(shown') = {}
       => built' <= Len(shown') - Len(kept)]_vars

\* A row that waits for its level is asked for, or it gets one, or it goes: none is
\* forgotten because a read was in flight when it came.
Forgotten ==
  on /\ \E i \in DOMAIN Rows : Asking(Rows[i]) /\ ~Rows[i].inRead
NoRowForgotten == Forgotten ~> (noLevels \/ ~Forgotten)
=============================================================================
