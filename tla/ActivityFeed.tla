----------------------------- MODULE ActivityFeed -----------------------------
(***************************************************************************)
(* The activity events: ActivityEventRing with its file activity.jsonl,    *)
(* the stream GET /api/events and the polls GET /api/activity and          *)
(* /api/client/activity (MasterControlRuntime.cpp).                        *)
(*                                                                         *)
(* append() numbers an event, writes a line and pushes it on the ring, all *)
(* under one mutex.  A start reads the file back and continues its         *)
(* numbers.  Readers keep a cursor: a poller the high-water mark it was    *)
(* given, a stream the same mark on the server and, when it reconnects,    *)
(* the last id it received.  One poll or tick is one step, as read() holds *)
(* the mutex and everything else is the reader's own.                      *)
(***************************************************************************)
EXTENDS Naturals, Sequences, FiniteSets, FiniteSetsExt

CONSTANTS
    Capacity,       \* kCapacity of the ring, kPersistedTailMax of the file
    FileMax,        \* lines that kFileBytesSoftMax holds
    ActEvents,      \* bound: the events of a run are 1 .. ActEvents
    Wanted,         \* events of the kind that filtered pollers ask for
    Reader,
    Stream,         \* readers of /api/events; the others poll
    Filtered,       \* pollers with ?kind=
    MaxCount,       \* each reader's cap on the events of one answer
    Fresh,          \* the cursor of a reader without a sinceId
    ActRestarts,    \* bound on restarts of the process
    ActFaults       \* the faults of a run, see AllActFaults

\* A failed append, a line that fails only when its stream is flushed at the
\* end, a restart after a failure, a crash inside a write, a failed rewrite, a
\* broken stream.
AllActFaults == {"append", "flush", "lossyRestart", "torn", "rewrite", "disconnect"}

ASSUME ActivityAssumption ==
    /\ Capacity \in Nat \ {0} /\ FileMax \in Nat /\ ActEvents \in Nat
    /\ Wanted \subseteq 1 .. ActEvents
    /\ Stream \subseteq Reader /\ Filtered \subseteq Reader \ Stream
    /\ MaxCount \in [Reader -> 1 .. Capacity]
    /\ Fresh \notin Nat
    /\ ActRestarts \in Nat /\ ActFaults \subseteq AllActFaults

VARIABLES
    ring,           \* ring_: the last events with their ids
    nextSequence,
    file,           \* the lines of activity.jsonl
    appendErrors,   \* persistedAppendErrorCount_
    cursor,         \* each reader's sinceId
    delivered,      \* history: the events a reader received, in order
    overrun,        \* history: events that left the ring before a reader came
    appended,       \* the events of the run so far
    restarts

actVars == << ring, nextSequence, file, appendErrors, cursor, delivered, overrun,
              appended, restarts >>

Entry == [id : 1 .. ActEvents, ev : 1 .. ActEvents]
\* Lines that do not parse; the first has no end of line either.
TornLine == [id |-> 0, ev |-> 0]
GarbledLine == [id |-> 0, ev |-> 1]
Line == Entry \cup {TornLine, GarbledLine}
NewestOf(s, n) == SubSeq(s, IF Len(s) > n THEN Len(s) - n + 1 ELSE 1, Len(s))
OldestOf(s, n) == SubSeq(s, 1, IF Len(s) > n THEN n ELSE Len(s))

\* The k-th of some places of a list, and what the list has there, in order.
Nth(places, k) == CHOOSE i \in places : Cardinality({j \in places : j <= i}) = k
Those(s, places) == [k \in 1 .. Cardinality(places) |-> s[Nth(places, k)]]

Parsed(lines) == Those(lines, {i \in DOMAIN lines : lines[i] \in Entry})

-----------------------------------------------------------------------------
(* Appending *)

\* An unfinished line swallows the one that is written behind it.
EndsTorn(lines) == lines # << >> /\ lines[Len(lines)] = TornLine
AddLine(lines, line) ==
    IF EndsTorn(lines) THEN [lines EXCEPT ![Len(lines)] = GarbledLine] ELSE Append(lines, line)
\* A write that stops inside the line.
CutLine(lines) == IF EndsTorn(lines) THEN lines ELSE Append(lines, TornLine)

\* (mutant) The rewrite leaves the file empty.
RewrittenEmpty == {<< >>}

\* rewriteFromRingLocked: the file becomes the ring, before the new event is
\* on it.  No failure of it is counted: the file may not open, or the disk may
\* be full after the truncation.
Rewritten ==
    {ring} \cup
    IF "rewrite" \in ActFaults
    THEN {file} \cup UNION {{OldestOf(ring, n), CutLine(OldestOf(ring, n))} : n \in 0 .. Len(ring)}
    ELSE {}

\* appendToDiskLocked
LinesBefore == IF Len(file) > FileMax THEN Rewritten ELSE {file}

Push(entry) ==
    /\ ring' = NewestOf(Append(ring, entry), Capacity)
    /\ nextSequence' = entry.id

\* An append whose line is written, or fails and is counted: the file may not
\* open, or a part of the line is written.  What the stream still buffers is
\* written after its state was tested, and that failure is not counted.
AppendEvent ==
    LET entry == [id |-> nextSequence + 1, ev |-> appended + 1] IN
    /\ appended < ActEvents /\ appended' = appended + 1
    /\ Push(entry)
    /\ \E before \in LinesBefore :
           \/ /\ file' = AddLine(before, entry)
              /\ UNCHANGED appendErrors
           \/ /\ "append" \in ActFaults
              /\ file' \in {before, CutLine(before)}
              /\ appendErrors' = appendErrors + 1
           \/ /\ "flush" \in ActFaults
              /\ file' \in {before, CutLine(before)}
              /\ UNCHANGED appendErrors
    /\ overrun' = [r \in Reader |->
           IF Len(ring) = Capacity THEN overrun[r] \cup {ring[1].ev} ELSE overrun[r]]
    /\ UNCHANGED << cursor, delivered, restarts >>

-----------------------------------------------------------------------------
(* Reading *)

\* (mutant) The events from the cursor on, the last one delivered included.
ReadFrom(since, n) ==
    IF since = Fresh THEN NewestOf(ring, n)
    ELSE OldestOf(Those(ring, {i \in DOMAIN ring : ring[i].id >= since}), n)

\* read: the newest events for a reader without a cursor, else the oldest ones
\* after it; with the number of the newest event as high-water mark.
Read(since, n) ==
    IF since = Fresh THEN NewestOf(ring, n)
    ELSE OldestOf(Those(ring, {i \in DOMAIN ring : ring[i].id > since}), n)

Times4(n) == IF 4 * n > Capacity THEN Capacity ELSE 4 * n

\* What a reader is sent: a filtered poller reads four times its cap and is
\* sent the first matches, up to the cap.
Matches(events) == Those(events, {i \in DOMAIN events : events[i].ev \in Wanted})
Answered(r) ==
    IF r \in Filtered
    THEN OldestOf(Matches(Read(cursor[r], Times4(MaxCount[r]))), MaxCount[r])
    ELSE Read(cursor[r], MaxCount[r])

Deliver(r, entries) ==
    delivered' = [delivered EXCEPT ![r] = @ \o entries]

\* A poller continues from the high-water mark it was given.
Poll(r) ==
    /\ r \notin Stream
    /\ Deliver(r, Answered(r))
    /\ cursor' = [cursor EXCEPT ![r] = nextSequence]
    /\ UNCHANGED << ring, nextSequence, file, appendErrors, overrun, appended, restarts >>

\* A stream moves its cursor when it found events, and on an empty first tick.
Tick(r) ==
    /\ r \in Stream
    /\ Deliver(r, Answered(r))
    /\ cursor' = IF Answered(r) # << >> \/ cursor[r] = Fresh
                 THEN [cursor EXCEPT ![r] = nextSequence] ELSE cursor
    /\ UNCHANGED << ring, nextSequence, file, appendErrors, overrun, appended, restarts >>

\* The connection of a stream breaks after k events of a tick; the client
\* reconnects with the last id it received as Last-Event-ID.
Resume(seq) == IF seq = << >> THEN Fresh ELSE seq[Len(seq)].id

Reconnect(r) ==
    /\ r \in Stream /\ "disconnect" \in ActFaults
    /\ \E k \in 0 .. Len(Answered(r)) :
        /\ Deliver(r, OldestOf(Answered(r), k))
        /\ cursor' = [cursor EXCEPT ![r] = Resume(delivered'[r])]
    /\ UNCHANGED << ring, nextSequence, file, appendErrors, overrun, appended, restarts >>

-----------------------------------------------------------------------------
(* Restart: setPersistencePath loads the file *)

MaxId(s) == IF s = << >> THEN 0 ELSE Max({s[i].id : i \in DOMAIN s})

\* (mutant) The numbers start again.
LoadedFromZero(lines) ==
    /\ ring' = NewestOf(Parsed(lines), Capacity)
    /\ nextSequence' = 0

Loaded(lines) ==
    /\ ring' = NewestOf(Parsed(lines), Capacity)
    /\ nextSequence' = MaxId(lines)

\* The process stops, perhaps inside the write of a line, and starts again; a
\* stream's client reconnects.
RestartFeed ==
    /\ restarts < ActRestarts /\ restarts' = restarts + 1
    /\ appendErrors = 0 \/ "lossyRestart" \in ActFaults
    /\ file' = file \/ ("torn" \in ActFaults /\ file' = CutLine(file))
    /\ Loaded(file')
    /\ appendErrors' = 0
    /\ cursor' = [r \in Reader |-> IF r \in Stream THEN Resume(delivered[r]) ELSE cursor[r]]
    /\ UNCHANGED << delivered, overrun, appended >>

-----------------------------------------------------------------------------

ActInit ==
    /\ ring = << >> /\ nextSequence = 0 /\ file = << >> /\ appendErrors = 0
    /\ cursor = [r \in Reader |-> Fresh]
    /\ delivered = [r \in Reader |-> << >>]
    /\ overrun = [r \in Reader |-> {}]
    /\ appended = 0 /\ restarts = 0

ActNext ==
    \/ AppendEvent \/ RestartFeed
    \/ \E r \in Reader : Poll(r) \/ Tick(r) \/ Reconnect(r)

\* Events keep being read: a poller polls and a stream ticks every second.
ActFairness == \A r \in Reader : WF_actVars(Poll(r) \/ Tick(r))

ActSpec == ActInit /\ [][ActNext]_actVars /\ ActFairness

-----------------------------------------------------------------------------
(* Properties *)

ActTypeOK ==
    /\ ring \in Seq(Entry) /\ Len(ring) <= Capacity
    /\ nextSequence \in 0 .. ActEvents /\ appended \in 0 .. ActEvents
    /\ file \in Seq(Line)
    /\ "rewrite" \in ActFaults \/ Len(file) <= FileMax + Capacity + 2
    /\ appendErrors \in Nat
    /\ cursor \in [Reader -> 0 .. ActEvents \cup {Fresh}]
    /\ delivered \in [Reader -> Seq(Entry)]
    /\ overrun \in [Reader -> SUBSET (1 .. ActEvents)]
    /\ restarts \in 0 .. ActRestarts

\* When GET /api/activity/health answers ok, the file ends with the events of
\* the ring, also after it was rewritten at its size limit: a start "sees the
\* prior process's tail events".
HealthOkMeansTailOnDisk ==
    appendErrors = 0 => NewestOf(Parsed(file), Len(ring)) = ring

\* No reader is sent an event twice or out of order, over polls, ticks, broken
\* connections and restarts.
EventsArriveInOrder ==
    \A r \in Reader : \A i, j \in 1 .. Len(delivered[r]) :
        i < j => delivered[r][i].ev < delivered[r][j].ev

\* A reader without filter or cap misses an event only if the ring dropped it
\* before the reader came: read(), "without missing intermediate events".
Unlimited == {r \in Reader \ Filtered : MaxCount[r] = Capacity}
Received(r) == {delivered[r][i].ev : i \in 1 .. Len(delivered[r])}
Behind(r) == {e \in 1 .. appended : cursor[r] # Fresh /\ \E i \in 1 .. Len(ring) :
                 ring[i].ev = e /\ ring[i].id > cursor[r]}
MissesOnlyOverruns ==
    \A r \in Unlimited : cursor[r] # Fresh =>
        1 .. appended \subseteq Received(r) \cup overrun[r] \cup Behind(r)

\* Every event is eventually received by such a reader, or overrun.
EventsArrive ==
    \A r \in Unlimited : \A e \in 1 .. ActEvents :
        appended >= e ~> e \in Received(r) \cup overrun[r]

\* The same of every reader: the stream resumes where it broke off ("losing
\* any events that landed between" is what the resume is there to prevent).
StreamMissesOnlyOverruns ==
    \A r \in Stream : cursor[r] # Fresh =>
        1 .. appended \subseteq Received(r) \cup overrun[r] \cup Behind(r)

=============================================================================
