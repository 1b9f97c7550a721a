------------------------------ MODULE WorkerTools ------------------------------
(***************************************************************************)
(* Worker processes of mcos-baseline-tools-worker: the loop that reads a   *)
(* request and answers it, the tools that run a child process, the two     *)
(* stores that several workers share as files, and the watch table that    *)
(* one worker keeps in memory.                                             *)
(*                                                                         *)
(* A store is read whole, changed and written back.  The mutex around that *)
(* belongs to the process; the file belongs to every worker of every pool  *)
(* that uses it.                                                           *)
(***************************************************************************)
EXTENDS WorkerToolTables, FiniteSets, Sequences

CONSTANTS
    Worker,         \* worker processes
    Pools,          \* the assignments of specializations to workers that are used
    WatchClient,    \* clients that watch the directory
    WkWrites,       \* bound on the calls that change a store
    WkVersions,     \* bound on the versions of the watched file
    WkKills,        \* bound on workers killed
    WkFaults        \* the faults of a run, see AllWkFaults

\* Killed between truncation and write; a file that cannot be opened; output
\* that is not UTF-8; two versions of a file with one time stamp and size.
AllWkFaults == {"killInWrite", "open", "text", "stamp"}

ASSUME WorkerToolsAssumption ==
    /\ Pools \subseteq [Worker -> Specialization]
    /\ WkWrites \in Nat /\ WkVersions \in Nat \ {0} /\ WkKills \in Nat
    /\ WkFaults \subseteq AllWkFaults

VARIABLES
    poolOf,     \* each worker's specialization, its --specialization argument
    worker,     \* each worker: its place, its call, its copy of a store
    answered,   \* each worker's last call and its answer
    store,      \* the files persistent-context.json and knowledge-graph.json
    promised,   \* history: what the acknowledged calls make of each file
    watch,      \* each worker's watch table: the snapshot of the file
    version,    \* the watched file; 0 while it does not exist
    view,       \* history: what each client knows of the file
    counts      \* bounds: writes, versions, kills

wkVars == << poolOf, worker, answered, store, promised, watch, version, view, counts >>

Context == "persistent-context.json"
Graph == "knowledge-graph.json"
Node == {"n1", "n2"}
Key == {"k", "connection"}
Item(f) == IF f = Context THEN Key \X (1 .. WkWrites)
           ELSE {<< n >> : n \in Node} \cup (Node \X Node)

NoCall == [tool |-> "none", lacks |-> "none", ill |-> "none", fits |-> TRUE,
           a |-> "none", b |-> "none", n |-> 0]

-----------------------------------------------------------------------------
(* tools/call up to the handler *)

Bound == {"test.run", "build.run", "lint.run"}
Bridged == {"clients.list", "metrics.host", "metrics.gateway", "sentinel.list_rules",
            "sentinel.recent_activity", "sentinel.health_summary", "architect.list_phases",
            "architect.discovery_doc", "forge.list_pools", "scribe.version_state",
            "recon.dashboard", "recon.diagnostics", "recon.gateway_tools",
            "nexus.health_summary", "nexus.discovery", "nexus.list_clients",
            "watchtower.health_summary", "watchtower.gateway_status",
            "watchtower.activity_tail"}
RunsProcess == Bound \cup Bridged \cup {"shell.exec", "git.run", "search.grep", "repl.exec"}
ChangesStore == {"ctx.set", "ctx.delete", "db.set_connection_string", "kg.entity.upsert",
                 "kg.relation.create", "kg.delete_entity"}
Watches == {"watch.add", "watch.poll", "watch.remove"}

\* What the handler does with a call: an argument it insists on is missing or
\* of the wrong type, the framework is not one it knows, or value() throws.
AnswerTo(s, c) ==
    IF \A h \in Served(s) : h.tool # c.tool THEN "notFound"
    ELSE LET h == CHOOSE x \in Served(s) : x.tool = c.tool IN
         CASE c.lacks \in h.insists -> "invalid"
           [] c.ill \in h.typed     -> "dies"
           [] OTHER                 -> IF c.tool \in Bound /\ ~c.fits THEN "invalid" ELSE "result"

\* A call that keeps to the schema tools/list shows.
Conforming(s, c) ==
    /\ \E l \in Listed(s) : l.tool = c.tool /\ c.lacks \notin l.required
    /\ c.ill = "none" /\ c.fits

Doing(w, pc) == worker[w].pc = pc
Answers(w, c, a) == answered' = [answered EXCEPT ![w] = [call |-> c, answer |-> a]]
IdleTool == [pc |-> "reading", call |-> NoCall, copy |-> {}]

\* Calls whose answer needs nothing but the arguments.
Answer(w, c) ==
    LET v == AnswerTo(poolOf[w], c) IN
    /\ Doing(w, "reading")
    /\ v = "result" => c.tool \notin RunsProcess \cup ChangesStore \cup Watches
    /\ Answers(w, c, v)
    /\ worker' = IF v = "dies" THEN [worker EXCEPT ![w].pc = "dead"] ELSE worker
    /\ UNCHANGED << poolOf, store, promised, watch, version, view, counts >>

\* The other messages: a line that is no JSON gets an error, one that is no
\* object, or whose method is no string, ends the worker.
Envelope(w) ==
    /\ Doing(w, "reading")
    /\ \/ \E a \in {"result", "parseError", "notFound", "silence"} : Answers(w, NoCall, a)
          /\ UNCHANGED worker
       \/ /\ Answers(w, NoCall, "dies")
          /\ worker' = [worker EXCEPT ![w].pc = "dead"]
    /\ UNCHANGED << poolOf, store, promised, watch, version, view, counts >>

-----------------------------------------------------------------------------
(* runProcessCaptured *)

Run(w, c) ==
    /\ Doing(w, "reading") /\ c.tool \in RunsProcess
    /\ AnswerTo(poolOf[w], c) = "result"
    /\ worker' = [worker EXCEPT ![w] = [pc |-> "running", call |-> c, copy |-> {}]]
    /\ UNCHANGED << poolOf, answered, store, promised, watch, version, view, counts >>

\* The child exits, cannot be started, or is terminated at the timeout: each is
\* a result.  dump() throws on captured output that is not UTF-8, as it may be
\* where it was cut at 1 MB.
RunEnds(w) ==
    /\ Doing(w, "running")
    /\ \/ Answers(w, worker[w].call, "result") /\ worker' = [worker EXCEPT ![w] = IdleTool]
       \/ /\ "text" \in WkFaults
          /\ Answers(w, worker[w].call, "dies")
          /\ worker' = [worker EXCEPT ![w] = [IdleTool EXCEPT !.pc = "dead"]]
    /\ UNCHANGED << poolOf, store, promised, watch, version, view, counts >>

-----------------------------------------------------------------------------
(* The stores *)

FileOf(c) == IF c.tool \in {"ctx.set", "ctx.delete", "db.set_connection_string"} THEN Context
             ELSE Graph

WithoutKey(items, k) == {i \in items : i[1] # k}
WithoutEntity(items, n) == {i \in items : \A k \in 1 .. Len(i) : i[k] # n}

\* persistentCtxSet, persistentCtxDelete, kgEntityUpsert, kgRelationCreate (which
\* does not look for the entities) and kgDeleteEntity, as changes of the items.
Applied(c, items) ==
    CASE c.tool \in {"ctx.set", "db.set_connection_string"} ->
             WithoutKey(items, c.a) \cup {<< c.a, c.n >>}
      [] c.tool = "ctx.delete"         -> WithoutKey(items, c.a)
      [] c.tool = "kg.delete_entity"   -> WithoutEntity(items, c.a)
      [] c.tool = "kg.entity.upsert"   -> items \cup {<< c.a >>}
      [] c.tool = "kg.relation.create" -> items \cup {<< c.a, c.b >>}

\* (mutant) A set that only replaces a value writes nothing.
SavesIfLarger(c, items) == Cardinality(Applied(c, items)) # Cardinality(items)

\* A deletion of no key, and a relation that exists, write nothing.
Saves(c, items) ==
    c.tool \in {"ctx.delete", "kg.relation.create"} => Applied(c, items) # items

TornStore == [whole |-> FALSE, items |-> {}]

\* A file that does not parse counts as empty.
Loaded(f) == IF store[f].whole THEN store[f].items ELSE {}

Load(w, c) ==
    LET f == FileOf(c)
        done == ~Saves(c, Loaded(f)) IN
    /\ Doing(w, "reading") /\ c.tool \in ChangesStore
    /\ AnswerTo(poolOf[w], c) = "result"
    /\ counts.writes < WkWrites
    /\ counts' = [counts EXCEPT !.writes = @ + 1]
    /\ IF done
       THEN /\ Answers(w, c, "result")
            /\ promised' = [promised EXCEPT ![f] = Applied(c, @)]
            /\ UNCHANGED worker
       ELSE /\ worker' = [worker EXCEPT ![w] =
                   [pc |-> "open", call |-> c, copy |-> Applied(c, Loaded(f))]]
            /\ UNCHANGED << answered, promised >>
    /\ UNCHANGED << poolOf, store, watch, version, view >>

\* The file is opened with trunc.  One that cannot be opened is left, and the
\* call answers as if it had been written.
Acknowledge(w) ==
    LET c == worker[w].call IN
    /\ Answers(w, c, "result")
    /\ promised' = [promised EXCEPT ![FileOf(c)] = Applied(c, @)]
    /\ worker' = [worker EXCEPT ![w] = IdleTool]

Open(w) ==
    /\ Doing(w, "open")
    /\ \/ /\ store' = [store EXCEPT ![FileOf(worker[w].call)] = TornStore]
          /\ worker' = [worker EXCEPT ![w].pc = "write"]
          /\ UNCHANGED << answered, promised >>
       \/ "open" \in WkFaults /\ Acknowledge(w) /\ UNCHANGED store
    /\ UNCHANGED << poolOf, watch, version, view, counts >>

Write(w) ==
    /\ Doing(w, "write")
    /\ store' = [store EXCEPT ![FileOf(worker[w].call)] =
                     [whole |-> TRUE, items |-> worker[w].copy]]
    /\ Acknowledge(w)
    /\ UNCHANGED << poolOf, watch, version, view, counts >>

-----------------------------------------------------------------------------
(* The watch table *)

NoWatch == [on |-> FALSE, snapshot |-> 0]
Reply(w, c) == Answers(w, c, "result") /\ UNCHANGED << poolOf, worker, store, promised, version, counts >>
Watching(w, c, tool) == Doing(w, "reading") /\ c.tool = tool /\ AnswerTo(poolOf[w], c) = "result"

\* The client that adds a watch starts from the directory as it is.
WatchAdd(w, c, k) ==
    /\ Watching(w, c, "watch.add")
    /\ watch' = [watch EXCEPT ![w] = [on |-> TRUE, snapshot |-> version]]
    /\ view' = [view EXCEPT ![k] = [fresh |-> TRUE, known |-> version]]
    /\ Reply(w, c)

\* Snapshots are compared by size and time of the last write.
Differs(a, b) == a # b /\ ("stamp" \in WkFaults => a = 0 \/ b = 0)

\* (mutant) The snapshot is kept.
WatchPollKeeps(w, c, k) ==
    /\ Watching(w, c, "watch.poll") /\ watch[w].on
    /\ view' = [view EXCEPT ![k] =
           [fresh |-> TRUE, known |-> IF Differs(watch[w].snapshot, version) THEN version
                                      ELSE @.known]]
    /\ UNCHANGED watch
    /\ Reply(w, c)

\* A poll of the worker that has the watch reports a change and replaces the
\* snapshot.
WatchPoll(w, c, k) ==
    /\ Watching(w, c, "watch.poll") /\ watch[w].on
    /\ view' = [view EXCEPT ![k] =
           [fresh |-> TRUE, known |-> IF Differs(watch[w].snapshot, version) THEN version
                                      ELSE @.known]]
    /\ watch' = [watch EXCEPT ![w].snapshot = version]
    /\ Reply(w, c)

\* Without the watch it answers with an empty list.
WatchPollNothing(w, c, k) ==
    /\ Watching(w, c, "watch.poll") /\ ~watch[w].on
    /\ view' = [view EXCEPT ![k].fresh = FALSE]
    /\ UNCHANGED watch
    /\ Reply(w, c)

WatchRemove(w, c) ==
    /\ Watching(w, c, "watch.remove")
    /\ watch' = [watch EXCEPT ![w] = NoWatch]
    /\ UNCHANGED view
    /\ Reply(w, c)

\* Somebody writes or removes the file.
FileChanges ==
    /\ counts.versions < WkVersions
    /\ counts' = [counts EXCEPT !.versions = @ + 1]
    /\ version' \in {0, counts'.versions} \ {version}
    /\ view' = [k \in WatchClient |-> [view[k] EXCEPT !.fresh = FALSE]]
    /\ UNCHANGED << poolOf, worker, answered, store, promised, watch >>

-----------------------------------------------------------------------------
(* The process *)

\* The supervisor kills the worker, or it crashes.
KillWorker(w) ==
    /\ counts.kills < WkKills /\ ~Doing(w, "dead")
    /\ Doing(w, "write") => "killInWrite" \in WkFaults
    /\ counts' = [counts EXCEPT !.kills = @ + 1]
    /\ worker' = [worker EXCEPT ![w] = [IdleTool EXCEPT !.pc = "dead"]]
    /\ UNCHANGED << poolOf, answered, store, promised, watch, version, view >>

\* The supervisor starts another, with an empty watch table.
Respawn(w) ==
    /\ Doing(w, "dead")
    /\ worker' = [worker EXCEPT ![w] = IdleTool]
    /\ answered' = [answered EXCEPT ![w] = [call |-> NoCall, answer |-> "none"]]
    /\ watch' = [watch EXCEPT ![w] = NoWatch]
    /\ UNCHANGED << poolOf, store, promised, version, view, counts >>

-----------------------------------------------------------------------------

\* The calls clients make: to the schema, without an argument that is required
\* or insisted on, or with an optional one of the wrong type.
Calls(s) ==
    LET offered == {l.tool : l \in Listed(s)} \cup {h.tool : h \in Served(s)}
        insists(t) == UNION ({l.required : l \in {x \in Listed(s) : x.tool = t}}
                             \cup {h.insists : h \in {x \in Served(s) : x.tool = t}})
        typed(t) == UNION {h.typed : h \in {x \in Served(s) : x.tool = t}}
        asked(t) == [NoCall EXCEPT !.tool = t]
    IN  UNION {{asked(t)} \cup {[asked(t) EXCEPT !.lacks = x] : x \in insists(t)}
               \cup {[asked(t) EXCEPT !.ill = x] : x \in typed(t)}
               \cup {[asked(t) EXCEPT !.fits = (t \notin Bound)]} : t \in offered}

\* The values a call that changes a store gets: a key or entity, a second
\* entity, and what makes the value its own.
Values(tool) ==
    CASE tool \in {"ctx.set", "ctx.delete"} -> Key \X {"none"} \X {counts.writes + 1}
      [] tool = "db.set_connection_string" -> {"connection"} \X {"none"} \X {counts.writes + 1}
      [] tool \in {"kg.entity.upsert", "kg.delete_entity"} -> Node \X {"none"} \X {0}
      [] tool = "kg.relation.create" -> Node \X Node \X {0}

Filled(c) == {[c EXCEPT !.a = v[1], !.b = v[2], !.n = v[3]] : v \in Values(c.tool)}

WkInit ==
    /\ poolOf \in Pools
    /\ worker = [w \in Worker |-> IdleTool]
    /\ answered = [w \in Worker |-> [call |-> NoCall, answer |-> "none"]]
    /\ store = [f \in {Context, Graph} |-> [whole |-> TRUE, items |-> {}]]
    /\ promised = [f \in {Context, Graph} |-> {}]
    /\ watch = [w \in Worker |-> NoWatch]
    /\ version = 1
    /\ view = [k \in WatchClient |-> [fresh |-> FALSE, known |-> 0]]
    /\ counts = [writes |-> 0, versions |-> 1, kills |-> 0]

Serve(w) ==
    \/ \E c \in Calls(poolOf[w]) :
        \/ Answer(w, c) \/ Run(w, c) \/ WatchRemove(w, c)
        \/ c.tool \in ChangesStore /\ \E filled \in Filled(c) : Load(w, filled)
        \/ \E k \in WatchClient : WatchAdd(w, c, k) \/ WatchPoll(w, c, k)
                                  \/ WatchPollNothing(w, c, k)
    \/ Envelope(w)
    \/ RunEnds(w) \/ Open(w) \/ Write(w)

WkNext ==
    \/ \E w \in Worker : Serve(w) \/ KillWorker(w) \/ Respawn(w)
    \/ FileChanges

WkSpec == WkInit /\ [][WkNext]_wkVars

-----------------------------------------------------------------------------
(* Properties *)

WkTypeOK ==
    /\ \A w \in Worker :
        /\ worker[w].pc \in {"reading", "running", "open", "write", "dead"}
        /\ worker[w].pc \in {"running", "open", "write"} <=> worker[w].call # NoCall
        /\ worker[w].pc \in {"open", "write"} =>
               worker[w].copy \subseteq Item(FileOf(worker[w].call))
        /\ answered[w].answer \in {"none", "result", "invalid", "notFound", "dies",
                                   "parseError", "silence"}
    /\ \A f \in {Context, Graph} : store[f].items \subseteq Item(f) /\ promised[f] \subseteq Item(f)
    /\ watch \in [Worker -> [on : BOOLEAN, snapshot : 0 .. WkVersions]]
    /\ version \in 0 .. WkVersions
    /\ view \in [WatchClient -> [fresh : BOOLEAN, known : 0 .. WkVersions]]

\* Every tool that tools/list shows is served, with the arguments its schema
\* requires and no others: dispatchToolCall and the catalogs are two tables
\* kept by hand ("Call tools/list for the supported set").
ListedToolsAreServed ==
    \A w \in Worker :
        Conforming(poolOf[w], answered[w].call) => answered[w].answer \in {"none", "result"}

\* A store file holds what the acknowledged calls made of it, in the order they
\* were acknowledged.
StoresAreSerial ==
    \A f \in {Context, Graph} :
        (\A w \in Worker : worker[w].pc \in {"open", "write"} => FileOf(worker[w].call) # f) =>
            store[f] = [whole |-> TRUE, items |-> promised[f]]

\* A client that follows the events of its watch knows the file as of its last
\* poll: watch.poll, "changes since the last snapshot".
WatchersAreUpToDate ==
    \A k \in WatchClient : view[k].fresh => view[k].known = version

=============================================================================
