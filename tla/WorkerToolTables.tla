--------------------------- MODULE WorkerToolTables ---------------------------
(***************************************************************************)
(* The two tables of mcos-baseline-tools-worker that have to agree: what   *)
(* tools/list offers in each specialization, with the arguments its schema *)
(* requires, and what dispatchToolCall serves, with the arguments it       *)
(* insists on and the optional ones it reads with a typed default.         *)
(***************************************************************************)
EXTENDS Naturals

\* (listed) a tool and the arguments its schema requires
Tool(name, required) == {[tool |-> name, required |-> required]}

\* (served) what the handler tests for, and what it reads with value(): an
\* argument of another type makes value() throw.
Handler(name, insists, typed) == {[tool |-> name, insists |-> insists, typed |-> typed]}

-----------------------------------------------------------------------------
(* tools/list *)

baselineToolsCatalog == Tool("mcos.echo", {"text"}) \cup Tool("mcos.now", {})
                        \cup Tool("mcos.host_info", {}) \cup Tool("mcos.add", {"a", "b"})
terminalShellCatalog == Tool("shell.exec", {"command"})
localGitCatalog == Tool("git.run", {"args"})
clientTrackerCatalog == Tool("clients.list", {})
metricsCatalog == Tool("metrics.host", {}) \cup Tool("metrics.gateway", {})
fileSearchCatalog == Tool("search.grep", {"pattern"})
codeExecutionReplCatalog == Tool("repl.exec", {"language", "code"})
localTestRunnerCatalog == Tool("test.run", {"framework"})
localBuildToolCatalog == Tool("build.run", {"tool"})
localLinterCatalog == Tool("lint.run", {"tool"})
localIndexerCatalog == Tool("index.list_files", {"path"})
persistentContextCatalog == Tool("ctx.set", {"key", "value"}) \cup Tool("ctx.get", {"key"})
                            \cup Tool("ctx.list", {}) \cup Tool("ctx.delete", {"key"})
knowledgeGraphCatalog ==
    Tool("kg.entity.upsert", {"name", "entityType"})
    \cup Tool("kg.relation.create", {"from", "to", "relationType"})
    \cup Tool("kg.search", {"query"}) \cup Tool("kg.read_graph", {})
    \cup Tool("kg.delete_entity", {"name"})
fileWatcherCatalog == Tool("watch.add", {"path"}) \cup Tool("watch.poll", {})
                      \cup Tool("watch.list", {}) \cup Tool("watch.remove", {"path"})
keyboardMouseControlCatalog ==
    Tool("input.keyboard", {"text"}) \cup Tool("input.click", {"x", "y"})
    \cup Tool("input.move", {"x", "y"}) \cup Tool("input.scroll", {})
screenCaptureVisionCatalog == Tool("screen.capture", {}) \cup Tool("screen.size", {})
desktopControlCatalog ==
    Tool("desktop.list_windows", {}) \cup Tool("desktop.focus", {"titleSubstring"})
    \cup Tool("desktop.launch", {"path"}) \cup Tool("desktop.foreground", {})
computerUseCatalog ==
    Tool("computer.screenshot", {}) \cup Tool("computer.click", {"x", "y"})
    \cup Tool("computer.type", {"text"}) \cup Tool("computer.move_mouse", {"x", "y"})
    \cup Tool("computer.window_list", {})
sentinelCatalog == Tool("sentinel.list_rules", {}) \cup Tool("sentinel.recent_activity", {})
                   \cup Tool("sentinel.health_summary", {})
architectCatalog == Tool("architect.list_phases", {}) \cup Tool("architect.discovery_doc", {})
                    \cup Tool("architect.draft_adr", {"title"})
forgeCatalog == Tool("forge.list_pools", {}) \cup Tool("forge.list_specializations", {})
                \cup Tool("forge.suggest_pool_template", {"poolId"})
scribeCatalog == Tool("scribe.list_release_reports", {}) \cup Tool("scribe.version_state", {})
                 \cup Tool("scribe.draft_release_report", {"version"})
reconCatalog == Tool("recon.dashboard", {}) \cup Tool("recon.diagnostics", {})
                \cup Tool("recon.gateway_tools", {})
nexusCatalog == Tool("nexus.health_summary", {}) \cup Tool("nexus.discovery", {})
                \cup Tool("nexus.list_clients", {})
watchtowerCatalog ==
    Tool("watchtower.health_summary", {}) \cup Tool("watchtower.gateway_status", {})
    \cup Tool("watchtower.activity_tail", {})
localDatabaseCatalog ==
    Tool("db.status", {}) \cup Tool("db.set_connection_string", {"connectionString"})
    \cup Tool("db.list_tables", {}) \cup Tool("db.describe_table", {"table"})
    \cup Tool("db.query_readonly", {"sql"})

\* toolCatalog, by the id that main accepts.
Listed(s) ==
    CASE s = "baseline-tools" -> baselineToolsCatalog
      [] s = "terminal-shell" -> terminalShellCatalog
      [] s = "local-git" -> localGitCatalog [] s = "file-search" -> fileSearchCatalog
      [] s = "client-tracker" -> clientTrackerCatalog [] s = "metrics" -> metricsCatalog
      [] s = "code-execution-repl" -> codeExecutionReplCatalog
      [] s = "local-test-runner" -> localTestRunnerCatalog
      [] s = "local-build-tool" -> localBuildToolCatalog
      [] s = "local-linter" -> localLinterCatalog
      [] s = "local-indexer" -> localIndexerCatalog
      [] s = "persistent-context" -> persistentContextCatalog
      [] s = "knowledge-graph" -> knowledgeGraphCatalog
      [] s = "file-watcher" -> fileWatcherCatalog
      [] s = "keyboard-mouse-control" -> keyboardMouseControlCatalog
      [] s = "screen-capture-vision" -> screenCaptureVisionCatalog
      [] s = "desktop-control" -> desktopControlCatalog
      [] s = "computer-use" -> computerUseCatalog [] s = "sentinel" -> sentinelCatalog
      [] s = "architect" -> architectCatalog [] s = "forge" -> forgeCatalog
      [] s = "scribe" -> scribeCatalog [] s = "recon" -> reconCatalog
      [] s = "nexus" -> nexusCatalog [] s = "watchtower" -> watchtowerCatalog
      [] s = "local-database" -> localDatabaseCatalog

Specialization ==
    {"baseline-tools", "terminal-shell", "local-git", "file-search", "client-tracker",
     "metrics", "code-execution-repl", "local-test-runner", "local-build-tool",
     "local-linter", "local-indexer", "persistent-context", "knowledge-graph",
     "file-watcher", "keyboard-mouse-control", "screen-capture-vision",
     "desktop-control", "computer-use", "sentinel", "architect", "forge", "scribe",
     "recon", "nexus", "watchtower", "local-database"}

-----------------------------------------------------------------------------
(* dispatchToolCall *)

ServedBaseline ==
    Handler("mcos.echo", {"text"}, {}) \cup Handler("mcos.now", {}, {})
    \cup Handler("mcos.host_info", {}, {}) \cup Handler("mcos.add", {"a", "b"}, {})
ServedShell == Handler("shell.exec", {"command"}, {"cwd", "timeoutMs"})
ServedGit == Handler("git.run", {"args"}, {"cwd", "timeoutMs"})
ServedSearch ==
    Handler("search.grep", {"pattern"}, {"path", "glob", "maxMatches", "timeoutMs"})
ServedClients == Handler("clients.list", {}, {})
ServedMetrics == Handler("metrics.host", {}, {}) \cup Handler("metrics.gateway", {}, {})
ServedRepl == Handler("repl.exec", {"language", "code"}, {"timeoutMs"})
ServedTest == Handler("test.run", {"framework"}, {"cwd", "timeoutMs"})
ServedBuild == Handler("build.run", {"tool"}, {"cwd", "timeoutMs"})
ServedLint == Handler("lint.run", {"tool"}, {"cwd", "timeoutMs"})
ServedIndex == Handler("index.list_files", {"path"}, {"glob", "maxFiles"})
ServedContext == Handler("ctx.set", {"key", "value"}, {}) \cup Handler("ctx.get", {"key"}, {})
                 \cup Handler("ctx.list", {}, {}) \cup Handler("ctx.delete", {"key"}, {})
ServedGraph ==
    Handler("kg.entity.upsert", {"name", "entityType"}, {})
    \cup Handler("kg.relation.create", {"from", "to", "relationType"}, {})
    \cup Handler("kg.search", {"query"}, {}) \cup Handler("kg.read_graph", {}, {})
    \cup Handler("kg.delete_entity", {"name"}, {})
ServedWatch == Handler("watch.add", {"path"}, {"recursive"}) \cup Handler("watch.poll", {}, {"path"})
               \cup Handler("watch.list", {}, {}) \cup Handler("watch.remove", {"path"}, {})

Click(name) == Handler(name, {"x", "y"}, {"button", "count"})
Typing(name) == Handler(name, {"text"}, {"delayMs"})
Move(name) == Handler(name, {"x", "y"}, {})
CaptureSpec(name) == Handler(name, {}, {"x", "y", "width", "height"})
Windows(name) == Handler(name, {}, {"includeHidden"})

ServedInput == Typing("input.keyboard") \cup Click("input.click") \cup Move("input.move")
               \cup Handler("input.scroll", {}, {"dx", "dy"})
ServedScreen == CaptureSpec("screen.capture") \cup Handler("screen.size", {}, {})
ServedDesktop ==
    Windows("desktop.list_windows") \cup Handler("desktop.focus", {"titleSubstring"}, {})
    \cup Handler("desktop.launch", {"path"}, {"args"}) \cup Handler("desktop.foreground", {}, {})
\* (mutant) computer-use answers to the names of its three parts alone.
ServedByPartNames == ServedInput \cup ServedScreen \cup ServedDesktop

\* computer-use answers to the names of all three as well as to its own.
ServedComputer ==
    ServedInput \cup ServedScreen \cup ServedDesktop
    \cup Typing("computer.type") \cup Click("computer.click")
    \cup Move("computer.move_mouse") \cup CaptureSpec("computer.screenshot")
    \cup Windows("computer.window_list")

ServedSentinel ==
    Handler("sentinel.list_rules", {}, {}) \cup Handler("sentinel.recent_activity", {}, {"max"})
    \cup Handler("sentinel.health_summary", {}, {})
ServedArchitect ==
    Handler("architect.list_phases", {}, {}) \cup Handler("architect.discovery_doc", {}, {})
    \cup Handler("architect.draft_adr", {}, {"title", "context", "decision"})
ServedForge ==
    Handler("forge.list_pools", {}, {}) \cup Handler("forge.list_specializations", {}, {})
    \cup Handler("forge.suggest_pool_template", {"poolId"}, {"displayName"})
ServedScribe ==
    Handler("scribe.list_release_reports", {}, {}) \cup Handler("scribe.version_state", {}, {})
    \cup Handler("scribe.draft_release_report", {}, {"version", "summary"})
ServedRecon == Handler("recon.dashboard", {}, {}) \cup Handler("recon.diagnostics", {}, {})
               \cup Handler("recon.gateway_tools", {}, {})
ServedNexus == Handler("nexus.health_summary", {}, {}) \cup Handler("nexus.discovery", {}, {})
               \cup Handler("nexus.list_clients", {}, {})
ServedWatchtower ==
    Handler("watchtower.health_summary", {}, {}) \cup Handler("watchtower.gateway_status", {}, {})
    \cup Handler("watchtower.activity_tail", {}, {"max"})
ServedDatabase ==
    Handler("db.status", {}, {}) \cup Handler("db.set_connection_string", {"connectionString"}, {})
    \cup Handler("db.list_tables", {}, {}) \cup Handler("db.describe_table", {"table"}, {})
    \cup Handler("db.query_readonly", {"sql"}, {"rowLimit"})

\* The handlers of a specialization, before those every worker has.
ServedBy(s) ==
    CASE s = "baseline-tools" -> ServedBaseline [] s = "terminal-shell" -> ServedShell
      [] s = "local-git" -> ServedGit [] s = "file-search" -> ServedSearch
      [] s = "client-tracker" -> ServedClients [] s = "metrics" -> ServedMetrics
      [] s = "code-execution-repl" -> ServedRepl [] s = "local-test-runner" -> ServedTest
      [] s = "local-build-tool" -> ServedBuild [] s = "local-linter" -> ServedLint
      [] s = "local-indexer" -> ServedIndex [] s = "persistent-context" -> ServedContext
      [] s = "knowledge-graph" -> ServedGraph [] s = "file-watcher" -> ServedWatch
      [] s = "keyboard-mouse-control" -> ServedInput
      [] s = "screen-capture-vision" -> ServedScreen
      [] s = "desktop-control" -> ServedDesktop [] s = "computer-use" -> ServedComputer
      [] s = "sentinel" -> ServedSentinel [] s = "architect" -> ServedArchitect
      [] s = "forge" -> ServedForge [] s = "scribe" -> ServedScribe
      [] s = "recon" -> ServedRecon [] s = "nexus" -> ServedNexus
      [] s = "watchtower" -> ServedWatchtower [] s = "local-database" -> ServedDatabase

Served(s) == ServedBy(s) \cup ServedBaseline
===============================================================================
