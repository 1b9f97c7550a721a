--------------------------- MODULE AppleToolTables ---------------------------
(***************************************************************************)
(* The tables of the Apple governance lanes (MasterControlRuntime.cpp):    *)
(* which options a remote tool needs, which of them an operation record    *)
(* keeps for a rerun, and how a host is scored for a lane, once when an    *)
(* operation starts and once when its rerun is assessed.                   *)
(*                                                                         *)
(* An option is seen as its key: a key is in the set when it has a value   *)
(* that is not blank.                                                      *)
(***************************************************************************)
EXTENDS Naturals, FiniteSets

Lane == {"macos", "ios"}

\* What an inspection finds out about a host.
Facility == {"reachable", "xcode", "macosSdk", "iosSdk", "signing", "distribution",
             "simulator", "device"}

-----------------------------------------------------------------------------
(* The tools *)

BuildTools == {"macos.build", "macos.test", "macos.archive", "ios.build", "ios.test", "ios.archive"}
isQueuedAppleOperationalTool ==
    BuildTools \cup {"macos.sign", "macos.notarize", "macos.staple", "ios.simulator.list",
                     "ios.export", "ios.device.install"}
isAppleReplayValidationTool ==
    {"macos.toolchain.route", "ios.signing.route", "macos.remote-build.validate",
     "ios.remote-build.validate"}
\* Registered, and left by executeAppleRemoteTool for a later slice.
InspectionTools ==
    {"macos.manifest.validate", "macos.project-layout.inspect", "ios.manifest.validate",
     "ios.project-layout.inspect"}
RemoteTools == isQueuedAppleOperationalTool \cup isAppleReplayValidationTool \cup InspectionTools

IosTools == {"ios.build", "ios.test", "ios.archive", "ios.simulator.list", "ios.export",
             "ios.device.install", "ios.signing.route", "ios.remote-build.validate",
             "ios.manifest.validate", "ios.project-layout.inspect"}
LaneOf(tool) == IF tool \in IosTools THEN "ios" ELSE "macos"

-----------------------------------------------------------------------------
(* buildAppleOperationalCommand: a way to build the command of a tool is a  *)
(* set of groups of keys, one key of each group has to be given.           *)

SignWays == {{{"bundlePath", "appPath", "targetBundlePath"}, {"signingIdentity", "identity"}}}
NotaryArtifact == {"artifactPath", "submissionPath", "packagePath", "bundlePath"}
NotarizeWays ==
    {{NotaryArtifact, {"keychainProfile", "notaryKeychainProfile"}},
     {NotaryArtifact, {"appleId", "notaryAppleId"}, {"teamId", "notaryTeamId"},
      {"appSpecificPassword", "appleIdPassword", "notaryPassword", "password"}}}
StapleWays == {{{"artifactPath", "bundlePath", "staplePath", "targetPath"}}}
ExportWays == {{{"archivePath"}, {"exportOptionsPlist", "exportOptionsPlistPath"}}}
InstallWays == {{{"deviceId", "device", "deviceIdentifier"},
                 {"appPath", "applicationPath", "bundlePath"}}}
BuildWays(tool) == {{{"scheme"}} \cup IF tool = "ios.test" THEN {{"destination"}} ELSE {}}

Ways(tool) ==
    CASE tool = "macos.sign" -> SignWays
      [] tool = "macos.notarize" -> NotarizeWays
      [] tool = "macos.staple" -> StapleWays
      [] tool = "ios.export" -> ExportWays
      [] tool = "ios.device.install" -> InstallWays
      [] tool \in BuildTools -> BuildWays(tool)
      [] OTHER -> {{}}

\* The facility without which the tool is refused whatever the options.
NeededFacility(tool) ==
    CASE tool = "macos.sign" -> {"distribution"}
      [] tool = "ios.device.install" -> {"device"}
      [] OTHER -> {}

Supplies(keys, way) == \A group \in way : group \cap keys # {}

\* The defaults of a host stand in for the options of the same meaning.
buildAppleOperationalCommand(tool, keys, host) ==
    /\ NeededFacility(tool) \subseteq host.found
    /\ \E way \in Ways(tool) : Supplies(keys \cup host.defaults, way)

\* Options that satisfy a way: any one of its keys and, of each group the key
\* is not in, a fixed one.  Then the same with one option left out.
Lead(group) == CHOOSE key \in group : TRUE
Enough(way) == {{key} \cup {Lead(group) : group \in {g \in way : key \notin g}} : key \in UNION way}
Requests(tool) ==
    UNION {Enough(way) \cup {{Lead(group) : group \in way \ {g}} : g \in way} : way \in Ways(tool)}
    \cup {{}}

-----------------------------------------------------------------------------
(* sanitizeAppleRequestOptions: what a record keeps of the options *)

secretKeys == {"appleId", "notaryAppleId", "password", "appleIdPassword", "appSpecificPassword",
               "notaryPassword"}

\* (mutant) The keys as the tools of the build lanes use them.
allowedKeysOfBuilds ==
    {"workspace", "project", "scheme", "configuration", "destination", "sdk", "archivePath",
     "exportPath", "exportOptionsPlist", "deviceId", "appPath", "bundlePath", "signingIdentity",
     "artifactPath", "keychainProfile", "teamId"}

allowedKeys ==
    {"workspace", "project", "xcodeproj", "scheme", "configuration", "destination", "sdk",
     "archivePath", "exportPath", "outputPath", "outputDirectory", "exportOptionsPlist",
     "exportOptionsPlistPath", "deviceId", "device", "deviceIdentifier", "appPath",
     "applicationPath", "bundlePath", "targetBundlePath", "signingIdentity", "identity",
     "entitlementsPath", "artifactPath", "submissionPath", "packagePath", "staplePath",
     "keychainProfile", "notaryKeychainProfile", "teamId", "notaryTeamId", "timeoutSeconds",
     "force", "deep", "timestamp", "hardenedRuntime", "runtime", "remoteWorkingDirectory",
     "workingDirectory", "targetRoot"}

persistedOptions(keys) == keys \cap (allowedKeys \ secretKeys)

-----------------------------------------------------------------------------
(* Hosts *)

isReadyForPlatform(host, lane) ==
    /\ {"reachable", "xcode"} \subseteq host.found
    /\ \/ lane = "macos" /\ "macosSdk" \in host.found
       \/ /\ lane = "ios" /\ {"iosSdk", "signing"} \subseteq host.found
          /\ host.found \cap {"simulator", "device"} # {}

Points(condition, points) == IF condition THEN points ELSE 0

scoreHost(host, lane) ==
    Points(host.enabled, 50) + Points(lane \in host.lanes, 50)
    + Points("reachable" \in host.found, 40) + Points("xcode" \in host.found, 30)
    + Points(lane = "macos" /\ "macosSdk" \in host.found, 20)
    + Points(lane = "ios" /\ "iosSdk" \in host.found, 20)
    + Points(lane = "ios" /\ "signing" \in host.found, 15)
    + Points(lane = "ios" /\ "simulator" \in host.found, 10)
    + Points(host.companion, 2) + Points(isReadyForPlatform(host, lane), 100)

\* resolveReplayHost: the same points, counted by a copy of the code.
replayScore(host, lane) ==
    Points(host.enabled, 50) + Points(lane \in host.lanes, 50)
    + Points("reachable" \in host.found, 40) + Points("xcode" \in host.found, 30)
    + Points(lane = "macos" /\ "macosSdk" \in host.found, 20)
    + Points(lane = "ios" /\ "iosSdk" \in host.found, 20)
    + Points(lane = "ios" /\ "signing" \in host.found, 15)
    + Points(lane = "ios" /\ "simulator" \in host.found, 10)
    + Points(host.companion, 2) + Points(isReadyForPlatform(host, lane), 100)
===============================================================================
