------------------------------ MODULE MCHelpers -----------------------------
(***************************************************************************)
(* The interface with its logs, and the parts of the library that work on  *)
(* their own, side by side: a behaviour is about one of them, its subject, *)
(* and leaves the others as they are at the beginning.                     *)
(***************************************************************************)
EXTENDS MCBruteforceSearch, CANSettings, LogFile, PortableQueue, Discovery,
        TraceRecorder, FrameReception, LoggedInterface

VARIABLE subject

MCFilters == {{}, {"a"}}
MCBits    == {-1, 0, 29, 30}
MCSpeeds  == {{0, 31}, {32}}

\* Objects 1 and 2 have the same class, 3 one whose name differs in case only, and 4
\* another.
MCClassOf == <<"Log", "Log", "LOG", "Session">>
MCLower   == [class \in {"Log", "LOG", "Session"} |->
                IF class = "Session" THEN "session" ELSE "log"]

Subjects ==
  {"search", "settings", "log", "queue", "discovery", "trace", "reception", "interface"}

\* The logs of the interface are alike.
LogSymmetry == Permutations(Logs)

HelpersInit ==
  /\ subject \in Subjects
  /\ SearchInit /\ SettingsInit /\ LogInit /\ QueueInit /\ DiscoveryInit /\ TraceInit
  /\ ReceptionInit /\ InterfaceInit

Others(s) ==
  /\ subject = s /\ UNCHANGED subject
  /\ s # "search"    => UNCHANGED searchVars
  /\ s # "settings"  => UNCHANGED settingsVars
  /\ s # "log"       => UNCHANGED logVars
  /\ s # "queue"     => UNCHANGED queueVars
  /\ s # "discovery" => UNCHANGED discoveryVars
  /\ s # "trace"     => UNCHANGED traceVars
  /\ s # "reception" => UNCHANGED receptionVars
  /\ s # "interface" => UNCHANGED interfaceVars

HelpersNext ==
  \/ Others("search")    /\ SearchNext
  \/ Others("settings")  /\ SettingsNext
  \/ Others("log")       /\ LogNext
  \/ Others("queue")     /\ QueueNext
  \/ Others("discovery") /\ DiscoveryNext
  \/ Others("trace")     /\ TraceNext
  \/ Others("reception") /\ ReceptionNext
  \/ Others("interface") /\ InterfaceNext

HelpersSpec ==
  HelpersInit /\ [][HelpersNext]_<<subject, searchVars, settingsVars, logVars, queueVars,
                                   discoveryVars, traceVars, receptionVars, interfaceVars>>
=============================================================================
