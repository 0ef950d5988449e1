------------------------------- MODULE Command -------------------------------
(***************************************************************************)
(* The life of one invocation of the CLI, main.go and cmd/root.go: parse   *)
(* the flags, twice, set up the output, AWS and the regions, run the       *)
(* command, write the output signal, exit.  Execute writes the signal      *)
(* itself when an error kept cobra from reaching the hook that does.       *)
(*                                                                         *)
(* A kind of command is what its methods in cmd/ do with the regions:      *)
(*   regional    scans each of the regions discovered before it runs       *)
(*   single      needs one region at most                                  *)
(*   global      hands the flags on as they are                            *)
(*   external    the same, without AWS credentials                         *)
(*   cobra       one of cobra's own (help, completion): prints its text    *)
(*               and sets no report, between the hooks of the root command *)
(*   version     prints a line, without set-up and without signal          *)
(***************************************************************************)
EXTENDS Regions, Naturals, Sequences

CONSTANTS
  Selections,      \* what --regions may be
  Configurations,  \* the region the AWS configuration may name, or NoRegion
  Accounts         \* the sets of regions that may be enabled

ASSUME CommandAssumption ==
  /\ Selections \subseteq SUBSET (RegionNames \cup {NoRegion})
  /\ Configurations \subseteq RegionNames \cup {NoRegion}
  /\ \A a \in Accounts : a # {} /\ a \subseteq RegionNames /\ OnePartition(a)

Kinds == {"regional", "single", "global", "external", "cobra", "version"}
Authenticated == {"regional", "single", "global", "cobra"}

VARIABLES
  kind, selected, configured,
  enabled,       \* the regions of the account; hidden but through the calls
  pc,
  discovery,     \* what DescribeRegions did: "none", "answered" or "failed"
  regions,       \* RootFlags.Regions
  scanned,       \* the regions the report is about
  reportErrors,  \* the report's own list of errors is not empty
  signal,        \* OutputSignal: its Status and whether it has a Content
  toFile,        \* OutputConfig is the one asked for
  outputWritten,
  writes,        \* the attempts to write the output, with what was written
  exit           \* the exit code

vars == <<kind, selected, configured, enabled, pc, discovery, regions, scanned,
          reportErrors, signal, toFile, outputWritten, writes, exit>>

invocation == <<kind, selected, configured, enabled>>

UsageError == 2  \* the exit code of package flag
Running == 3     \* no exit code yet

Init ==
  /\ kind \in Kinds
  /\ selected \in Selections
  /\ configured \in Configurations
  /\ enabled \in Accounts
  /\ pc = "start"
  /\ discovery = "none"
  /\ regions = selected
  /\ scanned = {}
  /\ reportErrors = FALSE
  /\ signal = [status |-> 0, content |-> FALSE]
  /\ toFile = FALSE
  /\ outputWritten = FALSE
  /\ writes = <<>>
  /\ exit = Running

\* OutputSignal.AddError
AddError == signal' = [signal EXCEPT !.status = 1]

\* cobra returns an error to Execute, which records it and goes on to write.
Abort == pc' = "failed" /\ AddError

----------------------------------------------------------------------------
(***************************************************************************)
(* Flags, help, and setupCommonConfig.                                     *)
(***************************************************************************)
\* main calls flag.Parse before cobra sees the arguments.  No flag is defined
\* there, so a flag before the subcommand is refused, and help is printed and
\* the process exits, both without a signal; it stops at the first other word.
ParseStandardFlags ==
  /\ pc = "start"
  /\ \/ pc' = "parse" /\ UNCHANGED exit
     \/ pc' = "exited" /\ exit' \in {0, UsageError}
  /\ UNCHANGED <<invocation, discovery, regions, scanned, reportErrors, signal,
                 toFile, outputWritten, writes>>

ParseFlags ==
  /\ pc = "parse"
  /\ \/ pc' = (IF kind = "version" THEN "print" ELSE "setup") /\ UNCHANGED signal
     \/ pc' = "print" /\ UNCHANGED signal
     \/ Abort
  /\ UNCHANGED <<invocation, discovery, regions, scanned, reportErrors, toFile,
                 outputWritten, writes, exit>>

\* Help, or the version: nothing else runs and no signal is written.
PrintUsage ==
  /\ pc = "print" /\ pc' = "returned"
  /\ UNCHANGED <<invocation, discovery, regions, scanned, reportErrors, signal,
                 toFile, outputWritten, writes, exit>>

\* The format is checked first: a refused one leaves the default output.
SetupOutput ==
  /\ pc = "setup"
  /\ \/ Abort /\ UNCHANGED toFile
     \/ /\ toFile' = TRUE /\ UNCHANGED signal
        /\ pc' = IF kind \in Authenticated THEN "configure" ELSE "run"
  /\ UNCHANGED <<invocation, discovery, regions, scanned, reportErrors,
                 outputWritten, writes, exit>>

LoadConfig ==
  /\ pc = "configure"
  /\ \/ Abort
     \/ pc' = (IF kind = "regional" THEN "discover" ELSE "run") /\ UNCHANGED signal
  /\ UNCHANGED <<invocation, discovery, regions, scanned, reportErrors, toFile,
                 outputWritten, writes, exit>>

----------------------------------------------------------------------------
(***************************************************************************)
(* GetAWSRegions and setDiscoveredRegions.                                 *)
(***************************************************************************)
Normalized == IF selected = {} THEN {} ELSE NormalizeSelectedRegions(selected)

SelectionRefused ==
  /\ selected # {} /\ Normalized = {}
  /\ Abort /\ UNCHANGED <<discovery, regions>>

\* No region is left to scan: the command does not run.
SetDiscoveredRegions(found) ==
  IF found = {} THEN Abort /\ UNCHANGED regions
  ELSE pc' = "run" /\ regions' = found /\ UNCHANGED signal

\* Only the account's own partition answers.
DescribeRegionsAnswers ==
  /\ LET asked == RegionDiscoveryQueryRegion(configured, Normalized) IN
     \A r \in enabled : Partition[r] = Partition[asked]
  /\ discovery' = "answered"
  /\ SetDiscoveredRegions(EnabledAWSRegions(enabled, Normalized))

DescribeRegionsFails ==
  /\ discovery' = "failed"
  /\ SetDiscoveredRegions(RegionDiscoveryFallback(configured, Normalized))

\* An empty answer is not a failed request: there is no fallback from it.
DescribeRegionsIsEmpty ==
  /\ discovery' = "failed"
  /\ Abort /\ UNCHANGED regions

DiscoverRegions ==
  /\ pc = "discover"
  /\ \/ SelectionRefused
     \/ /\ selected = {} \/ Normalized # {}
        /\ DescribeRegionsAnswers \/ DescribeRegionsFails \/ DescribeRegionsIsEmpty
  /\ UNCHANGED <<invocation, scanned, reportErrors, toFile, outputWritten, writes, exit>>

----------------------------------------------------------------------------
(***************************************************************************)
(* The command.  Run refuses (required flags, arguments, the account ID):  *)
(* an error in the signal and no report.  Otherwise it sets a report; what *)
(* fails from then on is an error of the report, not of the signal.        *)
(***************************************************************************)
RunRefuses ==
  /\ AddError
  /\ UNCHANGED <<scanned, reportErrors>>

SetReport(about, failed) ==
  /\ signal' = [signal EXCEPT !.content = TRUE]
  /\ scanned' = about
  /\ reportErrors' = failed

\* SingleRegion that does not notice when no region is configured.
SingleRegionUnset ==
  CASE regions = {} -> {configured}
    [] OTHER -> NormalizeSelectedRegions(regions)

\* configForSingleRegion
SingleRegion ==
  CASE regions = {} -> {configured} \ {NoRegion}
    [] \E r \in RegionNames : NormalizeSelectedRegions(regions) = {r} ->
         NormalizeSelectedRegions(regions)
    [] OTHER -> {}

RunRegional ==
  /\ kind = "regional"
  /\ \/ RunRefuses
     \* The calls to a region that is not enabled fail.
     \/ \E failed \in SUBSET regions : SetReport(regions, failed \cup (regions \ enabled) # {})

RunSingle ==
  /\ kind = "single"
  /\ \/ RunRefuses
     \/ /\ regions = {} \/ SingleRegion # {}
        /\ \E failed \in BOOLEAN :
             SetReport(SingleRegion, failed \/ SingleRegion \cap enabled = {})

RunOther ==
  /\ kind \in {"global", "external"}
  /\ RunRefuses \/ \E failed \in BOOLEAN : SetReport({}, failed)

RunCobra == kind = "cobra" /\ UNCHANGED <<signal, scanned, reportErrors>>

Run ==
  /\ pc = "run" /\ pc' = "write"
  /\ RunRegional \/ RunSingle \/ RunOther \/ RunCobra
  /\ UNCHANGED <<invocation, discovery, regions, toFile, outputWritten, writes, exit>>

\* A required flag is missing, or cobra's own command returns an error: cobra
\* finds out after the set-up.
RequiredFlagMissing ==
  /\ pc = "run" /\ Abort
  /\ UNCHANGED <<invocation, discovery, regions, scanned, reportErrors, toFile,
                 outputWritten, writes, exit>>

----------------------------------------------------------------------------
(***************************************************************************)
(* writeOutput, from the hook or from Execute, and the exit code.          *)
(***************************************************************************)
\* WriteOutput that marks the output as written when it has been.
WriteOutputMarksSuccess(ok) ==
  /\ outputWritten' = ok
  /\ writes' = Append(writes, [ok |-> ok, signal |-> signal, toFile |-> toFile])

WriteOutput(ok) ==
  /\ outputWritten' = TRUE
  /\ writes' = Append(writes, [ok |-> ok, signal |-> signal, toFile |-> toFile])

PersistentPostRun ==
  /\ pc = "write"
  /\ \/ WriteOutput(TRUE) /\ pc' = "returned" /\ UNCHANGED signal
     \/ WriteOutput(FALSE) /\ Abort
  /\ UNCHANGED <<invocation, discovery, regions, scanned, reportErrors, toFile, exit>>

ExecuteWritesFailure ==
  /\ pc = "failed" /\ pc' = "exited" /\ exit' = 1
  /\ IF outputWritten THEN UNCHANGED <<outputWritten, writes>>
     ELSE \E ok \in BOOLEAN : WriteOutput(ok)
  /\ UNCHANGED <<invocation, discovery, regions, scanned, reportErrors, signal, toFile>>

ExecuteReturns ==
  /\ pc = "returned" /\ pc' = "exited" /\ exit' = signal.status
  /\ UNCHANGED <<invocation, discovery, regions, scanned, reportErrors, signal,
                 toFile, outputWritten, writes>>

\* The process is gone.
Exited == pc = "exited" /\ UNCHANGED vars

Next ==
  \/ ParseStandardFlags \/ ParseFlags \/ PrintUsage \/ SetupOutput \/ LoadConfig \/ DiscoverRegions
  \/ Run \/ RequiredFlagMissing
  \/ PersistentPostRun \/ ExecuteWritesFailure \/ ExecuteReturns \/ Exited

Spec == Init /\ [][Next]_vars

----------------------------------------------------------------------------
Status == {0, 1}
Signal == [status : Status, content : BOOLEAN]

TypeOK ==
  /\ kind \in Kinds /\ selected \in Selections
  /\ configured \in Configurations /\ enabled \in Accounts
  /\ pc \in {"start", "parse", "print", "setup", "configure", "discover", "run", "write",
             "failed", "returned", "exited"}
  /\ discovery \in {"none", "answered", "failed"}
  /\ regions \subseteq RegionNames \cup {NoRegion}
  /\ scanned \subseteq RegionNames
  /\ reportErrors \in BOOLEAN /\ toFile \in BOOLEAN /\ outputWritten \in BOOLEAN
  /\ signal \in Signal
  /\ writes \in Seq([ok : BOOLEAN, signal : Signal, toFile : BOOLEAN])
  /\ exit \in Status \cup {UsageError, Running}

\* A failure of Execute is serialized once: a signal that says "failed" was
\* written, or writing the output is what failed.  No output is written twice,
\* which would leave two documents on standard output.  Exit code 2 is the one
\* failure without a signal: a caller that sees it knows that no region was
\* discovered or scanned and no output opened or written.
FailureSerializedOnce ==
  /\ Len(writes) <= 1
  /\ exit = 1 => Len(writes) = 1 /\ (~writes[1].ok \/ writes[1].signal.status = 1)
  /\ exit = UsageError => writes = <<>> /\ ~toFile /\ discovery = "none" /\ ~signal.content

\* The signal of a command that succeeded.  What cobra's own commands print is
\* no report: the hook writes a signal without a content after it.
Complete == [status |-> 0, content |-> kind # "cobra"]

\* A caller that looks at the exit code only is not misled: 0 means that the
\* command's report was written where it was asked for, without an error in the
\* signal, or that only help or the version was printed.
ExitZeroMeansReport ==
  exit = 0 =>
    \/ writes = <<>> /\ signal = [status |-> 0, content |-> FALSE]
    \/ /\ Len(writes) = 1 /\ writes[1].ok /\ writes[1].toFile
       /\ writes[1].signal = Complete

\* The exit code and what was written agree about how the invocation ended.
OutcomeTold == FailureSerializedOnce /\ ExitZeroMeansReport

\* What is scanned is what was asked for, whatever the discovery did: every
\* region selected and no other, of one partition, and never no region at all.
SelectionHonoured ==
  signal.content /\ kind \in {"regional", "single"} =>
    /\ selected # {} => OnePartition(scanned) /\ scanned = selected \ {NoRegion}
    /\ kind = "regional" => OnePartition(scanned) /\ scanned # {}

\* A region that is not enabled is not scanned without an error, and without a
\* selection no region the account has is left out, once AWS has said which.
DiscoveryTrusted ==
  kind = "regional" /\ signal.content /\ discovery = "answered" =>
    /\ scanned \subseteq enabled
    /\ selected = {} => scanned = enabled

\* The fallback stays in the partition the configuration names.
FallbackInPartition ==
  kind = "regional" /\ signal.content /\ selected = {} /\ discovery = "failed" =>
    \A r \in scanned :
      Partition[r] = IF configured = NoRegion THEN Commercial ELSE Partition[configured]

\* What is scanned follows from the selection, and without one from what AWS
\* answered, and without an answer from the partition that is configured.
RegionsHonoured == SelectionHonoured /\ DiscoveryTrusted /\ FallbackInPartition

\* cmd/root.go, the --regions flag: "If blank, will search all regions."  Of a
\* run that reports no error, in the signal or in the report.
BlankSearchesAllRegions ==
  kind = "regional" /\ selected = {} /\ exit = 0 /\ signal.content /\ ~reportErrors =>
    enabled \subseteq scanned
=============================================================================
