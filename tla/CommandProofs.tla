----------------------------- MODULE CommandProofs -----------------------------
(***************************************************************************)
(* Theorems about Command: for any names of regions, selections, accounts  *)
(* and fallback lists, the exit code and what was written agree, and what  *)
(* is scanned is what was asked for.                                       *)
(***************************************************************************)
EXTENDS Command, TLAPS

Before == {"start", "parse", "print", "setup", "configure", "discover", "run", "write"}
SetUp == {"start", "parse", "setup", "configure", "discover", "run"}

\* Nothing is written before the command has returned or failed, the error is in
\* the signal when the command has failed, and what was written is kept.
WritesInv ==
  /\ pc \in Before => writes = <<>> /\ ~outputWritten
  /\ pc # "exited" => exit = Running
  /\ pc \in SetUp \cup {"print"} => signal = [status |-> 0, content |-> FALSE]
  /\ pc \in {"configure", "discover", "run", "write"} => toFile
  /\ pc \in {"start", "parse", "print"} => ~toFile /\ discovery = "none"
  /\ signal.content => kind # "cobra"
  /\ pc = "write" /\ signal.status = 0 => signal = Complete
  /\ pc = "failed" =>
       /\ signal.status = 1
       /\ outputWritten => Len(writes) = 1 /\ ~writes[1].ok
       /\ ~outputWritten => writes = <<>>
  /\ pc = "returned" =>
       \/ writes = <<>> /\ signal = [status |-> 0, content |-> FALSE]
       \/ /\ Len(writes) = 1 /\ writes[1].ok /\ writes[1].toFile
          /\ writes[1].signal = signal /\ (signal.status = 0 => signal = Complete)
  /\ pc = "exited" => exit \in Status \cup {UsageError} /\ OutcomeTold

\* The regions R are those the command has to scan.
Honoured(R) ==
  /\ R # {} /\ OnePartition(R)
  /\ selected # {} => R = selected \ {NoRegion}
  /\ discovery = "answered" => R \subseteq enabled /\ (selected = {} => R = enabled)
  /\ selected = {} /\ discovery = "failed" =>
       \A r \in R : Partition[r] = IF configured = NoRegion THEN Commercial ELSE Partition[configured]

\* Until the discovery the regions are the selection, and after it the ones that
\* have to be scanned; a report is about these.
RegionsInv ==
  /\ pc = "discover" => kind = "regional"
  /\ pc \in SetUp /\ (pc = "run" => kind # "regional") => regions = selected
  /\ pc = "run" /\ kind = "regional" => Honoured(regions) /\ regions \subseteq RegionNames
  /\ signal.content /\ kind = "regional" => Honoured(scanned)
  /\ signal.content /\ kind = "single" /\ selected # {} =>
       OnePartition(scanned) /\ scanned = selected \ {NoRegion}

IInv == TypeOK /\ WritesInv /\ RegionsInv

----------------------------------------------------------------------------
(***************************************************************************)
(* Type correctness.                                                       *)
(***************************************************************************)
\* An output attempt is appended to those before.
LEMMA WriteOutputType ==
  ASSUME TypeOK, NEW ok \in BOOLEAN, WriteOutput(ok)
  PROVE  /\ outputWritten' \in BOOLEAN
         /\ writes' \in Seq([ok : BOOLEAN, signal : Signal, toFile : BOOLEAN])
<1>1. [ok |-> ok, signal |-> signal, toFile |-> toFile] \in [ok : BOOLEAN, signal : Signal, toFile : BOOLEAN]
  BY DEF TypeOK
<1> QED BY <1>1 DEF TypeOK, WriteOutput

LEMMA NormalizedType ==
  ASSUME NEW R, R \subseteq RegionNames \cup {NoRegion}
  PROVE  NormalizeSelectedRegions(R) \subseteq RegionNames
BY DEF NormalizeSelectedRegions

\* A discovery finds names of regions only.
LEMMA FallbackType ==
  ASSUME NEW c \in RegionNames \cup {NoRegion}, NEW S, S \subseteq RegionNames
  PROVE  RegionDiscoveryFallback(c, S) \subseteq RegionNames
<1> USE RegionAssumption
<1>1. \A p \in Partitions : Fallback[p] \subseteq RegionNames
  OBVIOUS
<1>2. c # NoRegion /\ Partition[c] # NoPartition => Partition[c] \in Partitions
  OBVIOUS
<1>3. CASE S # {}
  BY <1>3 DEF RegionDiscoveryFallback
<1>4. CASE S = {} /\ c = NoRegion
  <2>1. Fallback[Commercial] \subseteq RegionNames \cup {NoRegion}
    BY <1>1
  <2> QED BY <1>4, <2>1, NormalizedType DEF RegionDiscoveryFallback
<1>5. CASE S = {} /\ c # NoRegion /\ Partition[c] # NoPartition
  <2>1. Fallback[Partition[c]] \cup {c} \subseteq RegionNames \cup {NoRegion}
    BY <1>1, <1>2, <1>5
  <2> QED BY <1>5, <2>1, NormalizedType DEF RegionDiscoveryFallback
<1>6. CASE S = {} /\ c # NoRegion /\ Partition[c] = NoPartition
  BY <1>6 DEF RegionDiscoveryFallback
<1> QED BY <1>3, <1>4, <1>5, <1>6

LEMMA DiscoveredType ==
  ASSUME TypeOK
  PROVE  /\ Normalized \subseteq RegionNames
         /\ EnabledAWSRegions(enabled, Normalized) \subseteq RegionNames
         /\ RegionDiscoveryFallback(configured, Normalized) \subseteq RegionNames
<1> USE CommandAssumption DEF TypeOK
<1>1. Normalized \subseteq RegionNames
  BY NormalizedType DEF Normalized
<1>2. EnabledAWSRegions(enabled, Normalized) \subseteq RegionNames
  BY <1>1 DEF EnabledAWSRegions
<1>3. configured \in RegionNames \cup {NoRegion}
  OBVIOUS
<1>4. RegionDiscoveryFallback(configured, Normalized) \subseteq RegionNames
  BY <1>1, <1>3, FallbackType
<1> QED BY <1>1, <1>2, <1>4

LEMMA SingleRegionType ==
  ASSUME TypeOK, regions = {} \/ SingleRegion # {}
  PROVE  SingleRegion \subseteq RegionNames
<1>1. CASE regions = {}
  BY <1>1, CommandAssumption DEF TypeOK, SingleRegion
<1>2. CASE regions # {}
  BY <1>2, NormalizedType DEF TypeOK, SingleRegion
<1> QED BY <1>1, <1>2

\* The regions of a command that scans each of them are no longer a selection.
TypeInv == TypeOK /\ (pc = "run" /\ kind = "regional" => regions \subseteq RegionNames)

LEMMA TypeInductive ==
  ASSUME TypeInv, [Next]_vars
  PROVE  TypeInv'
<1> USE DEF TypeInv, TypeOK, invocation, Kinds, Authenticated
<1>0. signal' = [signal EXCEPT !.status = 1] => signal' \in Signal
  BY DEF Signal, Status
<1>12. CASE ParseStandardFlags
  BY <1>12 DEF ParseStandardFlags, Status
<1>1. CASE ParseFlags
  BY <1>0, <1>1 DEF ParseFlags, Abort, AddError
<1>2. CASE PrintUsage
  BY <1>2 DEF PrintUsage
<1>3. CASE SetupOutput
  BY <1>0, <1>3 DEF SetupOutput, Abort, AddError
<1>4. CASE LoadConfig
  BY <1>0, <1>4 DEF LoadConfig, Abort, AddError
<1>5. CASE DiscoverRegions
  <2>1. CASE SelectionRefused
    BY <1>0, <1>5, <2>1 DEF DiscoverRegions, SelectionRefused, Abort, AddError
  <2>2. CASE DescribeRegionsAnswers
    BY <1>0, <1>5, <2>2, DiscoveredType
       DEF DiscoverRegions, DescribeRegionsAnswers, SetDiscoveredRegions, Abort, AddError
  <2>3. CASE DescribeRegionsFails
    BY <1>0, <1>5, <2>3, DiscoveredType
       DEF DiscoverRegions, DescribeRegionsFails, SetDiscoveredRegions, Abort, AddError
  <2>4. CASE DescribeRegionsIsEmpty
    BY <1>0, <1>5, <2>4 DEF DiscoverRegions, DescribeRegionsIsEmpty, Abort, AddError
  <2> QED BY <1>5, <2>1, <2>2, <2>3, <2>4 DEF DiscoverRegions
<1>6. CASE Run
  <2>0. signal' = [signal EXCEPT !.content = TRUE] => signal' \in Signal
    BY DEF Signal
  <2>1. CASE RunRefuses
    BY <1>0, <1>6, <2>1 DEF Run, RunRefuses, AddError
  <2>2. CASE kind = "regional" /\ \E failed \in SUBSET regions :
               SetReport(regions, failed \cup (regions \ enabled) # {})
    BY <2>0, <1>6, <2>2 DEF Run, SetReport
  <2>3. CASE /\ regions = {} \/ SingleRegion # {}
             /\ \E failed \in BOOLEAN : SetReport(SingleRegion, failed \/ SingleRegion \cap enabled = {})
    BY <2>0, <1>6, <2>3, SingleRegionType DEF Run, SetReport
  <2>4. CASE \E failed \in BOOLEAN : SetReport({}, failed)
    BY <2>0, <1>6, <2>4 DEF Run, SetReport
  <2>5. CASE RunCobra
    BY <1>6, <2>5 DEF Run, RunCobra
  <2> QED BY <1>6, <2>1, <2>2, <2>3, <2>4, <2>5 DEF Run, RunRegional, RunSingle, RunOther
<1>7. CASE RequiredFlagMissing
  BY <1>0, <1>7 DEF RequiredFlagMissing, Abort, AddError
<1>8. CASE PersistentPostRun
  BY <1>0, <1>8, WriteOutputType DEF PersistentPostRun, Abort, AddError
<1>9. CASE ExecuteWritesFailure
  BY <1>9, WriteOutputType DEF ExecuteWritesFailure, Status
<1>10. CASE ExecuteReturns
  BY <1>10 DEF ExecuteReturns, Signal
<1>11. CASE UNCHANGED vars
  BY <1>11 DEF vars
<1> QED BY <1>1, <1>2, <1>3, <1>4, <1>5, <1>6, <1>7, <1>8, <1>9, <1>10, <1>11, <1>12 DEF Next, Exited

LEMMA TypeInitially == Init => TypeInv
<1> SUFFICES ASSUME Init PROVE TypeInv
  OBVIOUS
<1>1. signal \in Signal /\ exit \in Status \cup {UsageError, Running} /\ regions \subseteq RegionNames \cup {NoRegion}
  BY CommandAssumption DEF Init, Signal, Status
<1>2. writes \in Seq([ok : BOOLEAN, signal : Signal, toFile : BOOLEAN])
  BY DEF Init
<1> QED BY <1>1, <1>2 DEF Init, TypeInv, TypeOK

\* The state of a command keeps its type, whatever the names of the regions.
THEOREM CommandTypeCorrect == Spec => []TypeOK
<1>1. TypeInv /\ [Next]_vars => TypeInv'
  BY TypeInductive
<1>2. TypeInv => TypeOK
  BY DEF TypeInv
<1> QED BY <1>1, <1>2, TypeInitially, PTL DEF Spec

----------------------------------------------------------------------------
(***************************************************************************)
(* What is written.                                                        *)
(***************************************************************************)
LEMMA OneWrite ==
  ASSUME TypeOK, writes = <<>>, NEW ok \in BOOLEAN, WriteOutput(ok)
  PROVE  /\ Len(writes') = 1 /\ outputWritten'
         /\ writes'[1].ok = ok /\ writes'[1].signal = signal /\ writes'[1].toFile = toFile
<1>1. writes' = <<[ok |-> ok, signal |-> signal, toFile |-> toFile]>>
  BY DEF WriteOutput
<1>2. outputWritten'
  BY DEF WriteOutput
<1> QED BY <1>1, <1>2

LEMMA WritesInductive ==
  ASSUME TypeOK, WritesInv, [Next]_vars
  PROVE  WritesInv'
<1> USE DEF WritesInv, Before, SetUp, OutcomeTold, FailureSerializedOnce, ExitZeroMeansReport, Status,
            Running, UsageError, Complete, invocation
<1>0. signal \in [status : {0, 1}, content : BOOLEAN]
  BY DEF TypeOK, Signal
<1>a. AddError => signal'.status = 1 /\ signal'.content = signal.content
  BY <1>0 DEF AddError
<1>12. CASE ParseStandardFlags
  BY <1>12 DEF ParseStandardFlags
<1>1. CASE ParseFlags
  BY <1>1, <1>a DEF ParseFlags, Abort
<1>2. CASE PrintUsage
  BY <1>2 DEF PrintUsage
<1>3. CASE SetupOutput
  BY <1>3, <1>a DEF SetupOutput, Abort
<1>4. CASE LoadConfig
  BY <1>4, <1>a DEF LoadConfig, Abort
<1>5. CASE DiscoverRegions
  <2>1. /\ pc = "discover" /\ UNCHANGED <<kind, toFile, outputWritten, writes, exit>>
        /\ (pc' = "failed" /\ AddError) \/ (pc' = "run" /\ UNCHANGED signal)
    BY <1>5 DEF DiscoverRegions, SelectionRefused, DescribeRegionsAnswers, DescribeRegionsFails,
                DescribeRegionsIsEmpty, SetDiscoveredRegions, Abort
  <2> QED BY <2>1, <1>a
<1>6. CASE Run
  <2>1. \/ kind # "cobra" /\ (AddError \/ signal' = [signal EXCEPT !.content = TRUE])
        \/ kind = "cobra" /\ UNCHANGED signal
    BY <1>6 DEF Run, RunRegional, RunSingle, RunOther, RunCobra, RunRefuses, SetReport
  <2>2. pc = "run" /\ signal = [status |-> 0, content |-> FALSE] /\ UNCHANGED kind
    BY <1>6 DEF Run
  <2>3. /\ signal'.content => kind # "cobra"
        /\ signal'.status = 0 => signal' = [status |-> 0, content |-> kind # "cobra"]
    <3>1. CASE kind # "cobra" /\ AddError
      BY <1>a, <2>2, <3>1
    <3>2. CASE kind # "cobra" /\ signal' = [signal EXCEPT !.content = TRUE]
      BY <2>2, <3>2
    <3> QED BY <2>1, <2>2, <3>1, <3>2
  <2> QED BY <1>6, <2>2, <2>3 DEF Run
<1>7. CASE RequiredFlagMissing
  BY <1>7, <1>a DEF RequiredFlagMissing, Abort
<1>8. CASE PersistentPostRun
  <2>0. pc = "write" /\ writes = <<>> /\ exit' = exit /\ exit = Running /\ toFile /\ toFile' = toFile
        /\ kind' = kind
    BY <1>8 DEF PersistentPostRun
  <2>1. CASE WriteOutput(TRUE) /\ pc' = "returned" /\ UNCHANGED signal
    <3>1. /\ Len(writes') = 1 /\ outputWritten' /\ writes'[1].ok /\ writes'[1].toFile
          /\ writes'[1].signal = signal
      <4> HIDE DEF WritesInv
      <4> QED BY <2>0, <2>1, OneWrite
    <3>2. signal.content => kind # "cobra"
      OBVIOUS
    <3> QED BY <2>0, <2>1, <3>1, <3>2
  <2>2. CASE WriteOutput(FALSE) /\ Abort
    <3>1. Len(writes') = 1 /\ outputWritten' /\ ~writes'[1].ok
      <4> HIDE DEF WritesInv
      <4> QED BY <2>0, <2>2, OneWrite
    <3> QED BY <2>0, <2>2, <3>1, <1>a DEF Abort
  <2> QED BY <1>8, <2>1, <2>2 DEF PersistentPostRun
<1>9. CASE ExecuteWritesFailure
  <2>0. pc = "failed" /\ pc' = "exited" /\ exit' = 1 /\ signal.status = 1
        /\ signal' = signal /\ kind' = kind
    BY <1>9 DEF ExecuteWritesFailure
  <2>1. CASE outputWritten
    <3>1. writes' = writes /\ Len(writes) = 1 /\ ~writes[1].ok
      BY <1>9, <2>0, <2>1 DEF ExecuteWritesFailure
    <3>2. exit' = 1 /\ pc' = "exited" /\ (signal'.content => kind' # "cobra")
      BY <2>0
    <3> QED BY <3>1, <3>2
  <2>2. CASE ~outputWritten
    <3>1. PICK ok \in BOOLEAN : WriteOutput(ok)
      BY <1>9, <2>2 DEF ExecuteWritesFailure
    <3>2. writes = <<>>
      BY <2>0, <2>2
    <3>3. Len(writes') = 1 /\ writes'[1].signal.status = 1
      <4> HIDE DEF WritesInv
      <4> QED BY <2>0, <3>1, <3>2, OneWrite
    <3>4. exit' = 1 /\ pc' = "exited" /\ (signal'.content => kind' # "cobra")
      BY <2>0
    <3> QED BY <3>3, <3>4
  <2> QED BY <2>1, <2>2
<1>10. CASE ExecuteReturns
  <2>1. exit' = signal.status /\ pc = "returned" /\ pc' = "exited" /\ writes' = writes /\ signal' = signal
    BY <1>10 DEF ExecuteReturns
  <2>2. CASE writes = <<>> /\ signal = [status |-> 0, content |-> FALSE]
    BY <1>10, <2>1, <2>2 DEF ExecuteReturns
  <2>3. CASE writes # <<>>
    <3>1. /\ Len(writes) = 1 /\ writes[1].ok /\ writes[1].toFile
          /\ writes[1].signal = signal /\ (signal.status = 0 => signal = Complete)
      BY <2>1, <2>3
    <3> QED BY <1>0, <1>10, <2>1, <3>1 DEF ExecuteReturns
  <2> QED BY <2>1, <2>2, <2>3
<1>11. CASE UNCHANGED vars
  BY <1>11 DEF vars
<1> QED BY <1>1, <1>2, <1>3, <1>4, <1>5, <1>6, <1>7, <1>8, <1>9, <1>10, <1>11, <1>12 DEF Next, Exited

\* However main returns or exits, one output at most was written; a failure is in
\* it unless writing is what failed or the arguments were refused before anything
\* was done; and exit code 0 means that a report was written, or a text asked for.
THEOREM CommandTellsOutcome == Spec => []OutcomeTold
<1>1. Init => WritesInv
  BY DEF Init, WritesInv, Before, SetUp, Running
<1>2. TypeOK /\ WritesInv /\ [Next]_vars => WritesInv'
  BY WritesInductive
<1>3. TypeOK /\ WritesInv => OutcomeTold
  <2> SUFFICES ASSUME TypeOK, WritesInv PROVE OutcomeTold
    OBVIOUS
  <2>1. CASE pc = "exited"
    BY <2>1 DEF WritesInv
  <2>2. CASE pc # "exited"
    <3>1. exit = Running /\ Len(writes) <= 1
      BY <2>2 DEF TypeOK, WritesInv, Before
    <3> QED BY <3>1 DEF OutcomeTold, FailureSerializedOnce, ExitZeroMeansReport, Running, UsageError
  <2> QED BY <2>1, <2>2
<1> QED BY <1>1, <1>2, <1>3, CommandTypeCorrect, PTL DEF Spec

----------------------------------------------------------------------------
(***************************************************************************)
(* What is scanned.                                                        *)
(***************************************************************************)
LEMMA NormalizedSelection ==
  ASSUME NEW R, NormalizeSelectedRegions(R) # {}
  PROVE  /\ NormalizeSelectedRegions(R) = R \ {NoRegion}
         /\ OnePartition(NormalizeSelectedRegions(R))
BY DEF NormalizeSelectedRegions

\* Without a selection the fallback is of the partition that is configured.
LEMMA FallbackPartition ==
  ASSUME NEW c \in RegionNames \cup {NoRegion}, RegionDiscoveryFallback(c, {}) # {}
  PROVE  /\ OnePartition(RegionDiscoveryFallback(c, {}))
         /\ \A r \in RegionDiscoveryFallback(c, {}) :
              Partition[r] = IF c = NoRegion THEN Commercial ELSE Partition[c]
<1> USE RegionAssumption
<1>1. CASE c = NoRegion
  <2>1. RegionDiscoveryFallback(c, {}) = NormalizeSelectedRegions(Fallback[Commercial])
    BY <1>1 DEF RegionDiscoveryFallback
  <2>2. RegionDiscoveryFallback(c, {}) \subseteq Fallback[Commercial]
    BY <2>1 DEF NormalizeSelectedRegions
  <2> QED BY <1>1, <2>1, <2>2, NormalizedSelection
<1>2. CASE c # NoRegion
  <2>1. Partition[c] \in Partitions
    BY <1>2 DEF RegionDiscoveryFallback
  <2>2. RegionDiscoveryFallback(c, {}) = NormalizeSelectedRegions(Fallback[Partition[c]] \cup {c})
    BY <1>2, <2>1 DEF RegionDiscoveryFallback
  <2>3. RegionDiscoveryFallback(c, {}) \subseteq Fallback[Partition[c]] \cup {c}
    BY <2>2 DEF NormalizeSelectedRegions
  <2>4. \A r \in Fallback[Partition[c]] : Partition[r] = Partition[c]
    BY <2>1
  <2> QED BY <1>2, <2>2, <2>3, <2>4, NormalizedSelection
<1> QED BY <1>1, <1>2

\* Of a selection that is refused nothing is left; any other is kept.
LEMMA NormalizedKeeps ==
  ASSUME selected = {} \/ Normalized # {}
  PROVE  /\ selected = {} <=> Normalized = {}
         /\ selected # {} => Normalized = selected \ {NoRegion} /\ OnePartition(Normalized)
BY NormalizedSelection DEF Normalized

\* The discovery ends the command or leaves it regions it has to scan.
LEMMA DiscoveryHonours ==
  ASSUME TypeOK, DiscoverRegions, pc' = "run"
  PROVE  Honoured(regions)' /\ UNCHANGED signal /\ UNCHANGED kind
<1> USE DEF invocation
<1>0. /\ selected = {} \/ Normalized # {}
      /\ UNCHANGED <<kind, selected, configured, enabled>>
  BY DEF DiscoverRegions, SelectionRefused, Abort
<1>1. configured \in RegionNames \cup {NoRegion} /\ enabled # {} /\ OnePartition(enabled)
  BY CommandAssumption DEF TypeOK
<1>2. CASE DescribeRegionsAnswers
  <2>1. /\ discovery' = "answered" /\ UNCHANGED signal
        /\ regions' = EnabledAWSRegions(enabled, Normalized) /\ regions' # {}
    BY <1>2 DEF DescribeRegionsAnswers, SetDiscoveredRegions, Abort
  <2>2. CASE selected = {}
    BY <1>0, <1>1, <2>1, <2>2, NormalizedKeeps DEF EnabledAWSRegions, Honoured
  <2>3. CASE selected # {}
    BY <1>0, <1>1, <2>1, <2>3, NormalizedKeeps DEF EnabledAWSRegions, Honoured
  <2> QED BY <2>2, <2>3, <1>0, <2>1
<1>3. CASE DescribeRegionsFails
  <2>1. /\ discovery' = "failed" /\ UNCHANGED signal
        /\ regions' = RegionDiscoveryFallback(configured, Normalized) /\ regions' # {}
    BY <1>3 DEF DescribeRegionsFails, SetDiscoveredRegions, Abort
  <2>2. CASE selected = {}
    BY <1>0, <1>1, <2>1, <2>2, NormalizedKeeps, FallbackPartition DEF Honoured
  <2>3. CASE selected # {}
    BY <1>0, <1>1, <2>1, <2>3, NormalizedKeeps DEF RegionDiscoveryFallback, Honoured
  <2> QED BY <2>2, <2>3, <1>0, <2>1
<1> QED BY <1>2, <1>3 DEF DiscoverRegions, SelectionRefused, DescribeRegionsIsEmpty, Abort

LEMMA SingleRegionHonours ==
  ASSUME SingleRegion # {}, regions = selected, selected # {}
  PROVE  OnePartition(SingleRegion) /\ SingleRegion = selected \ {NoRegion}
BY NormalizedSelection DEF SingleRegion

\* A step that leaves the regions and the report alone, and does not reach a run.
LEMMA RegionsKept ==
  ASSUME RegionsInv, UNCHANGED <<kind, selected, configured, enabled, discovery, regions, scanned>>,
         signal'.content = signal.content,
         pc' \in SetUp => pc \in SetUp, pc' = "run" => pc = "run" \/ kind # "regional",
         pc = "run" /\ pc' \in SetUp => pc' = "run",
         pc' = "discover" => pc = "discover" \/ kind = "regional"
  PROVE  RegionsInv'
BY DEF RegionsInv, Honoured, SetUp

LEMMA RegionsInductive ==
  ASSUME TypeInv, WritesInv, RegionsInv, [Next]_vars
  PROVE  RegionsInv'
<1> USE DEF invocation, SetUp
<1>0. signal \in [status : {0, 1}, content : BOOLEAN]
  BY DEF TypeInv, TypeOK, Signal, Status
<1>a. AddError => signal'.content = signal.content
  BY <1>0 DEF AddError
<1>12. CASE ParseStandardFlags
  BY <1>12, RegionsKept DEF ParseStandardFlags
<1>1. CASE ParseFlags
  BY <1>1, <1>a, RegionsKept DEF ParseFlags, Abort
<1>2. CASE PrintUsage
  BY <1>2, RegionsKept DEF PrintUsage
<1>3. CASE SetupOutput
  BY <1>3, <1>a, RegionsKept DEF SetupOutput, Abort, Authenticated
<1>4. CASE LoadConfig
  BY <1>4, <1>a, RegionsKept DEF LoadConfig, Abort
<1>5. CASE DiscoverRegions
  <2>1. pc = "discover" /\ ~signal.content /\ UNCHANGED <<kind, selected, configured, enabled, scanned>>
    BY <1>5 DEF DiscoverRegions, WritesInv
  <2>2. CASE pc' = "run"
    <3>1. Honoured(regions)' /\ ~signal'.content
      BY <1>5, <2>1, <2>2, DiscoveryHonours DEF TypeInv
    <3>2. TypeInv'
      BY TypeInductive
    <3>3. kind = "regional"
      BY <2>1 DEF RegionsInv
    <3> QED BY <2>1, <2>2, <3>1, <3>2, <3>3 DEF RegionsInv, TypeInv
  <2>3. CASE pc' # "run"
    <3>1. pc' = "failed" /\ AddError
      BY <1>5, <2>3 DEF DiscoverRegions, SelectionRefused, DescribeRegionsAnswers, DescribeRegionsFails,
                       DescribeRegionsIsEmpty, SetDiscoveredRegions, Abort
    <3>2. ~signal'.content
      BY <1>a, <2>1, <3>1
    <3> QED BY <3>1, <3>2 DEF RegionsInv
  <2> QED BY <2>2, <2>3
<1>6. CASE Run
  <2>0. /\ pc = "run" /\ pc' = "write" /\ ~signal.content
        /\ UNCHANGED <<kind, selected, configured, enabled, discovery, regions>>
    BY <1>6 DEF Run, WritesInv
  <2>1. CASE RunRefuses
    <3>1. ~signal'.content
      BY <1>a, <2>0, <2>1 DEF RunRefuses
    <3> QED BY <2>0, <3>1 DEF RegionsInv
  <2>2. CASE kind = "regional" /\ scanned' = regions
    BY <2>0, <2>2 DEF RegionsInv, Honoured
  <2>3. CASE kind = "single" /\ scanned' = SingleRegion /\ (regions = {} \/ SingleRegion # {})
    <3>1. regions = selected
      BY <2>0, <2>3 DEF RegionsInv
    <3>2. selected # {} => OnePartition(SingleRegion) /\ SingleRegion = selected \ {NoRegion}
      BY <2>3, <3>1, SingleRegionHonours
    <3> QED BY <2>0, <2>3, <3>2 DEF RegionsInv
  <2>4. CASE kind \in {"global", "external"}
    BY <2>0, <2>4 DEF RegionsInv
  <2>5. CASE RunCobra
    BY <2>0, <2>5 DEF RegionsInv, RunCobra
  <2> QED BY <1>6, <2>1, <2>2, <2>3, <2>4, <2>5 DEF Run, RunRegional, RunSingle, RunOther, SetReport
<1>7. CASE RequiredFlagMissing
  BY <1>7, <1>a, RegionsKept DEF RequiredFlagMissing, Abort
<1>8. CASE PersistentPostRun
  BY <1>8, <1>a, RegionsKept DEF PersistentPostRun, Abort
<1>9. CASE ExecuteWritesFailure
  BY <1>9, RegionsKept DEF ExecuteWritesFailure
<1>10. CASE ExecuteReturns
  BY <1>10, RegionsKept DEF ExecuteReturns
<1>11. CASE UNCHANGED vars
  BY <1>11, RegionsKept DEF vars
<1> QED BY <1>1, <1>2, <1>3, <1>4, <1>5, <1>6, <1>7, <1>8, <1>9, <1>10, <1>11, <1>12 DEF Next, Exited

\* What is scanned follows from the selection, and without one from what AWS
\* answered, and without an answer from the partition that is configured.
THEOREM CommandHonoursRegions == Spec => []RegionsHonoured
<1>1. Init => WritesInv /\ RegionsInv
  BY DEF Init, WritesInv, RegionsInv, Before, SetUp, Running
<1>2. TypeInv /\ WritesInv /\ RegionsInv /\ [Next]_vars => (TypeInv /\ WritesInv /\ RegionsInv)'
  BY TypeInductive, WritesInductive, RegionsInductive DEF TypeInv
<1>3. RegionsInv => RegionsHonoured
  BY DEF RegionsInv, RegionsHonoured, SelectionHonoured, DiscoveryTrusted, FallbackInPartition, Honoured
<1> QED BY <1>1, <1>2, <1>3, TypeInitially, PTL DEF Spec
=============================================================================
