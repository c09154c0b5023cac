---------------------------- MODULE CrashTriager ----------------------------
(***************************************************************************)
(* scripts/triage_crashes.py: the crash files of a directory are replayed  *)
(* by a pool of worker threads, the main thread merges the logs in the     *)
(* order the futures complete, one entry per signature, and writes the     *)
(* summary.                                                                *)
(*                                                                         *)
(* A log is reduced to what parse_asan_log looks at: the phrases in its    *)
(* AddressSanitizer report type, those anywhere in its text, the fault     *)
(* address (its text, and the number it stands for), the top frames ("" if *)
(* none match) and the text that stands in for them.  The truncated        *)
(* SHA-256 of a signature is taken to be injective.                        *)
(***************************************************************************)
EXTENDS Integers, FiniteSets, Functions, LogText

CONSTANTS
  Files,         \* entries of the crash directory, in no particular order
  Folders,       \* those that are no files
  Hidden,        \* those whose name starts with "."
  LogsOf,        \* file -> the logs its replay may print
  Hangs,         \* files whose replay may never end by itself
  Breaks,        \* files whose replay may raise (OSError, decoding)
  max_workers

ASSUME TriagerAssumption ==
  /\ max_workers \in Nat \ {0}    \* ThreadPoolExecutor raises otherwise
  /\ IsFiniteSet(Files)
  /\ Folders \cup Hidden \cup Hangs \cup Breaks \subseteq Files
  \* The report type is a part of the text.
  /\ \A f \in Files : \A log \in LogsOf[f] :
       /\ log.fault_value \in Nat
       /\ IsText(log.report_type) /\ IsText(log.phrases)
       /\ log.report_type \subseteq log.phrases

VARIABLES
  phase,             \* "start", "triage", and the exit codes "exit 0" and "exit 1"
  crash_files,       \* what the scan of the directory found
  submitted, running, finished, collected,  \* sets of files: their future's state
  result,            \* file -> log or exception of a finished future
  unique_crashes,    \* crash_hash -> entry
  total_processed,
  failed,            \* files whose result raised (printed to stderr)
  output             \* the report file

pool == << submitted, running, finished, collected, result >>
main == << phase, crash_files, output >>
triager == << phase, crash_files, output, submitted, running, finished, collected, result, unique_crashes,
              total_processed, failed >>

\* What run_target returns when the replay times out.
TimeoutLog == [report_type |-> {}, phrases |-> {}, fault_addr |-> "0x0", fault_value |-> 0,
               frames |-> "", text |-> "[SENTINEL-TRIAGE] Execution Timed Out"]
Raised == [TimeoutLog EXCEPT !.text = "exception"]
NoLog  == [TimeoutLog EXCEPT !.text = "not replayed yet"]

(* parse_asan_log *)

\* Capitals make no difference: both texts are lowered first.
InType(log, phrase) == contains(lower(log.report_type), phrase)
InLog(log, phrase)  == contains(lower(log.phrases), phrase)

cwe_type(log) ==
  IF InType(log, "use-after-free") THEN "CWE-416"
  ELSE IF InType(log, "heap-buffer-overflow") THEN "CWE-122"
  ELSE IF InType(log, "stack-buffer-overflow") \/ InType(log, "global-buffer-overflow")
    THEN "CWE-119"
  ELSE IF InLog(log, "null-pointer") \/ log.fault_addr = "0x0" THEN "CWE-476"
  ELSE IF InLog(log, "integer-overflow") THEN "CWE-190"
  ELSE "CWE-999"

severity(log) ==
  CASE cwe_type(log) \in {"CWE-416", "CWE-122"} -> "Critical"
    [] cwe_type(log) \in {"CWE-119", "CWE-190"} -> "High"
    [] cwe_type(log) = "CWE-476"                -> "Low"
    [] cwe_type(log) = "CWE-999"                -> "Medium"

crash_hash(log) == IF log.frames # "" THEN log.frames ELSE log.text

(* The start of main *)

visible == Files \ (Folders \cup Hidden)

scan ==
  /\ phase = "start"
  /\ crash_files' = visible /\ phase' = "triage"
  /\ UNCHANGED << output, pool, unique_crashes, total_processed, failed >>

\* The target is missing or not executable, the directory is missing, or it
\* cannot be read.
ScanRaises ==
  /\ phase = "start"
  /\ phase' = "exit 1"
  /\ UNCHANGED << crash_files, output, pool, unique_crashes, total_processed, failed >>

(* The pool *)

submit(f) ==
  /\ phase = "triage" /\ f \in crash_files \ submitted
  /\ submitted' = submitted \cup {f}
  /\ UNCHANGED << main, running, finished, collected, result, unique_crashes,
                  total_processed, failed >>

\* An idle worker takes a queued future.
StartReplay(f) ==
  /\ f \in submitted \ (running \cup finished \cup collected)
  /\ Cardinality(running) < max_workers
  /\ running' = running \cup {f}
  /\ UNCHANGED << main, submitted, finished, collected, result, unique_crashes,
                  total_processed, failed >>

Finish(f, log) ==
  /\ f \in running
  /\ running' = running \ {f} /\ finished' = finished \cup {f}
  /\ result' = [result EXCEPT ![f] = log]
  /\ UNCHANGED << main, submitted, collected, unique_crashes, total_processed, failed >>

run_target(f) == \E log \in LogsOf[f] : Finish(f, log)

\* A replay without the timeout: a hanging target is waited for.
TargetTimesOutNever(f) == FALSE /\ Finish(f, TimeoutLog)

\* A hanging target is killed; a slow one may be too.
TargetTimesOut(f) == Finish(f, TimeoutLog)

TargetRaises(f) == f \in Breaks /\ Finish(f, Raised)

(* The main thread *)

NewEntry(f, log) ==
  [cwe_type |-> cwe_type(log), severity |-> severity(log),
   representative_file |-> f, matching_crash_count |-> 1]

\* A merge that takes every log for a new signature.
MergedOverwrites(f, log) ==
  [h \in DOMAIN unique_crashes \cup {crash_hash(log)} |->
     IF h = crash_hash(log) THEN NewEntry(f, log) ELSE unique_crashes[h]]

\* A merge that lets the latest file stand for the signature.
MergedRenames(f, log) ==
  IF crash_hash(log) \in DOMAIN unique_crashes
  THEN [unique_crashes EXCEPT ![crash_hash(log)].matching_crash_count = @ + 1,
                              ![crash_hash(log)].representative_file = f]
  ELSE [h \in DOMAIN unique_crashes \cup {crash_hash(log)} |->
          IF h = crash_hash(log) THEN NewEntry(f, log) ELSE unique_crashes[h]]

Merged(f, log) ==
  IF crash_hash(log) \in DOMAIN unique_crashes
  THEN [unique_crashes EXCEPT ![crash_hash(log)].matching_crash_count = @ + 1]
  ELSE [h \in DOMAIN unique_crashes \cup {crash_hash(log)} |->
          IF h = crash_hash(log) THEN NewEntry(f, log) ELSE unique_crashes[h]]

\* One iteration of as_completed, which starts when everything is submitted.
Collect(f) ==
  /\ submitted = crash_files
  /\ f \in finished
  /\ finished' = finished \ {f} /\ collected' = collected \cup {f}
  /\ total_processed' = total_processed + 1
  /\ \/ result[f] = Raised /\ failed' = failed \cup {f} /\ UNCHANGED unique_crashes
     \/ /\ result[f] # Raised
        /\ unique_crashes' = Merged(f, result[f])
        /\ UNCHANGED failed
  /\ UNCHANGED << main, submitted, running, result >>

(* The end of main *)

\* An earlier report may be there before the first write.
Report(state, total, vulnerabilities) ==
  [state |-> state, total_crash_files_triaged |-> total,
   unique_vulnerabilities |-> vulnerabilities]
NoEntries == [h \in {} |-> 0]

Written(code, file) ==
  /\ phase' = code /\ output' = file
  /\ UNCHANGED << crash_files, pool, unique_crashes, total_processed, failed >>

\* A pool that drops what is still queued when its workers are idle.
TriageReturnsEarly == phase = "triage" /\ running = {} /\ finished = {}

TriageReturns == phase = "triage" /\ collected = crash_files

WriteSummary ==
  /\ TriageReturns
  /\ Written("exit 0", Report("complete", total_processed, unique_crashes))

\* The directory or the file cannot be made, or a write fails half way.
WriteRaises ==
  /\ TriageReturns
  /\ \/ Written("exit 1", output)
     \/ Written("exit 1", Report("truncated", 0, NoEntries))

Init ==
  /\ phase = "start" /\ crash_files = {} /\ output = Report("earlier", 0, NoEntries)
  /\ submitted = {} /\ running = {} /\ finished = {} /\ collected = {}
  /\ result = [f \in Files |-> NoLog]
  /\ unique_crashes = NoEntries
  /\ total_processed = 0 /\ failed = {}

MainThread ==
  \/ scan \/ ScanRaises
  \/ \E f \in Files : submit(f) \/ Collect(f)
  \/ WriteSummary \/ WriteRaises
Worker(f) == TargetTimesOut(f) \/ TargetRaises(f) \/ run_target(f)
Next == MainThread \/ \E f \in Files : StartReplay(f) \/ Worker(f)

\* The main thread goes on, an idle worker takes the next future, and a replay
\* ends at the latest by its timeout.  A hanging replay need not end otherwise.
Fairness ==
  /\ WF_triager(MainThread)
  /\ WF_triager(\E f \in Files : StartReplay(f))
  /\ \A f \in Hangs : WF_triager(TargetTimesOut(f))
  /\ \A f \in Files \ Hangs : WF_triager(Worker(f))

-----------------------------------------------------------------------------
(* Properties                                                               *)

CountOf(h) == unique_crashes[h].matching_crash_count
Total == SumFunction([h \in DOMAIN unique_crashes |-> CountOf(h)])
WrittenTotal ==
  SumFunction([h \in DOMAIN output.unique_vulnerabilities |->
                 output.unique_vulnerabilities[h].matching_crash_count])

\* The summary accounts for every file read so far, in whatever order the
\* futures complete: counted in exactly one entry, or printed as a failure.
EveryFileCounted ==
  /\ total_processed = Cardinality(collected)
  /\ Total + Cardinality(failed) = total_processed
  /\ \A h \in DOMAIN unique_crashes :
       CountOf(h) = Cardinality({f \in collected \ failed : crash_hash(result[f]) = h})

\* An entry describes a file that really has its signature: class, severity
\* and representative file come from the same replay.
EntriesConsistent ==
  \A h \in DOMAIN unique_crashes :
    LET e == unique_crashes[h]
        log == result[e.representative_file]
    IN  /\ e.representative_file \in collected \ failed
        /\ crash_hash(log) = h
        /\ e.cwe_type = cwe_type(log) /\ e.severity = severity(log)

\* The exit code can be trusted: it is 0 exactly when the report file is this
\* run's, whole, and accounts for every visible file of the directory, those
\* whose replay hung or raised included.
SummaryComplete ==
  /\ phase = "exit 0" <=> output.state = "complete"
  /\ output.state = "complete" =>
       /\ output.total_crash_files_triaged = Cardinality(visible)
       /\ WrittenTotal + Cardinality(failed) = Cardinality(visible)

\* The script ends, although targets may hang: every worker is freed by the
\* timeout.
TriageEnds == <>(phase \in {"exit 0", "exit 1"})

=============================================================================
