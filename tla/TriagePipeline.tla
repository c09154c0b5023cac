--------------------------- MODULE TriagePipeline ---------------------------
(***************************************************************************)
(* The project's two classifiers side by side.  The script                 *)
(* (triage_crashes.py) triages a directory; CrashAnalyzer, a library, is   *)
(* given the logs of the same replays, or a signal, and exports reports.   *)
(* They share no state, so the library is called once the script has       *)
(* exited.                                                                 *)
(***************************************************************************)
EXTENDS CrashTriager, CrashAnalyzer

\* The source of a report tells a log from a signal.
ASSUME PipelineAssumption == Signals \cap Files = {}

pipeline == << triager, analyzer >>

AnalyzeLog(f) ==
  /\ f \in collected \ failed
  /\ analyze_sanitizer_log(f, result[f].phrases, result[f].fault_value)

Analyzer ==
  \/ \E f \in Files : AnalyzeLog(f)
  \/ \E s \in Signals, addr \in FaultAddresses : analyze_signal(s, addr)
  \/ \E p \in Paths : export_json(p)

PipelineInit == Init /\ AnalyzerInit

PipelineNext ==
  \/ Next /\ UNCHANGED analyzer
  \/ phase \in {"exit 0", "exit 1"} /\ Analyzer /\ UNCHANGED triager

PipelineSpec ==
  /\ PipelineInit /\ [][PipelineNext]_pipeline
  /\ Fairness

-----------------------------------------------------------------------------
(* Properties                                                               *)

\* Whatever phrase the log holds, it holds in lower case, as AddressSanitizer
\* writes its report types.
InLowerCase(log) == lower(log.phrases) \subseteq log.phrases

\* The two classifiers search a log in different orders, one in its report
\* type and one in its whole text; still, a report CrashAnalyzer exports never
\* rates a crash lower than the summary does, unless its address lies in the
\* first page, which CrashAnalyzer rates Low whatever the crash, or the log
\* writes a phrase with capitals only, which CrashAnalyzer does not find.
SeverityNotLowered ==
  \A p \in Paths, h \in DOMAIN unique_crashes :
    LET e == unique_crashes[h] IN
    /\ exported[p].source = e.representative_file
    /\ exported[p].fault_address >= FirstPage
    /\ InLowerCase(result[e.representative_file])
    => CrashSeverity[exported[p].severity] >= CrashSeverity[e.severity]

=============================================================================
