---------------------------- MODULE CrashAnalyzer ----------------------------
(***************************************************************************)
(* sentinel::triage::CrashAnalyzer: classifies a POSIX signal or the log   *)
(* of a sanitizer and exports the report as JSON.                          *)
(*                                                                         *)
(* A log is a text, searched as it stands; the name of a signal holds none *)
(* of the phrases.  Reports keep what the classification is about: their   *)
(* source, class, severity and fault address.  The identifier, the summary *)
(* line, the time and the stack frames are text that nothing reads back.   *)
(***************************************************************************)
EXTENDS Integers, LogText

CONSTANTS
  Paths,           \* output_path of export_json
  Signals,         \* signal numbers, by name
  FaultAddresses,  \* si_addr of a signal
  AddressMod       \* scaled 2^64

ASSUME AnalyzerAssumption ==
  /\ AddressMod \in Nat /\ FaultAddresses \subseteq 0 .. (AddressMod - 1)

VARIABLES
  analysis,   \* the CrashAnalysisReport of the last call
  exported    \* path -> what the file holds

analyzer == << analysis, exported >>

\* The severities in their order, and the address below which any crash is Low.
CrashSeverity == [Low |-> 0, Medium |-> 1, High |-> 2, Critical |-> 3]
FirstPage == 4096

CrashAnalysisReport(source, cwe_type, severity, fault_address) ==
  [source |-> source, cwe_type |-> cwe_type, severity |-> severity,
   fault_address |-> fault_address]

NoReport  == CrashAnalysisReport("none", "CWE-999", "Low", 0)
Truncated == CrashAnalysisReport("cut short", "CWE-999", "Low", 0)

\* A classification that looks for a null pointer before anything else.
classify_null_first(status, signal_number, log) ==
  IF contains(log, "null-pointer") \/ signal_number = "SIGSEGV" THEN "CWE-476"
  ELSE IF contains(log, "use-after-free") THEN "CWE-416"
  ELSE IF contains(log, "heap-buffer-overflow") \/ contains(log, "global-buffer-overflow")
    THEN "CWE-122"
  ELSE IF contains(log, "stack-buffer-overflow") \/ status = "ErrOutOfBoundsRead" THEN "CWE-119"
  ELSE IF contains(log, "integer-overflow") \/ status = "ErrIntegerOverflow" THEN "CWE-190"
  ELSE "CWE-999"

classify_cwe(status, signal_number, log) ==
  IF contains(log, "heap-use-after-free") \/ contains(log, "use-after-free") THEN "CWE-416"
  ELSE IF contains(log, "heap-buffer-overflow") \/ contains(log, "global-buffer-overflow")
    THEN "CWE-122"
  ELSE IF contains(log, "stack-buffer-overflow") \/ status = "ErrOutOfBoundsRead" THEN "CWE-119"
  ELSE IF contains(log, "integer-overflow") \/ status = "ErrIntegerOverflow" THEN "CWE-190"
  ELSE IF contains(log, "null-pointer") \/ signal_number = "SIGSEGV" THEN "CWE-476"
  ELSE "CWE-999"

evaluate_severity(cwe, fault_addr) ==
  IF cwe = "CWE-476" \/ fault_addr < FirstPage THEN "Low"
  ELSE CASE cwe \in {"CWE-122", "CWE-416"} -> "Critical"
         [] cwe \in {"CWE-119", "CWE-190"} -> "High"
         [] cwe = "CWE-999"                -> "Medium"

Analyzed(source, signal_number, log, fault_address) ==
  LET cwe == classify_cwe("ErrSanitizerViolation", signal_number, log)
  IN  CrashAnalysisReport(source, cwe, evaluate_severity(cwe, fault_address), fault_address)

\* Without a siginfo_t the address keeps its initial 0.
analyze_signal(signal_number, si_addr) ==
  /\ analysis' = Analyzed(signal_number, signal_number, {}, si_addr)
  /\ UNCHANGED exported

\* fault_value is the first number [0-9a-f] matches after "0x", 0 without one;
\* stoull throws for a number of more than 64 bits, and the call has no result.
analyze_sanitizer_log(source, log, fault_value) ==
  /\ fault_value < AddressMod
  /\ analysis' = Analyzed(source, "none", log, fault_value)
  /\ UNCHANGED exported

\* A file that cannot be opened is told apart (ErrOutOfBoundsRead); a stream
\* that fails later is not, and the answer is Success.
export_json(output_path) ==
  /\ analysis # NoReport
  /\ exported' \in {exported, [exported EXCEPT ![output_path] = analysis],
                    [exported EXCEPT ![output_path] = Truncated]}
  /\ UNCHANGED analysis

AnalyzerInit == analysis = NoReport /\ exported = [p \in Paths |-> NoReport]

=============================================================================
