------------------------ MODULE TriagePipelineProofs ------------------------
(***************************************************************************)
(* The triage script and the library beside it, for every directory, every *)
(* log and every number of workers: whatever order the futures complete    *)
(* in, each file is counted once, the exit code can be trusted, and the    *)
(* two classifiers do not contradict each other.                           *)
(***************************************************************************)
EXTENDS TriagePipeline, FoldLemmas

(* The inductive invariant *)

\* What CrashAnalyzer can rely on in a log.
LogOK(log) ==
  /\ log.fault_value \in Nat
  /\ log.report_type \subseteq log.phrases

\* The states of a future: queued, running, finished, collected.
PoolInv ==
  /\ phase \in {"start", "triage", "exit 0", "exit 1"}
  /\ phase = "start" => crash_files = {}
  /\ phase \in {"triage", "exit 0"} => crash_files = visible
  /\ crash_files \subseteq Files /\ submitted \subseteq crash_files
  /\ running \cup finished \cup collected \subseteq submitted
  /\ running \cap finished = {} /\ running \cap collected = {} /\ finished \cap collected = {}
  /\ DOMAIN result = Files /\ \A f \in Files : LogOK(result[f])

\* The files that share signature h, so far.
WithHash(h) == {f \in collected \ failed : crash_hash(result[f]) = h}

Entry(f, log, n) ==
  [cwe_type |-> cwe_type(log), severity |-> severity(log),
   representative_file |-> f, matching_crash_count |-> n]

CountsOf(table) == [h \in DOMAIN table |-> table[h].matching_crash_count]

\* One entry per signature met, about one of its files, with their number.
EntriesInv ==
  /\ DOMAIN unique_crashes = {crash_hash(result[f]) : f \in collected \ failed}
  /\ \A h \in DOMAIN unique_crashes :
       \E f \in WithHash(h) :
         unique_crashes[h] = Entry(f, result[f], Cardinality(WithHash(h)))

CountInv ==
  /\ failed = {f \in collected : result[f] = Raised}
  /\ total_processed = Cardinality(collected)
  /\ SumFunction(CountsOf(unique_crashes)) + Cardinality(failed) = total_processed

OutputInv ==
  /\ phase \in {"start", "triage"} => output.state = "earlier"
  /\ phase = "exit 1" => output.state \in {"earlier", "truncated"}
  /\ phase = "exit 0" =>
       /\ collected = crash_files
       /\ output = Report("complete", total_processed, unique_crashes)

TriagerInv == PoolInv /\ EntriesInv /\ CountInv /\ OutputInv

\* A report about a log in lower case, outside the first page, rates it no
\* lower than the script does.
ReportOK(r) ==
  r.source \in Files /\ r.fault_address >= FirstPage =>
    /\ r.source \in collected \ failed
    /\ InLowerCase(result[r.source]) =>
         CrashSeverity[r.severity] >= CrashSeverity[severity(result[r.source])]

AnalyzerInv ==
  /\ ReportOK(analysis)
  /\ DOMAIN exported = Paths /\ \A p \in Paths : ReportOK(exported[p])

PipelineInv == TriagerInv /\ AnalyzerInv

-----------------------------------------------------------------------------
(* Lemmas *)

\* The classes of the script and their severities.
LEMMA ScriptClasses ==
  ASSUME NEW log
  PROVE  /\ cwe_type(log) \in {"CWE-416", "CWE-122", "CWE-119", "CWE-476", "CWE-190", "CWE-999"}
         /\ severity(log) \in DOMAIN CrashSeverity
<1>1. cwe_type(log) \in {"CWE-416", "CWE-122", "CWE-119", "CWE-476", "CWE-190", "CWE-999"}
  BY DEF cwe_type
<1> QED BY <1>1 DEF severity, CrashSeverity

\* What the script's order of tests means, one severity at a time.
LEMMA ScriptSeverity ==
  ASSUME NEW log
  PROVE  /\ CrashSeverity[severity(log)] = 3 =>
              InType(log, "use-after-free") \/ InType(log, "heap-buffer-overflow")
         /\ CrashSeverity[severity(log)] = 2 =>
              \/ InType(log, "stack-buffer-overflow") \/ InType(log, "global-buffer-overflow")
              \/ InLog(log, "integer-overflow")
         /\ CrashSeverity[severity(log)] = 1 => ~InLog(log, "null-pointer")
         /\ CrashSeverity[severity(log)] \in {0, 1, 2, 3}
BY DEF severity, cwe_type, CrashSeverity

\* In a log that has its phrases in lower case, a search that tells capitals
\* from small letters finds what the script finds, and no more.
LEMMA SameFound ==
  ASSUME NEW log, NEW phrase, log.report_type \subseteq log.phrases, InLowerCase(log)
  PROVE  /\ InType(log, phrase) => contains(log.phrases, phrase)
         /\ InLog(log, phrase) <=> contains(log.phrases, phrase)
<1>1. InType(log, phrase) => InLog(log, phrase)
  BY DEF InType, InLog, contains, lower
<1>2. InLog(log, phrase) => contains(log.phrases, phrase)
  BY DEF InLog, contains, InLowerCase
<1>3. contains(log.phrases, phrase) => InLog(log, phrase)
  <2> SUFFICES ASSUME << phrase, "lower case" >> \in log.phrases
               PROVE  << phrase, "lower case" >> \in lower(log.phrases)
    BY DEF InLog, contains
  <2>1. << phrase, "lower case" >>[1] = phrase
    OBVIOUS
  <2> QED BY <2>1 DEF lower
<1> QED BY <1>1, <1>2, <1>3

\* CrashAnalyzer's order of tests, on the same text.
LEMMA LibrarySeverity ==
  ASSUME NEW log, NEW v \in Nat, v >= FirstPage,
         log.report_type \subseteq log.phrases, InLowerCase(log)
  PROVE  CrashSeverity[Analyzed("any", "none", log.phrases, v).severity]
           >= CrashSeverity[severity(log)]
<1> DEFINE ps == log.phrases
           cwe == classify_cwe("ErrSanitizerViolation", "none", ps)
           sev == evaluate_severity(cwe, v)
<1>1. Analyzed("any", "none", ps, v).severity = sev
  BY DEF Analyzed, CrashAnalysisReport
<1>2. ~(v < FirstPage)
  BY DEF FirstPage
<1>3. \A phrase : /\ InType(log, phrase) => contains(ps, phrase)
                  /\ InLog(log, phrase) <=> contains(ps, phrase)
  BY SameFound
<1>4. InType(log, "use-after-free") \/ InType(log, "heap-buffer-overflow") =>
        cwe \in {"CWE-416", "CWE-122"}
  <2> HIDE DEF ps
  <2> QED BY <1>3 DEF classify_cwe
<1>5. \/ InType(log, "stack-buffer-overflow") \/ InType(log, "global-buffer-overflow")
      \/ InLog(log, "integer-overflow")
      => cwe \in {"CWE-416", "CWE-122", "CWE-119", "CWE-190"}
  <2> HIDE DEF ps
  <2> QED BY <1>3 DEF classify_cwe
<1>6. ~InLog(log, "null-pointer") => cwe # "CWE-476"
  <2> HIDE DEF ps
  <2> QED BY <1>3 DEF classify_cwe
<1>7. cwe \in {"CWE-416", "CWE-122", "CWE-119", "CWE-190", "CWE-476", "CWE-999"}
  BY DEF classify_cwe
<1> HIDE DEF cwe
<1>8. /\ cwe \in {"CWE-416", "CWE-122"} => CrashSeverity[sev] = 3
      /\ cwe \in {"CWE-119", "CWE-190"} => CrashSeverity[sev] = 2
      /\ cwe = "CWE-999" => CrashSeverity[sev] = 1
      /\ cwe = "CWE-476" => CrashSeverity[sev] = 0
  BY <1>2 DEF evaluate_severity, CrashSeverity
<1> HIDE DEF sev, ps
<1>9. CrashSeverity[sev] >= CrashSeverity[severity(log)]
  BY <1>4, <1>5, <1>6, <1>7, <1>8, ScriptSeverity
<1> QED BY <1>1, <1>9 DEF ps

\* The sets of files are finite: so are the table and every count.
LEMMA Finite ==
  ASSUME PoolInv
  PROVE  /\ IsFiniteSet(collected)
         /\ \A S \in SUBSET collected : IsFiniteSet(S) /\ Cardinality(S) \in Nat
<1>1. collected \subseteq Files /\ IsFiniteSet(Files)
  BY TriagerAssumption DEF PoolInv
<1>2. IsFiniteSet(collected)
  BY <1>1, FS_Subset
<1> QED BY <1>2, FS_Subset, FS_CardinalityType

\* The counts of the table are a function that can be summed.
LEMMA CountsTyped ==
  ASSUME PoolInv, EntriesInv
  PROVE  /\ IsFiniteSet(DOMAIN unique_crashes)
         /\ CountsOf(unique_crashes) \in [DOMAIN unique_crashes -> Int]
         /\ \A h \in DOMAIN unique_crashes :
              unique_crashes[h].matching_crash_count = Cardinality(WithHash(h))
<1> DEFINE G == collected \ failed
           hash == [f \in G |-> crash_hash(result[f])]
<1>1. IsFiniteSet(G)
  BY Finite
<1>2. DOMAIN unique_crashes = {hash[f] : f \in G}
  BY DEF EntriesInv
<1>3. IsFiniteSet(DOMAIN unique_crashes)
  <2>1. hash \in Surjection(G, DOMAIN unique_crashes)
    BY <1>2 DEF Surjection
  <2> HIDE DEF G, hash
  <2> QED BY <1>1, <2>1, FS_Surjection
<1>4. ASSUME NEW h \in DOMAIN unique_crashes
      PROVE  /\ unique_crashes[h].matching_crash_count = Cardinality(WithHash(h))
             /\ Cardinality(WithHash(h)) \in Nat
  <2>1. WithHash(h) \in SUBSET collected
    BY DEF WithHash
  <2>2. Cardinality(WithHash(h)) \in Nat
    BY <2>1, Finite
  <2>3. PICK f \in WithHash(h) :
              unique_crashes[h] = Entry(f, result[f], Cardinality(WithHash(h)))
    BY DEF EntriesInv
  <2> QED BY <2>2, <2>3 DEF Entry
<1> QED BY <1>3, <1>4 DEF CountsOf

\* The fields of a report file.
LEMMA ReportFields ==
  ASSUME NEW state, NEW total, NEW entries
  PROVE  /\ Report(state, total, entries).state = state
         /\ Report(state, total, entries).total_crash_files_triaged = total
         /\ Report(state, total, entries).unique_vulnerabilities = entries
BY DEF Report

-----------------------------------------------------------------------------
(* The script *)

\* A step that collects nothing keeps the books: the result of a collected
\* future never changes.
LEMMA BooksKept ==
  ASSUME EntriesInv, CountInv,
         UNCHANGED << collected, failed, unique_crashes, total_processed >>,
         \A f \in collected : result'[f] = result[f]
  PROVE  EntriesInv' /\ CountInv'
<1>1. failed \subseteq collected
  BY DEF CountInv
<1>2. \A h : WithHash(h)' = WithHash(h)
  BY DEF WithHash
<1>3. {crash_hash(result[f]) : f \in collected \ failed}'
        = {crash_hash(result[f]) : f \in collected \ failed}
  BY DEF crash_hash
<1>4. EntriesInv'
  <2> SUFFICES ASSUME NEW h \in DOMAIN unique_crashes
               PROVE  \E f \in WithHash(h) :
                        unique_crashes[h] = Entry(f, result'[f], Cardinality(WithHash(h)))
    BY <1>2, <1>3 DEF EntriesInv
  <2>1. PICK f \in WithHash(h) :
              unique_crashes[h] = Entry(f, result[f], Cardinality(WithHash(h)))
    BY DEF EntriesInv
  <2>2. f \in collected
    BY DEF WithHash
  <2> QED BY <2>1, <2>2
<1>5. CountInv'
  BY DEF CountInv
<1> QED BY <1>4, <1>5

\* A failed replay moves its file to the failures and touches no entry.
LEMMA FailureKept ==
  ASSUME PoolInv, EntriesInv, CountInv, NEW f \in finished, result[f] = Raised,
         collected' = collected \cup {f}, failed' = failed \cup {f},
         total_processed' = total_processed + 1, UNCHANGED << unique_crashes, result >>
  PROVE  EntriesInv' /\ CountInv'
<1>1. f \notin collected /\ failed \subseteq collected
  BY DEF PoolInv, CountInv
<1>2. collected' \ failed' = collected \ failed
  BY <1>1
<1>3. EntriesInv'
  <2>1. \A h : WithHash(h)' = WithHash(h)
    BY <1>2 DEF WithHash
  <2> QED BY <1>2, <2>1 DEF EntriesInv
<1>4. /\ Cardinality(collected \cup {f}) = Cardinality(collected) + 1
      /\ Cardinality(failed \cup {f}) = Cardinality(failed) + 1
  BY <1>1, Finite, FS_AddElement
<1>5. /\ Cardinality(collected) \in Nat /\ Cardinality(failed) \in Nat
  BY <1>1, Finite
<1>6. SumFunction(CountsOf(unique_crashes)) \in Int
  <2> DEFINE D == DOMAIN unique_crashes
             g == CountsOf(unique_crashes)
  <2>1. IsFiniteSet(D) /\ g \in [D -> Int]
    BY CountsTyped
  <2> HIDE DEF D, g
  <2>2. PICK F : IsSum(F, g) /\ SumFunction(g) = F[D]
    BY <2>1, SumFunctionIsSum
  <2>3. F \in [SUBSET D -> Int]
    BY <2>1, <2>2 DEF IsSum
  <2>4. SumFunction(g) \in Int
    BY <2>2, <2>3
  <2> QED BY <2>4 DEF g
<1>7. CountInv'
  <2>1. failed' = {x \in collected' : result'[x] = Raised}
    BY <1>1 DEF CountInv
  <2> QED BY <1>4, <1>5, <1>6, <2>1 DEF CountInv
<1> QED BY <1>3, <1>7

\* A merge adds one to the entry of the log's signature and to no other.
LEMMA MergeKept ==
  ASSUME PoolInv, EntriesInv, CountInv, NEW f \in finished, result[f] # Raised,
         collected' = collected \cup {f}, unique_crashes' = Merged(f, result[f]),
         total_processed' = total_processed + 1, UNCHANGED << failed, result >>
  PROVE  EntriesInv' /\ CountInv'
<1> DEFINE h0 == crash_hash(result[f])
           D == DOMAIN unique_crashes
           old == CountsOf(unique_crashes)
           new == CountsOf(unique_crashes')
<1>1. f \notin collected /\ f \notin failed /\ failed \subseteq collected
  BY DEF PoolInv, CountInv
<1>2. /\ \A h : h # h0 => WithHash(h)' = WithHash(h)
      /\ WithHash(h0)' = WithHash(h0) \cup {f} /\ f \notin WithHash(h0)
  BY <1>1 DEF WithHash
<1>3. \A h : IsFiniteSet(WithHash(h)) /\ Cardinality(WithHash(h)) \in Nat
  <2>1. \A h : WithHash(h) \in SUBSET collected
    BY DEF WithHash
  <2> QED BY <2>1, Finite
<1>4. Cardinality(WithHash(h0) \cup {f}) = Cardinality(WithHash(h0)) + 1
  BY <1>2, <1>3, FS_AddElement
<1>5. Cardinality(collected \cup {f}) = Cardinality(collected) + 1
      /\ Cardinality(collected) \in Nat /\ Cardinality(failed) \in Nat
  BY <1>1, Finite, FS_AddElement
<1>6. IsFiniteSet(D) /\ old \in [D -> Int]
      /\ \A h \in D : unique_crashes[h].matching_crash_count = Cardinality(WithHash(h))
  BY CountsTyped
<1>7. {crash_hash(result[x]) : x \in collected \ failed}'
        = {crash_hash(result[x]) : x \in collected \ failed} \cup {h0}
  BY <1>1 DEF crash_hash
<1>8. CASE h0 \in D
  <2> DEFINE n == Cardinality(WithHash(h0))
  <2>1. PICK g \in WithHash(h0) : unique_crashes[h0] = Entry(g, result[g], n)
    BY <1>8 DEF EntriesInv
  <2>2. unique_crashes' = [unique_crashes EXCEPT ![h0].matching_crash_count = @ + 1]
    BY <1>8 DEF Merged
  <2>3. /\ DOMAIN unique_crashes' = D
        /\ \A h \in D : h # h0 => unique_crashes'[h] = unique_crashes[h]
        /\ unique_crashes'[h0] = [unique_crashes[h0] EXCEPT !.matching_crash_count = @ + 1]
    BY <1>8, <2>2
  <2>4. unique_crashes'[h0] = Entry(g, result[g], n + 1)
    <3> HIDE DEF n
    <3> QED BY <2>1, <2>3 DEF Entry
  <2>5. EntriesInv'
    <3>1. \A h \in D : \E x \in WithHash(h)' :
            unique_crashes'[h] = Entry(x, result[x], Cardinality(WithHash(h)'))
      <4> SUFFICES ASSUME NEW h \in D
                   PROVE  \E x \in WithHash(h)' :
                            unique_crashes'[h] = Entry(x, result[x], Cardinality(WithHash(h)'))
        OBVIOUS
      <4>1. CASE h = h0
        BY <1>2, <1>4, <2>1, <2>4, <4>1
      <4>2. CASE h # h0
        BY <1>2, <2>3, <4>2 DEF EntriesInv
      <4> QED BY <4>1, <4>2
    <3>2. DOMAIN unique_crashes' = {crash_hash(result[x]) : x \in collected \ failed}'
      BY <1>7, <1>8, <2>3 DEF EntriesInv
    <3> QED BY <2>3, <3>1, <3>2 DEF EntriesInv
  <2>6. /\ new \in [D -> Int] /\ new[h0] = old[h0] + 1
        /\ \A h \in D \ {h0} : new[h] = old[h]
    <3>1. new[h0] = n + 1 /\ old[h0] = n /\ n \in Nat
      BY <1>3, <1>6, <1>8, <2>3, <2>4 DEF CountsOf, Entry
    <3>2. \A h \in D \ {h0} : new[h] = old[h]
      BY <2>3 DEF CountsOf
    <3>3. DOMAIN new = D /\ new = [h \in D |-> new[h]]
      BY <2>3 DEF CountsOf
    <3> HIDE DEF new, old, n
    <3>4. \A h \in D : new[h] \in Int
      BY <1>6, <3>1, <3>2
    <3> QED BY <3>1, <3>2, <3>3, <3>4
  <2>7. SumFunction(new) = SumFunction(old) + 1 /\ SumFunction(old) \in Int
    <3> HIDE DEF new, old, D, h0
    <3>1. SumFunction(new) = SumFunction(old) - old[h0] + new[h0] /\ SumFunction(old) \in Int
      BY <1>6, <1>8, <2>6, SumUpdate
    <3>2. old[h0] \in Int
      BY <1>6, <1>8
    <3> QED BY <2>6, <3>1, <3>2
  <2> QED BY <1>1, <1>5, <2>5, <2>7 DEF CountInv
<1>9. CASE h0 \notin D
  <2>1. unique_crashes' = [h \in D \cup {h0} |->
                             IF h = h0 THEN NewEntry(f, result[f]) ELSE unique_crashes[h]]
    BY <1>9 DEF Merged
  <2>2. WithHash(h0) = {}
    BY <1>9 DEF WithHash, EntriesInv
  <2>3. Cardinality(WithHash(h0)') = 1
    <3>1. WithHash(h0)' = {f}
      BY <1>2, <2>2
    <3>2. Cardinality({f}) = 1
      BY FS_Singleton
    <3> QED BY <3>1, <3>2
  <2>4. /\ DOMAIN unique_crashes' = D \cup {h0}
        /\ \A h \in D : unique_crashes'[h] = unique_crashes[h]
        /\ unique_crashes'[h0] = Entry(f, result[f], 1)
    BY <1>9, <2>1 DEF NewEntry, Entry
  <2>5. EntriesInv'
    <3>1. \A h \in D \cup {h0} : \E x \in WithHash(h)' :
            unique_crashes'[h] = Entry(x, result[x], Cardinality(WithHash(h)'))
      <4> SUFFICES ASSUME NEW h \in D \cup {h0}
                   PROVE  \E x \in WithHash(h)' :
                            unique_crashes'[h] = Entry(x, result[x], Cardinality(WithHash(h)'))
        OBVIOUS
      <4>1. CASE h = h0
        BY <1>2, <2>3, <2>4, <4>1
      <4>2. CASE h # h0
        BY <1>2, <2>4, <4>2 DEF EntriesInv
      <4> QED BY <4>1, <4>2
    <3>2. DOMAIN unique_crashes' = {crash_hash(result[x]) : x \in collected \ failed}'
      BY <1>7, <2>4 DEF EntriesInv
    <3> QED BY <2>4, <3>1, <3>2 DEF EntriesInv
  <2>6. /\ new \in [D \cup {h0} -> Int] /\ new[h0] = 1
        /\ \A h \in D : new[h] = old[h]
    <3>1. new[h0] = 1
      BY <2>4 DEF CountsOf, Entry
    <3>2. \A h \in D : new[h] = old[h]
      BY <2>4 DEF CountsOf
    <3>3. DOMAIN new = D \cup {h0} /\ new = [h \in D \cup {h0} |-> new[h]]
      BY <2>4 DEF CountsOf
    <3> HIDE DEF new, old
    <3>4. \A h \in D \cup {h0} : new[h] \in Int
      BY <1>6, <3>1, <3>2
    <3> QED BY <3>1, <3>2, <3>3, <3>4
  <2>7. SumFunction(new) = SumFunction(old) + 1 /\ SumFunction(old) \in Int
    <3> HIDE DEF new, old, D, h0
    <3>1. SumFunction(new) = SumFunction(old) + new[h0] /\ SumFunction(old) \in Int
      <4>1. IsFiniteSet(D) /\ old \in [D -> Int] /\ h0 \notin D
        BY <1>6, <1>9
      <4>2. new \in [D \cup {h0} -> Int] /\ \A y \in D : new[y] = old[y]
        BY <2>6
      <4> QED BY <4>1, <4>2, SumInsert
    <3> QED BY <2>6, <3>1
  <2> QED BY <1>1, <1>5, <2>5, <2>7 DEF CountInv
<1> QED BY <1>8, <1>9

\* Every step of the script keeps its invariant and the results that were
\* already collected.
LEMMA TriagerStep ==
  ASSUME TriagerInv, Next
  PROVE  /\ TriagerInv'
         /\ collected \ failed \subseteq collected' \ failed'
         /\ \A f \in collected \ failed : result'[f] = result[f]
<1> USE DEF TriagerInv
<1>0. failed \subseteq collected
  BY DEF CountInv
<1>1. ASSUME UNCHANGED << collected, failed, unique_crashes, total_processed, result >>,
             PoolInv', OutputInv'
      PROVE  /\ TriagerInv'
             /\ collected \ failed \subseteq collected' \ failed'
             /\ \A f \in collected \ failed : result'[f] = result[f]
  BY <1>1, BooksKept
<1>2. CASE scan \/ ScanRaises
  <2>1. UNCHANGED << collected, failed, unique_crashes, total_processed, result >>
    BY <1>2 DEF scan, ScanRaises, pool
  <2>2. PoolInv'
    BY <1>2 DEF scan, ScanRaises, pool, PoolInv, visible
  <2>3. OutputInv'
    BY <1>2 DEF scan, ScanRaises, OutputInv
  <2> QED BY <1>1, <2>1, <2>2, <2>3
<1>3. ASSUME NEW f \in Files, submit(f)
      PROVE  PoolInv' /\ OutputInv'
             /\ UNCHANGED << collected, failed, unique_crashes, total_processed, result >>
  BY <1>3 DEF submit, main, PoolInv, OutputInv
<1>4. ASSUME NEW f \in Files, StartReplay(f)
      PROVE  PoolInv' /\ OutputInv'
             /\ UNCHANGED << collected, failed, unique_crashes, total_processed, result >>
  BY <1>4 DEF StartReplay, main, PoolInv, OutputInv
<1>5. ASSUME NEW f \in Files, NEW log, LogOK(log), Finish(f, log)
      PROVE  /\ TriagerInv'
             /\ collected \ failed \subseteq collected' \ failed'
             /\ \A x \in collected \ failed : result'[x] = result[x]
  <2>1. /\ UNCHANGED << collected, failed, unique_crashes, total_processed, phase,
                        crash_files, output, submitted >>
        /\ f \in running /\ result' = [result EXCEPT ![f] = log]
        /\ running' = running \ {f} /\ finished' = finished \cup {f}
    BY <1>5 DEF Finish, main
  <2>2. f \notin collected /\ DOMAIN result = Files
    BY <2>1 DEF PoolInv
  <2>3. \A x \in collected : result'[x] = result[x]
    BY <2>1, <2>2
  <2>4. EntriesInv' /\ CountInv'
    BY <2>1, <2>3, BooksKept
  <2>5. \A x \in Files : LogOK(result'[x])
    BY <1>5, <2>1 DEF PoolInv
  <2>6. PoolInv'
    <3>1. DOMAIN result' = Files
      BY <2>1, <2>2
    <3> QED BY <2>1, <2>5, <3>1 DEF PoolInv, visible
  <2>7. OutputInv'
    BY <2>1 DEF OutputInv
  <2> QED BY <2>1, <2>3, <2>4, <2>6, <2>7
<1>6. ASSUME NEW f \in Files, Worker(f)
      PROVE  \E log : LogOK(log) /\ Finish(f, log)
  <2>1. LogOK(TimeoutLog)
    BY DEF LogOK, TimeoutLog
  <2>2. LogOK(Raised)
    BY DEF LogOK, TimeoutLog, Raised
  <2>3. \A log \in LogsOf[f] : LogOK(log)
    BY TriagerAssumption DEF LogOK
  <2> QED BY <1>6, <2>1, <2>2, <2>3 DEF Worker, TargetTimesOut, TargetRaises, run_target
<1>7. ASSUME NEW f \in Files, Collect(f)
      PROVE  /\ TriagerInv'
             /\ collected \ failed \subseteq collected' \ failed'
             /\ \A x \in collected \ failed : result'[x] = result[x]
  <2>1. /\ f \in finished /\ submitted = crash_files /\ finished' = finished \ {f}
        /\ collected' = collected \cup {f} /\ total_processed' = total_processed + 1
        /\ UNCHANGED << phase, crash_files, output, submitted, running, result >>
    BY <1>7 DEF Collect, main
  <2>2. EntriesInv' /\ CountInv'
    <3>1. CASE result[f] = Raised /\ failed' = failed \cup {f} /\ UNCHANGED unique_crashes
      BY <2>1, <3>1, FailureKept
    <3>2. CASE result[f] # Raised /\ unique_crashes' = Merged(f, result[f]) /\ UNCHANGED failed
      BY <2>1, <3>2, MergeKept
    <3> QED BY <1>7, <3>1, <3>2 DEF Collect
  <2>3. PoolInv'
    BY <2>1 DEF PoolInv, visible
  <2>4. phase \in {"start", "triage", "exit 1"} /\ OutputInv'
    <3>1. phase # "exit 0"
      BY <2>1 DEF OutputInv, PoolInv
    <3> QED BY <2>1, <3>1 DEF OutputInv, PoolInv
  <2>5. f \notin collected /\ failed' \subseteq failed \cup {f}
    BY <1>7, <2>1 DEF Collect, PoolInv
  <2> QED BY <2>1, <2>2, <2>3, <2>4, <2>5
<1>8. CASE WriteSummary \/ WriteRaises
  <2>1. /\ UNCHANGED << crash_files, submitted, running, finished, collected, result,
                        unique_crashes, total_processed, failed >>
        /\ phase = "triage" /\ collected = crash_files
        /\ \/ phase' = "exit 0" /\ output' = Report("complete", total_processed, unique_crashes)
           \/ phase' = "exit 1" /\ (output' = output \/ output' = Report("truncated", 0, NoEntries))
    BY <1>8 DEF WriteSummary, WriteRaises, Written, TriageReturns, pool
  <2>2. PoolInv'
    BY <2>1 DEF PoolInv, visible
  <2>3. OutputInv'
    <3>1. CASE phase' = "exit 0"
      BY <2>1, <3>1 DEF OutputInv
    <3>2. CASE phase' = "exit 1"
      <4>1. output.state = "earlier"
        BY <2>1 DEF OutputInv
      <4>2. Report("truncated", 0, NoEntries).state = "truncated"
        BY ReportFields
      <4>3. output'.state \in {"earlier", "truncated"}
        BY <2>1, <3>2, <4>1, <4>2, Zenon
      <4> QED BY <3>2, <4>3 DEF OutputInv
    <3> QED BY <2>1, <3>1, <3>2
  <2> QED BY <1>1, <2>1, <2>2, <2>3
<1> QED BY <1>1, <1>2, <1>3, <1>4, <1>5, <1>6, <1>7, <1>8 DEF Next, MainThread

-----------------------------------------------------------------------------
(* The pipeline *)

\* A report stays right: its log is collected and does not change.
LEMMA ReportsKept ==
  ASSUME AnalyzerInv, UNCHANGED analyzer,
         collected \ failed \subseteq collected' \ failed',
         \A f \in collected \ failed : result'[f] = result[f]
  PROVE  AnalyzerInv'
<1>1. ASSUME NEW r, ReportOK(r) PROVE ReportOK(r)'
  BY <1>1 DEF ReportOK
<1>2. analysis' = analysis /\ exported' = exported
  BY DEF analyzer
<1> QED BY <1>1, <1>2 DEF AnalyzerInv

\* The three calls of the library.
LEMMA AnalyzerStep ==
  ASSUME TriagerInv, AnalyzerInv, Analyzer, UNCHANGED triager
  PROVE  AnalyzerInv'
<1>0. collected' = collected /\ failed' = failed /\ result' = result
  BY DEF triager
<1>1. ASSUME NEW r, ReportOK(r) PROVE ReportOK(r)'
  BY <1>0, <1>1 DEF ReportOK
<1>2. ASSUME NEW f \in Files, AnalyzeLog(f) PROVE AnalyzerInv'
  <2> DEFINE log == result[f]
             v == log.fault_value
             r == Analyzed(f, "none", log.phrases, v)
  <2>1. f \in collected \ failed /\ analysis' = r /\ exported' = exported
    BY <1>2 DEF AnalyzeLog, analyze_sanitizer_log
  <2>2. LogOK(log)
    BY DEF TriagerInv, PoolInv
  <2>3. r.source = f /\ r.fault_address = v
        /\ r.severity = Analyzed("any", "none", log.phrases, v).severity
    BY DEF Analyzed, CrashAnalysisReport
  <2>4. v >= FirstPage /\ InLowerCase(log) =>
          CrashSeverity[Analyzed("any", "none", log.phrases, v).severity]
            >= CrashSeverity[severity(log)]
    <3> HIDE DEF log
    <3> QED BY <2>2, LibrarySeverity DEF LogOK
  <2> HIDE DEF r
  <2>5. ReportOK(r)
    BY <2>1, <2>3, <2>4 DEF ReportOK
  <2> QED BY <1>1, <2>1, <2>5 DEF AnalyzerInv
<1>3. ASSUME NEW s \in Signals, NEW addr \in FaultAddresses, analyze_signal(s, addr)
      PROVE  AnalyzerInv'
  <2>1. analysis'.source = s /\ exported' = exported
    BY <1>3 DEF analyze_signal, Analyzed, CrashAnalysisReport
  <2>2. s \notin Files
    BY PipelineAssumption
  <2>3. ReportOK(analysis')
    BY <2>1, <2>2 DEF ReportOK
  <2> QED BY <1>1, <2>1, <2>3 DEF AnalyzerInv
<1>4. ASSUME NEW p \in Paths, export_json(p) PROVE AnalyzerInv'
  <2>1. ReportOK(Truncated)
    <3>1. Truncated.fault_address = 0
      BY DEF Truncated, CrashAnalysisReport
    <3> QED BY <3>1 DEF ReportOK, FirstPage
  <2>2. ReportOK(analysis) /\ DOMAIN exported = Paths /\ \A q \in Paths : ReportOK(exported[q])
    BY DEF AnalyzerInv
  <2>3. analysis' = analysis
        /\ exported' \in {exported, [exported EXCEPT ![p] = analysis],
                          [exported EXCEPT ![p] = Truncated]}
    BY <1>4 DEF export_json
  <2>4. DOMAIN exported' = Paths /\ \A q \in Paths : ReportOK(exported'[q])
    <3> HIDE DEF ReportOK
    <3>1. DOMAIN exported' = Paths
      BY <2>2, <2>3
    <3>2. \A q \in Paths : exported'[q] \in {exported[q], analysis, Truncated}
      BY <2>2, <2>3
    <3> QED BY <2>1, <2>2, <3>1, <3>2
  <2> QED BY <1>1, <2>2, <2>3, <2>4 DEF AnalyzerInv
<1> QED BY <1>2, <1>3, <1>4 DEF Analyzer

\* The invariant holds in every state of the pipeline.
THEOREM PipelineInvariant == PipelineSpec => []PipelineInv
<1>1. PipelineInit => PipelineInv
  <2> SUFFICES ASSUME PipelineInit PROVE PipelineInv
    OBVIOUS
  <2> USE DEF PipelineInit, Init
  <2>1. PoolInv
    BY DEF PoolInv, LogOK, NoLog, TimeoutLog
  <2>2. EntriesInv
    BY DEF EntriesInv, NoEntries
  <2>3. CountInv
    <3>1. DOMAIN CountsOf(NoEntries) = {} /\ CountsOf(NoEntries) \in [{} -> Int]
      BY DEF CountsOf, NoEntries
    <3>2. SumFunction(CountsOf(NoEntries)) = 0
      BY <3>1, SumEmpty
    <3>3. Cardinality({}) = 0
      BY FS_EmptySet
    <3> QED BY <3>2, <3>3 DEF CountInv
  <2>4. OutputInv
    BY DEF OutputInv, Report
  <2>5. AnalyzerInv
    BY DEF AnalyzerInit, AnalyzerInv, ReportOK, NoReport, CrashAnalysisReport, FirstPage
  <2> QED BY <2>1, <2>2, <2>3, <2>4, <2>5 DEF PipelineInv, TriagerInv
<1>2. PipelineInv /\ [PipelineNext]_pipeline => PipelineInv'
  <2> SUFFICES ASSUME PipelineInv, [PipelineNext]_pipeline
               PROVE  PipelineInv'
    OBVIOUS
  <2>1. TriagerInv /\ AnalyzerInv
    BY DEF PipelineInv
  <2>2. UNCHANGED triager => TriagerInv'
    <3> SUFFICES ASSUME UNCHANGED triager PROVE TriagerInv'
      OBVIOUS
    <3>1. EntriesInv' /\ CountInv'
      BY <2>1, BooksKept DEF triager, TriagerInv
    <3>2. PoolInv'
      BY <2>1 DEF triager, TriagerInv, PoolInv, visible
    <3>3. OutputInv'
      BY <2>1 DEF triager, TriagerInv, OutputInv
    <3> QED BY <3>1, <3>2, <3>3 DEF TriagerInv
  <2>3. CASE Next /\ UNCHANGED analyzer
    BY <2>1, <2>3, TriagerStep, ReportsKept DEF PipelineInv
  <2>4. CASE Analyzer /\ UNCHANGED triager
    BY <2>1, <2>2, <2>4, AnalyzerStep DEF PipelineInv
  <2>5. CASE UNCHANGED pipeline
    <3>1. UNCHANGED triager /\ UNCHANGED analyzer
      BY <2>5 DEF pipeline
    <3>2. collected' = collected /\ failed' = failed /\ result' = result
      BY <3>1 DEF triager
    <3>3. AnalyzerInv'
      BY <2>1, <3>1, <3>2, ReportsKept
    <3> QED BY <2>2, <3>1, <3>3 DEF PipelineInv
  <2> QED BY <2>3, <2>4, <2>5 DEF PipelineNext
<1> QED BY <1>1, <1>2, PTL DEF PipelineSpec

\* An entry describes a file that has its signature, and a single replay of
\* it, in whatever order the futures complete.
THEOREM EntriesConsistentHolds == PipelineSpec => []EntriesConsistent
<1>1. PipelineInv => EntriesConsistent
  <2> SUFFICES ASSUME PipelineInv, NEW h \in DOMAIN unique_crashes
               PROVE  LET e == unique_crashes[h]
                          log == result[e.representative_file]
                      IN  /\ e.representative_file \in collected \ failed
                          /\ crash_hash(log) = h
                          /\ e.cwe_type = cwe_type(log) /\ e.severity = severity(log)
    BY DEF EntriesConsistent
  <2>1. PICK f \in WithHash(h) :
              unique_crashes[h] = Entry(f, result[f], Cardinality(WithHash(h)))
    BY DEF PipelineInv, TriagerInv, EntriesInv
  <2> QED BY <2>1 DEF WithHash, Entry
<1> QED BY <1>1, PipelineInvariant, PTL

\* Every file read so far is counted in exactly one entry or among the
\* failures, and the counts add up to the number of files.
THEOREM EveryFileCountedHolds == PipelineSpec => []EveryFileCounted
<1>1. PipelineInv => EveryFileCounted
  <2> SUFFICES ASSUME PipelineInv PROVE EveryFileCounted
    OBVIOUS
  <2>1. PoolInv /\ EntriesInv /\ CountInv
    BY DEF PipelineInv, TriagerInv
  <2>2. Total = SumFunction(CountsOf(unique_crashes))
    BY DEF Total, CountOf, CountsOf
  <2>3. \A h \in DOMAIN unique_crashes : CountOf(h) = Cardinality(WithHash(h))
    BY <2>1, CountsTyped DEF CountOf
  <2> QED BY <2>1, <2>2, <2>3 DEF CountInv, EveryFileCounted, WithHash
<1> QED BY <1>1, PipelineInvariant, PTL

\* The exit code is 0 exactly when the report is whole, and then it accounts
\* for every visible file.
THEOREM SummaryCompleteHolds == PipelineSpec => []SummaryComplete
<1>1. PipelineInv => SummaryComplete
  <2> SUFFICES ASSUME PipelineInv PROVE SummaryComplete
    OBVIOUS
  <2>1. PoolInv /\ EntriesInv /\ CountInv /\ OutputInv
    BY DEF PipelineInv, TriagerInv
  <2>2. phase = "exit 0" <=> output.state = "complete"
    <3>1. phase = "exit 0" => output.state = "complete"
      <4>1. Report("complete", total_processed, unique_crashes).state = "complete"
        BY ReportFields
      <4> QED BY <2>1, <4>1, Zenon DEF OutputInv
    <3>2. phase # "exit 0" => output.state # "complete"
      BY <2>1 DEF PoolInv, OutputInv
    <3> QED BY <3>1, <3>2
  <2>3. ASSUME phase = "exit 0"
        PROVE  /\ output.total_crash_files_triaged = Cardinality(visible)
               /\ WrittenTotal + Cardinality(failed) = Cardinality(visible)
    <3>1. /\ collected = visible /\ output.total_crash_files_triaged = total_processed
          /\ output.unique_vulnerabilities = unique_crashes
      <4>1. output = Report("complete", total_processed, unique_crashes)
        BY <2>1, <2>3, Zenon DEF OutputInv
      <4>2. collected = visible
        BY <2>1, <2>3 DEF PoolInv, OutputInv
      <4> QED BY <4>1, <4>2, ReportFields
    <3>2. WrittenTotal = SumFunction(CountsOf(unique_crashes))
      BY <3>1 DEF WrittenTotal, CountsOf
    <3> QED BY <2>1, <3>1, <3>2 DEF CountInv
  <2> QED BY <2>2, <2>3 DEF SummaryComplete
<1> QED BY <1>1, PipelineInvariant, PTL

\* The library never rates a crash outside the first page lower than the
\* script's summary does, although they test a log in different orders and
\* places: only a phrase written with capitals, which the script lowers and
\* the library does not, can make it.
THEOREM SeverityNotLoweredHolds == PipelineSpec => []SeverityNotLowered
<1>1. PipelineInv /\ EntriesConsistent => SeverityNotLowered
  <2> SUFFICES ASSUME PipelineInv, EntriesConsistent,
                      NEW p \in Paths, NEW h \in DOMAIN unique_crashes,
                      exported[p].source = unique_crashes[h].representative_file,
                      exported[p].fault_address >= FirstPage,
                      InLowerCase(result[unique_crashes[h].representative_file])
               PROVE  CrashSeverity[exported[p].severity]
                        >= CrashSeverity[unique_crashes[h].severity]
    BY DEF SeverityNotLowered
  <2> DEFINE f == unique_crashes[h].representative_file
  <2>1. f \in collected \ failed /\ unique_crashes[h].severity = severity(result[f])
    BY DEF EntriesConsistent
  <2>2. f \in Files
    BY <2>1 DEF PipelineInv, TriagerInv, PoolInv
  <2> QED BY <2>1, <2>2 DEF PipelineInv, AnalyzerInv, ReportOK
<1> QED BY <1>1, PipelineInvariant, EntriesConsistentHolds, PTL

=============================================================================
