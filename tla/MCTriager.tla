------------------------------ MODULE MCTriager ------------------------------
EXTENDS TriagePipeline

CONSTANTS f1, f2, f3, f4, folder, hidden

small(phrases)    == phrases \X {"lower case"}
capitals(phrases) == phrases \X {"capitals"}

\* A log with what its report type says and what the rest of it says.
Log(type, rest, addr, value, frames, text) ==
  [report_type |-> type, phrases |-> type \cup rest, fault_addr |-> addr,
   fault_value |-> value, frames |-> frames, text |-> text]

\* f1 and f2 crash in the same frames with different reports, f1 and f3 may
\* hang, f4 prints no frames, or a null pointer before an overflow, and may
\* break the replay.  f2 and f4 may write their phrases with capitals.  The
\* addresses are a word, one past the word, one in the first page.
MCFiles  == {f1, f2, f3, f4, folder, hidden}
MCLogsOf ==
  [f \in MCFiles |->
     CASE f = f1 -> {Log(small({"heap-use-after-free", "use-after-free"}), {},
                         "0x1770", 6000, "parse", "uaf")}
       [] f = f2 -> {Log(small({"global-buffer-overflow"}), {}, "0x1b58", 7000, "parse", "global"),
                     Log(small({"stack-buffer-overflow"}), {}, "0x1b59", 7001, "", "dynamic-stack"),
                     Log({}, small({"integer-overflow"}), "0x1869f", 99999, "", "ubsan"),
                     Log({}, capitals({"integer-overflow"}), "0x1f40", 8000, "", "UBSan")}
       [] f = f4 -> {Log({}, small({"integer-overflow"}), "0x8", 8, "", "ubsan"),
                     Log(small({"heap-buffer-overflow"}), small({"null-pointer"}),
                         "0x2328", 9000, "alloc", "heap"),
                     Log(capitals({"heap-buffer-overflow"}), {}, "0x2328", 9000, "alloc", "Heap")}
       [] OTHER -> {}]

=============================================================================
