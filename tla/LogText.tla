------------------------------ MODULE LogText -------------------------------
(***************************************************************************)
(* The text of a log, as far as the two classifiers look at it.  Both      *)
(* search for lower-case phrases anywhere in a text, inside longer words   *)
(* too: dynamic-stack-buffer-overflow holds stack-buffer-overflow.  A text *)
(* is the set of its occurrences of the phrases, each with its spelling.   *)
(***************************************************************************)

Phrases == {"heap-use-after-free", "use-after-free", "heap-buffer-overflow",
            "stack-buffer-overflow", "global-buffer-overflow",
            "null-pointer", "integer-overflow"}

\* "capitals": at least one letter of the occurrence is a capital.
Spellings == {"lower case", "capitals"}

\* A search tells capitals from small letters.
contains(text, phrase) == << phrase, "lower case" >> \in text

\* str.lower(): every occurrence turns into one in lower case.
lower(text) == {<< o[1], "lower case" >> : o \in text}

IsText(text) ==
  /\ text \subseteq Phrases \X Spellings
  /\ contains(text, "heap-use-after-free") => contains(text, "use-after-free")

=============================================================================
