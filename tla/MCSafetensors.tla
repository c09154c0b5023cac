---------------------------- MODULE MCSafetensors ----------------------------
EXTENDS SafetensorsCampaign

CONSTANTS Sizes, Lengths, Ends

\* Every file over the given lengths, with at most two tensors.  A header that
\* is not enclosed in braces is never matched: its text does not matter.
MCFiles ==
  LET Pairs == {0, 1} \X Ends
      Lists == {<< >>} \cup {<< p >> : p \in Pairs} \cup {<< p, q >> : p, q \in Pairs}
      fits(f) == IF f.braces THEN f.header_len >= 2 + EntryText * Len(f.offsets)
                 ELSE f.offsets = << >>
  IN  {f \in [size : Sizes, header_len : Lengths, braces : BOOLEAN, offsets : Lists] :
         fits(f)}

=============================================================================
