----------------------------- MODULE VRAMLedger -----------------------------
(***************************************************************************)
(* What the users of the VRAM auditor rely on: a ledger of regions whose   *)
(* changes are atomic.  A region enters it only if it overlaps no other,   *)
(* redzones included; the byte count moves with the entries.  The locks,   *)
(* the driver and the calls in flight of CUDASanitizer are hidden.         *)
(***************************************************************************)
EXTENDS Integers

CONSTANTS Sizes, Redzones, SizeMod

VARIABLES regions, total

Extent(a) == regions[a].size_bytes + 2 * regions[a].redzone_bytes
Start(a)  == a - regions[a].redzone_bytes

Register(a, s, r) ==
  /\ \A b \in DOMAIN regions :
       a - r + s + 2 * r <= Start(b) \/ Start(b) + Extent(b) <= a - r
  /\ regions' = [b \in DOMAIN regions \cup {a} |->
                   IF b = a THEN [size_bytes |-> s, redzone_bytes |-> r,
                                  is_poisoned |-> FALSE]
                   ELSE regions[b]]
  /\ total' = (total + s) % SizeMod

Unregister(a) ==
  /\ regions' = [b \in DOMAIN regions \ {a} |-> regions[b]]
  /\ total' = (total - regions[a].size_bytes) % SizeMod

Poison(a, flag) ==
  /\ regions' = [regions EXCEPT ![a].is_poisoned = flag]
  /\ UNCHANGED total

Clear == regions' = [a \in {} |-> 0] /\ total' = 0

Init == regions = [a \in {} |-> 0] /\ total = 0

Next ==
  \/ \E a \in 1 .. (SizeMod - 1), s \in Sizes, r \in Redzones : Register(a, s, r)
  \/ \E a \in DOMAIN regions : Unregister(a)
  \/ \E a \in DOMAIN regions, flag \in BOOLEAN : Poison(a, flag)
  \/ Clear

Spec == Init /\ [][Next]_<<regions, total>>

=============================================================================
