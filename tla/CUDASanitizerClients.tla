------------------------ MODULE CUDASanitizerClients ------------------------
(***************************************************************************)
(* The auditor as its callers see it: the same behaviour with a history    *)
(* variable that records which pointers each thread has given back.        *)
(***************************************************************************)
EXTENDS CUDASanitizer

VARIABLE stale  \* per thread: pointers it has freed and not been handed again

clientVars == << vars, stale >>

ClientInit == Init /\ stale = [t \in Threads |-> {}]

\* audit_malloc returns a usable address to its caller.
Handed(t) ==
  /\ AuditMallocRegister(t)
  /\ stale' = [stale EXCEPT ![t] = @ \ {Plus(arg[t].raw, arg[t].redzone)}]

\* audit_free accepts a pointer.
Accepted(t, p) ==
  /\ AuditFreeUnregister(t, p)
  /\ stale' = [stale EXCEPT ![t] = @ \cup {p}]

ClientNext ==
  \E t \in Threads :
    \/ Handed(t)
    \/ \E p \in Pointers : Accepted(t, p)
    \/ /\ UNCHANGED stale
       /\ \/ \E size \in Sizes, redzone \in Redzones :
               AuditMallocAllocate(t, size, redzone)
          \/ \E size \in Sizes : AuditMallocRefused(t, size)
          \/ AuditMallocReport(t)
          \/ \E p \in Pointers \ {Null} : AuditFreeUntracked(t, p)
          \/ AuditFreeRelease(t)
          \/ ResetBegin(t)
          \/ \E a \in to_free : ResetFree(t, a)
          \/ ResetEnd(t)

ClientSpec == ClientInit /\ [][ClientNext]_clientVars

\* A pointer that a thread has freed, and has not been handed again, is
\* reported when the same thread frees it again: audit_free never accepts it.
DoubleFreeCaught ==
  [][\A t \in Threads, p \in Pointers : Accepted(t, p) => p \notin stale[t]]_clientVars

=============================================================================
