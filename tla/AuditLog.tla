------------------------------- MODULE AuditLog -------------------------------
(***************************************************************************)
(* What the audit trail promises the operator, as a specification of its   *)
(* own: records wait in one queue of bounded length, in the order they     *)
(* were accepted; a record is only turned away when a whole buffer waits;  *)
(* what leaves the queue leaves it from the front, a batch at most at a    *)
(* time, and all of it is written or all of it has failed.  What waits     *)
(* when the process ends is lost.  AuditWriter implements it.              *)
(***************************************************************************)
EXTENDS Naturals, Sequences, SequencesExt

CONSTANTS Requests, BufferSize, BatchSize

VARIABLES
  queue,                     \* the records that wait
  written, failed, dropped,  \* what became of the others
  running                    \* the process

vars == <<queue, written, failed, dropped, running>>

Init ==
  /\ queue = <<>>
  /\ written = {} /\ failed = {} /\ dropped = {}
  /\ running = TRUE

New(r) == r \notin ToSet(queue) \cup written \cup failed \cup dropped

Accept(r) ==
  /\ New(r)
  /\ Len(queue) < BufferSize + BatchSize
  /\ queue' = Append(queue, r)
  /\ UNCHANGED <<written, failed, dropped, running>>

Drop(r) ==
  /\ New(r)
  /\ Len(queue) >= BufferSize
  /\ dropped' = dropped \cup {r}
  /\ UNCHANGED <<queue, written, failed, running>>

Settle(n) ==
  LET batch == ToSet(SubSeq(queue, 1, n))
  IN  /\ n <= Len(queue)
      /\ queue' = SubSeq(queue, n + 1, Len(queue))
      /\ \/ written' = written \cup batch /\ UNCHANGED failed
         \/ failed' = failed \cup batch /\ UNCHANGED written
      /\ UNCHANGED <<dropped, running>>

Stop == running' = FALSE /\ UNCHANGED <<queue, written, failed, dropped>>

Next ==
  /\ running
  /\ \/ \E r \in Requests : Accept(r) \/ Drop(r)
     \/ \E n \in 1..BatchSize : Settle(n)
     \/ Stop

Spec == Init /\ [][Next]_vars
================================================================================
