------------------------------ MODULE AuditWriter ------------------------------
(***************************************************************************)
(* The audit writer (audit/writer.go) in the life of the process           *)
(* (cmd/server/main.go): handlers put a record each into a buffered        *)
(* channel, one goroutine collects them into batches and inserts these     *)
(* into the store, and the main goroutine, on a signal, shuts the server   *)
(* down, closes the writer and exits.                                      *)
(*                                                                         *)
(* Requests are served once each, so a request stands for its record.      *)
(* run's select picks any of its ready cases.  A ticker's channel holds    *)
(* one tick.  An insert is one transaction (audit/sqlite.go), so a batch   *)
(* is written as a whole or not at all; when it ends, whatever its         *)
(* outcome, the batch is empty.  A purge removes written records that are  *)
(* past their retention; what stays in the table is not modelled, only     *)
(* that the writer does nothing else meanwhile.                            *)
(***************************************************************************)
EXTENDS Naturals, Sequences, FiniteSets, SequencesExt

CONSTANTS
  Requests,    \* the requests served, and their records
  BufferSize,  \* capacity of the channel
  BatchSize    \* records that trigger a flush

ASSUME AuditWriterAssumption ==
  /\ IsFiniteSet(Requests)
  /\ BufferSize \in Nat \ {0} /\ BatchSize \in Nat \ {0}

\* The writer: before its select, in one of the calls it makes from there,
\* draining, or returned.
WriterPoints == {"select", "insert", "transaction", "purge", "drain", "stopped"}

\* main: serving, in srv.Shutdown, in Writer.Close (waiting for the writer, then
\* closing the store), returned from it, and gone.
MainPoints == {"serving", "shutdown", "waiting", "closing", "closed", "exited"}

Exits == {"none", "clean", "shutdown_failed", "listener_failed"}

VARIABLES
  handler,                   \* each request: "new", "handling" or "done"
  ch,                        \* Writer.ch
  batch, writer, resume,     \* the writer's batch, where it is, and where it
                             \* goes on after a flush
  flushDue, purgeDue,        \* a tick is in the ticker's channel
  done,                      \* Writer.done is closed
  storeOpen,                 \* the database handle
  written, failed, dropped,  \* records inserted, lost with a failed batch, turned away
  main, exit, gaveUp         \* main, how it ended, and whether Close's context
                             \* ended before the writer did

loopVars == <<batch, writer, resume>>
tickVars == <<flushDue, purgeDue>>
fateVars == <<written, failed, dropped>>
mainVars == <<done, storeOpen, main, exit, gaveUp>>
vars == <<handler, ch, batch, writer, resume, flushDue, purgeDue, done, storeOpen,
          written, failed, dropped, main, exit, gaveUp>>

Running == main # "exited"

\* The writer's goroutine is at this point; it is gone with the process.
At(point) == Running /\ writer = point

\* The records accepted and not settled yet, oldest first.
Queue == batch \o ch

TypeOK ==
  /\ handler \in [Requests -> {"new", "handling", "done"}]
  /\ ch \in Seq(Requests) /\ Len(ch) <= BufferSize
  /\ batch \in Seq(Requests) /\ Len(batch) <= BatchSize
  /\ writer \in WriterPoints
  /\ resume \in {"select", "drain", "stopped"}
  /\ flushDue \in BOOLEAN /\ purgeDue \in BOOLEAN
  /\ done \in BOOLEAN /\ storeOpen \in BOOLEAN /\ gaveUp \in BOOLEAN
  /\ written \subseteq Requests /\ failed \subseteq Requests /\ dropped \subseteq Requests
  /\ main \in MainPoints /\ exit \in Exits

\* NewWriter starts run, which purges first.
Init ==
  /\ handler = [r \in Requests |-> "new"]
  /\ ch = <<>> /\ batch = <<>>
  /\ writer = "purge" /\ resume = "select"
  /\ flushDue = FALSE /\ purgeDue = FALSE
  /\ done = FALSE /\ storeOpen = TRUE
  /\ written = {} /\ failed = {} /\ dropped = {}
  /\ main = "serving" /\ exit = "none" /\ gaveUp = FALSE

------------------------------------------------------------------------------
(* The handlers.                                                            *)

Serve(r) ==
  /\ handler[r] = "new" /\ main = "serving"
  /\ handler' = [handler EXCEPT ![r] = "handling"]
  /\ UNCHANGED <<ch, loopVars, tickVars, fateVars, mainVars>>

\* Mutant of Record: the oldest record makes room for a new one.
RecordNewest(r) ==
  /\ handler[r] = "handling" /\ Running
  /\ handler' = [handler EXCEPT ![r] = "done"]
  /\ IF Len(ch) < BufferSize
     THEN ch' = Append(ch, r) /\ UNCHANGED dropped
     ELSE ch' = Append(Tail(ch), r) /\ dropped' = dropped \cup {Head(ch)}
  /\ UNCHANGED <<loopVars, tickVars, written, failed, mainVars>>

\* The response is sent and the request recorded, without blocking.
Record(r) ==
  /\ handler[r] = "handling" /\ Running
  /\ handler' = [handler EXCEPT ![r] = "done"]
  /\ IF Len(ch) < BufferSize
     THEN ch' = Append(ch, r) /\ UNCHANGED dropped
     ELSE dropped' = dropped \cup {r} /\ UNCHANGED ch
  /\ UNCHANGED <<loopVars, tickVars, written, failed, mainVars>>

------------------------------------------------------------------------------
(* The writer.                                                              *)

\* Mutant of Collect: the batch is only ever flushed by the ticker.
CollectUnbounded(point) ==
  /\ ch # <<>>
  /\ batch' = Append(batch, Head(ch))
  /\ ch' = Tail(ch)
  /\ writer' = point /\ resume' = point

\* A record joins the batch; a full batch is flushed, then the writer goes on
\* where it was.
Collect(point) ==
  /\ ch # <<>>
  /\ batch' = Append(batch, Head(ch))
  /\ ch' = Tail(ch)
  /\ writer' = IF Len(batch') >= BatchSize THEN "insert" ELSE point
  /\ resume' = point

\* flush: nothing to do when the batch is empty.
Flush(point) ==
  /\ writer' = IF batch = <<>> THEN point ELSE "insert"
  /\ resume' = point
  /\ UNCHANGED batch

TakeRecord ==
  /\ At("select")
  /\ Collect("select")
  /\ UNCHANGED <<handler, tickVars, fateVars, mainVars>>

\* Mutant of TakeFlush: the ticker only flushes full batches.
TakeFlushWhenFull ==
  /\ At("select") /\ flushDue
  /\ flushDue' = FALSE
  /\ IF Len(batch) >= BatchSize THEN Flush("select") ELSE UNCHANGED loopVars
  /\ UNCHANGED <<handler, ch, purgeDue, fateVars, mainVars>>

TakeFlush ==
  /\ At("select") /\ flushDue
  /\ flushDue' = FALSE
  /\ Flush("select")
  /\ UNCHANGED <<handler, ch, purgeDue, fateVars, mainVars>>

TakePurge ==
  /\ At("select") /\ purgeDue
  /\ purgeDue' = FALSE
  /\ writer' = "purge"
  /\ UNCHANGED <<handler, ch, batch, resume, flushDue, fateVars, mainVars>>

TakeDone ==
  /\ At("select") /\ done
  /\ writer' = "drain"
  /\ UNCHANGED <<handler, ch, batch, resume, tickVars, fateVars, mainVars>>

DrainRecord ==
  /\ At("drain")
  /\ Collect("drain")
  /\ UNCHANGED <<handler, tickVars, fateVars, mainVars>>

\* Mutant of DrainEnds: the last batch is not flushed.
DrainEndsUnflushed ==
  /\ At("drain") /\ ch = <<>>
  /\ writer' = "stopped" /\ resume' = "stopped"
  /\ UNCHANGED <<handler, ch, batch, tickVars, fateVars, mainVars>>

\* The channel is empty: the last flush, and run returns.
DrainEnds ==
  /\ At("drain") /\ ch = <<>>
  /\ Flush("stopped")
  /\ UNCHANGED <<handler, ch, tickVars, fateVars, mainVars>>

\* The transaction begins, which a closed store refuses.
BeginInsert ==
  /\ At("insert") /\ storeOpen
  /\ writer' = "transaction"
  /\ UNCHANGED <<handler, ch, batch, resume, tickVars, fateVars, mainVars>>

\* flush is over and the batch is reset.
Flushed ==
  /\ batch' = <<>>
  /\ writer' = resume
  /\ UNCHANGED <<handler, ch, resume, tickVars, dropped, mainVars>>

Commit ==
  /\ At("transaction")
  /\ written' = written \cup ToSet(batch)
  /\ Flushed
  /\ UNCHANGED failed

\* Mutant of InsertFails: a failed batch is kept for the next flush.
InsertFailsKeeping ==
  /\ At("transaction") \/ (At("insert") /\ ~storeOpen)
  /\ failed' = failed \cup ToSet(batch)
  /\ writer' = resume
  /\ UNCHANGED <<handler, ch, batch, resume, tickVars, written, dropped, mainVars>>

\* The store reports an error or flushTimeout is over: the batch is dropped.
InsertFails ==
  /\ At("transaction") \/ (At("insert") /\ ~storeOpen)
  /\ failed' = failed \cup ToSet(batch)
  /\ Flushed
  /\ UNCHANGED written

\* The purge is over, whatever came of it.
Purged ==
  /\ At("purge")
  /\ writer' = "select"
  /\ UNCHANGED <<handler, ch, batch, resume, tickVars, fateVars, mainVars>>

FlushTick ==
  /\ Running /\ ~flushDue /\ flushDue' = TRUE
  /\ UNCHANGED <<handler, ch, loopVars, purgeDue, fateVars, mainVars>>

PurgeTick ==
  /\ Running /\ ~purgeDue /\ purgeDue' = TRUE
  /\ UNCHANGED <<handler, ch, loopVars, flushDue, fateVars, mainVars>>

------------------------------------------------------------------------------
(* main.                                                                    *)

Leave(how) ==
  /\ main' = "exited" /\ exit' = how
  /\ UNCHANGED <<handler, ch, loopVars, tickVars, fateVars, done, storeOpen, gaveUp>>

\* ListenAndServe returned an error: run returns it.
ListenerFails == main = "serving" /\ Leave("listener_failed")

\* SIGINT or SIGTERM: no new requests from here on.
Signal ==
  /\ main = "serving"
  /\ main' = "shutdown"
  /\ UNCHANGED <<handler, ch, loopVars, tickVars, fateVars, done, storeOpen, exit, gaveUp>>

\* Mutant of ShutdownTimesOut: the shutdown has no deadline.
ShutdownWithoutDeadline == FALSE /\ UNCHANGED vars

\* srv.Shutdown's context ended while requests were under way: run returns.
ShutdownTimesOut ==
  /\ main = "shutdown" /\ \E r \in Requests : handler[r] = "handling"
  /\ Leave("shutdown_failed")

\* No request is under way any more; Writer.Close closes done.
CloseWriter ==
  /\ main = "shutdown" /\ \A r \in Requests : handler[r] # "handling"
  /\ main' = "waiting" /\ done' = TRUE
  /\ UNCHANGED <<handler, ch, loopVars, tickVars, fateVars, storeOpen, exit, gaveUp>>

\* Mutant of WriterReturned: Close does not wait for the writer.
WriterNotAwaited ==
  /\ main = "waiting"
  /\ main' = "closing"
  /\ UNCHANGED <<handler, ch, loopVars, tickVars, fateVars, done, storeOpen, exit, gaveUp>>

WriterReturned ==
  /\ main = "waiting" /\ writer = "stopped"
  /\ main' = "closing"
  /\ UNCHANGED <<handler, ch, loopVars, tickVars, fateVars, done, storeOpen, exit, gaveUp>>

\* Close's context ended first.
CloseTimesOut ==
  /\ main = "waiting" /\ writer # "stopped"
  /\ main' = "closing" /\ gaveUp' = TRUE
  /\ UNCHANGED <<handler, ch, loopVars, tickVars, fateVars, done, storeOpen, exit>>

CloseStore ==
  /\ main = "closing"
  /\ main' = "closed" /\ storeOpen' = FALSE
  /\ UNCHANGED <<handler, ch, loopVars, tickVars, fateVars, done, exit, gaveUp>>

Finish == main = "closed" /\ Leave("clean")

------------------------------------------------------------------------------

Handlers == \E r \in Requests : Serve(r) \/ Record(r)

Writer ==
  \/ TakeRecord \/ TakeFlush \/ TakePurge \/ TakeDone
  \/ DrainRecord \/ DrainEnds
  \/ BeginInsert \/ Commit \/ InsertFails
  \/ Purged

Stopping ==
  \/ ShutdownTimesOut \/ CloseWriter
  \/ WriterReturned \/ CloseTimesOut
  \/ CloseStore \/ Finish

\* When main returns the process ends, and with it every goroutine.
Next == Handlers \/ Writer \/ FlushTick \/ PurgeTick \/ ListenerFails \/ Signal \/ Stopping

(***************************************************************************)
(* The writer and main run on: every call to the store has a timeout and   *)
(* so has each wait of the shutdown.  The flush ticker ticks.  A select    *)
(* picks among its ready cases at random, so no case is passed over for    *)
(* ever.  Of handlers and signals nothing is assumed.                      *)
(***************************************************************************)
Fairness ==
  /\ WF_vars(Writer)
  /\ WF_vars(FlushTick)
  /\ WF_vars(Stopping)
  /\ SF_vars(TakeRecord)
  /\ SF_vars(TakeFlush)
  /\ SF_vars(TakeDone)

Spec == Init /\ [][Next]_vars /\ Fairness

------------------------------------------------------------------------------
(* Properties.                                                              *)

\* Every request that is done has its record in exactly one place: waiting,
\* written, lost with a failed batch, or counted as dropped; none is ever
\* inserted twice (writer.go:89-97, 115-177).
Accounted ==
  /\ IsInjective(Queue)
  /\ LET places == <<ToSet(Queue), written, failed, dropped>>
     IN  /\ UNION ToSet(places) = {r \in Requests : handler[r] = "done"}
         /\ \A i, j \in 1..4 : i # j => places[i] \cap places[j] = {}

\* A shutdown that meets none of its deadlines leaves no record behind
\* (main.go:181-193, writer.go:101-158).
CleanStopLosesNothing == exit = "clean" /\ ~gaveUp => Queue = <<>>

\* The store is not closed under the writer, unless Close's deadline was met
\* first (writer.go:101-113).
StoreOutlivesWriter == ~storeOpen /\ ~gaveUp => writer = "stopped"

\* A record that was accepted does not wait for ever: it is written or lost with
\* its batch, even if no other record ever comes, or the process ends
\* (writer.go:125-142).
RecordsSettle ==
  \A r \in Requests : (r \in ToSet(Queue)) ~> (r \in written \cup failed \/ ~Running)

\* After a signal the process ends, however slow requests and store are
\* (main.go:174-195).
SignalStops == (main = "shutdown") ~> ~Running

\* "Buffered records are flushed on graceful shutdown" (docs/auditing.md:81), and
\* "nothing queued before shutdown is lost" (writer.go:145): after a signal that
\* the process lived to finish within the writer's deadline, nothing waits.
\* (It does not hold: a request that outlasts srv.Shutdown skips the flush.)
ShutdownFlushes ==
  exit \in {"clean", "shutdown_failed"} /\ ~gaveUp => Queue = <<>>

AL == INSTANCE AuditLog WITH queue <- Queue, running <- Running

\* The writer is such a trail: bounded, first in first out, all or nothing by
\* batch, and a record is only dropped when a buffer is full.
ImplementsAuditLog == AL!Spec
================================================================================
