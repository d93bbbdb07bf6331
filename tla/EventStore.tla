----------------------------- MODULE EventStore -----------------------------
(***************************************************************************)
(* The log of events in a file (computecop/events.py, class                *)
(* JsonlEventStore). append() holds a lock while a thread adds a row and   *)
(* trims the file to its newest rows; a failed write turns the store off.  *)
(* A row is named by the task that appends it.                             *)
(***************************************************************************)
EXTENDS Integers, SequencesExt

CONSTANTS
  Tasks,       \* the tasks that append
  NoTask,      \* nobody holds the lock
  MaxEvents    \* max_events

ASSUME EventAssumption == NoTask \notin Tasks /\ MaxEvents \in Nat \ {0}

VARIABLES
  rows,        \* the lines of the file
  disabled,    \* _persistence_disabled
  lockHolder,  \* the task that holds _lock
  thread,      \* where the thread that runs _write_sync for a task stands
  kept         \* the rows that thread has read to write them back

eventVars == <<rows, disabled, lockHolder, thread, kept>>

EventInit ==
  /\ rows = <<>>
  /\ disabled = FALSE
  /\ lockHolder = NoTask
  /\ thread = [t \in Tasks |-> "none"]
  /\ kept = [t \in Tasks |-> <<>>]

\* Mutant of Newest: the oldest rows are kept.
Oldest(s) == SubSeq(s, 1, MaxEvents)

\* rows[-max_events:] of a sequence that is longer.
Newest(s) == SubSeq(s, Len(s) - MaxEvents + 1, Len(s))

\* append() takes the lock and starts the thread.
AppendBegins(t) ==
  /\ lockHolder = NoTask /\ ~disabled /\ thread[t] = "none"
  /\ lockHolder' = t
  /\ thread' = [thread EXCEPT ![t] = "open"]
  /\ UNCHANGED <<rows, disabled, kept>>

\* append() of a store that is off returns once it has had the lock.
AppendSkips == lockHolder = NoTask /\ disabled /\ UNCHANGED eventVars

\* The row is written, flushed and synced.
WriteRow(t) ==
  /\ thread[t] = "open"
  /\ rows' = Append(rows, t)
  /\ thread' = [thread EXCEPT ![t] = "read"]
  /\ UNCHANGED <<disabled, lockHolder, kept>>

\* _trim_sync reads the file, and is done unless it is too long.
ReadRows(t) ==
  /\ thread[t] = "read"
  /\ IF Len(rows) > MaxEvents
       THEN /\ kept' = [kept EXCEPT ![t] = Newest(rows)]
            /\ thread' = [thread EXCEPT ![t] = "truncate"]
       ELSE thread' = [thread EXCEPT ![t] = "done"] /\ UNCHANGED kept
  /\ UNCHANGED <<rows, disabled, lockHolder>>

\* write_text() opens the file for writing, which empties it,
Truncate(t) ==
  /\ thread[t] = "truncate"
  /\ rows' = <<>>
  /\ thread' = [thread EXCEPT ![t] = "restore"]
  /\ UNCHANGED <<disabled, lockHolder, kept>>

\* and then writes the rows back.
Restore(t) ==
  /\ thread[t] = "restore"
  /\ rows' = kept[t]
  /\ thread' = [thread EXCEPT ![t] = "done"]
  /\ UNCHANGED <<disabled, lockHolder, kept>>

\* The file system refuses; what was done stays.
WriteFails(t) ==
  /\ thread[t] \in {"open", "read", "truncate", "restore"}
  /\ thread' = [thread EXCEPT ![t] = "failed"]
  /\ UNCHANGED <<rows, disabled, lockHolder, kept>>

ThreadNext(t) ==
  WriteRow(t) \/ ReadRows(t) \/ Truncate(t) \/ Restore(t) \/ WriteFails(t)

\* Mutant of AppendReturns: an error leaves the lock taken.
AppendKeepsLock(t) ==
  /\ lockHolder = t /\ thread[t] \in {"done", "failed"}
  /\ lockHolder' = IF thread[t] = "failed" THEN t ELSE NoTask
  /\ disabled' = (disabled \/ thread[t] = "failed")
  /\ thread' = [thread EXCEPT ![t] = "none"]
  /\ kept' = [kept EXCEPT ![t] = <<>>]
  /\ UNCHANGED rows

\* The thread has ended: append() notes a failure and gives the lock back.
AppendReturns(t) ==
  /\ lockHolder = t /\ thread[t] \in {"done", "failed"}
  /\ lockHolder' = NoTask
  /\ disabled' = (disabled \/ thread[t] = "failed")
  /\ thread' = [thread EXCEPT ![t] = "none"]
  /\ kept' = [kept EXCEPT ![t] = <<>>]
  /\ UNCHANGED rows

\* The task of t is cancelled in append(): it leaves the lock, if it holds it,
\* and a thread that runs goes on alone.
AppendCancelled(t) ==
  /\ lockHolder' = IF lockHolder = t THEN NoTask ELSE lockHolder
  /\ UNCHANGED <<rows, disabled, thread, kept>>

-----------------------------------------------------------------------------
(* Properties                                                              *)

EventTypeOK ==
  /\ rows \in Seq(Tasks)
  /\ disabled \in BOOLEAN
  /\ lockHolder \in Tasks \cup {NoTask}
  /\ thread \in [Tasks -> {"none", "open", "read", "truncate", "restore", "done", "failed"}]
  /\ kept \in [Tasks -> Seq(Tasks)]

\* What the file holds once a rewrite in progress has ended.
Log ==
  IF \E t \in Tasks : thread[t] = "restore"
    THEN kept[CHOOSE t \in Tasks : thread[t] = "restore"]
    ELSE rows

\* How a log L may become the log M: one row more, or only the newest rows.
Retains(L, M) ==
  \/ M = L
  \/ \E t \in Tasks : M = Append(L, t)
  \/ Len(L) > Len(M) /\ Len(M) = MaxEvents /\ IsSuffix(M, L)
=============================================================================
