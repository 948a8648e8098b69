------------------------------- MODULE Reaper -------------------------------
(***************************************************************************)
(* The TTL reaper, orchestrator/app/reaper.py: one task that sweeps every  *)
(* reaper_interval.  A sweep reads the due rows once and then goes through *)
(* them, one removal in a worker thread at a time.                         *)
(***************************************************************************)
EXTENDS DockerManager

VARIABLES
    reaper,             \* "sleep", or the thread of this removal is "removing",
                        \* or it is done and the loop has yet to resume: "removed"
    target,             \* the row the sweep is at
    due                 \* the rows of the sweep's snapshot still to come

reaperVars == <<reaper, target, due>>

ReaperTypeOK ==
    /\ reaper \in {"sleep", "removing", "removed"}
    /\ target \in Uuids \union {NoUuid}
    /\ due \in SUBSET Uuids

ReaperInit == reaper = "sleep" /\ target = NoUuid /\ due = {}

\* A starting row is skipped while its boot window, counted from created_at, lasts.
InBootWindow(u) == status[u] = "starting" /\ age[u] < BootTimeout

\* Mutant of Reapable: rows left "starting" are never reaped.
ReapableRunning == {u \in due_for_reap : status[u] = "running"}

Reapable == {u \in due_for_reap : ~InBootWindow(u)}

\* The sweep of a set of rows: to the next of them, in no known order, or to sleep.
Continue(todo) ==
    IF todo = {}
    THEN reaper' = "sleep" /\ target' = NoUuid /\ due' = {}
    ELSE \E u \in todo : reaper' = "removing" /\ target' = u /\ due' = todo \ {u}

\* Mutant of SweepBegin: a row is marked before its container is removed.
SweepMarksFirst ==
    /\ reaper = "sleep"
    /\ \E u \in Reapable :
          /\ reaper' = "removing" /\ target' = u /\ due' = Reapable \ {u}
          /\ set_status(u, "expired")
    /\ UNCHANGED container

\* The snapshot and both of its tests are taken at one time, before any await.
SweepBegin ==
    /\ reaper = "sleep"
    /\ Reapable # {}
    /\ Continue(Reapable)
    /\ UNCHANGED <<rows, container>>

\* The thread.  What it raises aborts the whole sweep, not the reaper.
ReaperRemove ==
    /\ reaper = "removing"
    /\ \/ stop_and_remove(target) /\ reaper' = "removed" /\ UNCHANGED <<target, due>>
       \/ stop_and_remove_raises(target) /\ Continue({})
    /\ UNCHANGED rows

\* The row becomes expired, whatever its status is by now.
ReaperExpire ==
    /\ reaper = "removed"
    /\ set_status(target, "expired")
    /\ Continue(due)
    /\ UNCHANGED container

ReaperStep == SweepBegin \/ ReaperRemove \/ ReaperExpire
=============================================================================
