----------------------------- MODULE ReplayCache -----------------------------
(***************************************************************************)
(* server/src/replay.rs: the cache of envelope ids already handled.        *)
(*                                                                         *)
(* The map lives in memory; every new id rewrites its file (temporary file *)
(* and rename, so the file is always one whole map).  A failed write is    *)
(* ignored by the code: the file keeps its previous content.               *)
(***************************************************************************)
EXTENDS Integers

CONSTANTS
    Ids,            \* envelope ids
    Retention,      \* RETENTION_SECS
    None            \* no entry

VARIABLES
    seen,           \* id -> time first seen, or None
    seenDisk        \* the file

replayVars == <<seen, seenDisk>>

CacheOK == /\ seen \in [Ids -> Nat \cup {None}]
           /\ seenDisk \in [Ids -> Nat \cup {None}]

InitCache == /\ seen = [i \in Ids |-> None]
             /\ seenDisk = seen

\* An entry young enough to be kept (the subtraction saturates at 0).
Kept(ts, now) == ts # None /\ now - ts < Retention

\* retain: every call first forgets the entries that are too old.
Retained(now) == [i \in Ids |-> IF Kept(seen[i], now) THEN seen[i] ELSE None]

\* check_and_insert returns true.
Fresh(id, now) == Retained(now)[id] = None

\* A duplicate: nothing but the pruning happens, and only in memory.
Duplicate(id, now) ==
    /\ ~Fresh(id, now)
    /\ seen' = Retained(now)
    /\ UNCHANGED seenDisk

\* Mutant: the file is written before the new id enters the map.
InsertAfterSave(id, now, written) ==
    /\ Fresh(id, now)
    /\ seen' = [Retained(now) EXCEPT ![id] = now]
    /\ seenDisk' = IF written THEN Retained(now) ELSE seenDisk

\* A new id is recorded in memory and, unless the write fails, in the file.
Insert(id, now, written) ==
    /\ Fresh(id, now)
    /\ seen' = [Retained(now) EXCEPT ![id] = now]
    /\ seenDisk' = IF written THEN seen' ELSE seenDisk

\* A new process loads the file as it is; pruning waits for the next check.
ReloadCache == seen' = seenDisk /\ UNCHANGED seenDisk
=============================================================================
