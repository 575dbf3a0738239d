------------------------------ MODULE Durability -----------------------------
(***************************************************************************)
(* Identity with opt-in persistence around it: the flusher snapshots the   *)
(* coordinator under its read lock, writes a temporary file and renames it *)
(* over the last one; a core that starts restores what it finds            *)
(* (src/src/persist.rs, src/src/coordinator.rs, src/src/bin/syncbot.rs).   *)
(* Flusher and final flush run on the one worker thread of the runtime, so *)
(* never at the same time; requests go on beside them.                     *)
(*                                                                         *)
(* The process may end at any point; the machine stays up, so a file that  *)
(* was renamed stays as it is.  Nothing is synced to the disk: what a      *)
(* power cut leaves of the last saves is outside this model.               *)
(***************************************************************************)
EXTENDS Identity

CONSTANT
    StopBound       \* how often the core stops

VARIABLES
    core,           \* "up", "stopping", "draining" or "down"
    stops,
    held,           \* the snapshot being written, if there is one: a set
    disk,           \* the state file, likewise (a file that does not load is none)
    final,          \* of the last shutdown: "none", "due", "saved", "failed"
    acknowledged    \* history: registrations standing when it was asked for

storeVars == <<core, stops, held, disk, final, acknowledged>>
vars == <<identityVars, storeVars>>

(* Coordinator::snapshot                                                   *)
Snapshot ==
    [registry |-> registry, alive |-> alive, uuids |-> uuids, next |-> next, claims |-> claims]

FreshSnapshot ==
    [registry |-> << >>, alive |-> << >>, uuids |-> << >>, next |-> Base, claims |-> {}]

(* Coordinator::restore: nothing else outlives the process.                *)
RestoreWithFreshCounter(s) ==
    /\ registry' = s.registry /\ alive' = s.alive /\ uuids' = s.uuids
    /\ next' = Base /\ claims' = s.claims
    /\ verified' = {} /\ failures' = << >> /\ challenges' = << >>
    /\ tokens' = {} /\ pending' = << >> /\ accepted' = {}

Restore(s) ==
    /\ registry' = s.registry /\ alive' = s.alive /\ uuids' = s.uuids
    /\ next' = s.next /\ claims' = s.claims
    /\ verified' = {} /\ failures' = << >> /\ challenges' = << >>
    /\ tokens' = {} /\ pending' = << >> /\ accepted' = {}

Init ==
    /\ setup \in Setups
    /\ now = 0 /\ Fresh /\ NothingRemembered
    /\ core = "up" /\ stops = 0
    /\ held = {} /\ disk = {}
    /\ final = "none" /\ acknowledged = {}

(* Requests are served until the process ends, the sweep as long.           *)
Serve ==
    /\ core # "down"
    /\ Handler
    /\ acknowledged' = {a \in acknowledged : a[1] \in DOMAIN registry'}
    /\ UNCHANGED <<core, stops, held, disk, final>>

Time == Tick /\ UNCHANGED storeVars

(* flush: the read lock is let go before the file is written.               *)
TakeSnapshot ==
    /\ setup.persists /\ core # "down" /\ held = {}
    /\ held' = {Snapshot}
    /\ UNCHANGED <<identityVars, core, stops, disk, final, acknowledged>>

(* write_atomic: the rename is what shows.                                 *)
Rename ==
    /\ held # {} /\ core # "stopping"
    /\ disk' = held
    /\ held' = {}
    /\ UNCHANGED <<identityVars, core, stops, final, acknowledged>>

(* A write or a rename that fails leaves the last file; the next tick tries *)
(* again.                                                                  *)
WriteFails ==
    /\ held # {} /\ core # "stopping"
    /\ held' = {}
    /\ UNCHANGED <<identityVars, core, stops, disk, final, acknowledged>>

(* The signal is answered on the worker thread, so between two flushes.      *)
(* Without persistence a stop is a crash.                                  *)
SignalAnyTime ==
    /\ setup.persists /\ core = "up" /\ stops < StopBound
    /\ core' = IF held = {} THEN "stopping" ELSE "draining"
    /\ final' = IF held = {} THEN "due" ELSE "saved"
    /\ acknowledged' = {<<id, registry[id]>> : id \in DOMAIN registry}
    /\ UNCHANGED <<identityVars, stops, held, disk>>

Signal ==
    /\ setup.persists /\ core = "up" /\ held = {} /\ stops < StopBound
    /\ core' = "stopping" /\ final' = "due"
    /\ acknowledged' = {<<id, registry[id]>> : id \in DOMAIN registry}
    /\ UNCHANGED <<identityVars, stops, held, disk>>

(* The final flush ends, well or not, and the connections drain.            *)
FinalFlush ==
    /\ core = "stopping" /\ held # {}
    /\ core' = "draining"
    /\ held' = {}
    /\ \/ disk' = held /\ final' = "saved"
       \/ UNCHANGED disk /\ final' = "failed"
    /\ UNCHANGED <<identityVars, stops, acknowledged>>

Exit ==
    /\ core = "draining" /\ held = {}
    /\ core' = "down" /\ stops' = stops + 1
    /\ UNCHANGED <<identityVars, held, disk, final, acknowledged>>

(* The process is killed or aborts: whatever was being written is a         *)
(* temporary file nobody reads.                                            *)
Crash ==
    /\ core # "down" /\ stops < StopBound
    /\ core' = "down" /\ stops' = stops + 1
    /\ held' = {}
    /\ final' = "none" /\ acknowledged' = {}
    /\ UNCHANGED <<identityVars, disk>>

OnDisk == IF disk = {} THEN FreshSnapshot ELSE CHOOSE s \in disk : TRUE

(* main: restore what loads, or start fresh.                               *)
Boot ==
    /\ core = "down"
    /\ core' = "up"
    /\ Restore(OnDisk)
    /\ final' = "none" /\ acknowledged' = {}
    /\ UNCHANGED <<setup, now, stops, held, disk>>

Next ==
    \/ Serve \/ Time
    \/ TakeSnapshot \/ Rename \/ WriteFails
    \/ Signal \/ FinalFlush \/ Exit \/ Crash \/ Boot

Spec == Init /\ [][Next]_vars

-----------------------------------------------------------------------------
(* A registration standing when a shutdown was asked for, and not taken     *)
(* back while it drained, is in the file the next core starts from, unless *)
(* that very write failed (main's graceful shutdown and the flusher).      *)
AcknowledgedSurvivesShutdown ==
    core = "down" /\ final = "saved" =>
        \A a \in acknowledged :
            a[1] \in DOMAIN OnDisk.registry /\ OnDisk.registry[a[1]] = a[2]

(* The file and the coordinator implement a checkpointed store: a restart   *)
(* brings back exactly a state the coordinator was in, the last one saved, *)
(* whatever changes while it is written and wherever the process ends     *)
(* (flush, write_atomic, restore), while the machine stays up.             *)
Store == INSTANCE CheckpointedStore WITH
    Empty <- FreshSnapshot,
    running <- core # "down",
    live <- Snapshot,
    taken <- held,
    saved <- OnDisk

RestartsWhereItSaved == Store!Spec

=============================================================================
