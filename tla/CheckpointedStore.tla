-------------------------- MODULE CheckpointedStore --------------------------
(***************************************************************************)
(* What opt-in persistence promises (src/src/persist.rs): a state saved is *)
(* one the coordinator was in, whole; one is saved after another, never an *)
(* older one; and a restart of the process, on a machine that stays up,    *)
(* brings back exactly the last of them.                                   *)
(***************************************************************************)
CONSTANT
    Empty       \* the state of a coordinator that starts fresh

VARIABLES
    running,    \* whether there is a coordinator
    live,       \* its state
    taken,      \* the state on its way to the disk, if there is one: a set
    saved       \* the state a restart would bring back

svars == <<running, live, taken, saved>>

Init ==
    /\ running = TRUE /\ live = Empty
    /\ taken = {} /\ saved = Empty

(* The coordinator changes, also while a state is on its way.               *)
Change ==
    /\ running
    /\ UNCHANGED <<running, taken, saved>>

Take ==
    /\ running /\ taken = {}
    /\ taken' = {live}
    /\ UNCHANGED <<running, live, saved>>

Save ==
    /\ running
    /\ \E s \in taken : saved' = s
    /\ taken' = {}
    /\ UNCHANGED <<running, live>>

(* Saving fails, or the coordinator stops before it is done.                *)
Drop ==
    /\ taken' = {} /\ UNCHANGED <<running, live, saved>>

Stop ==
    /\ running /\ running' = FALSE
    /\ taken' = {}
    /\ UNCHANGED <<live, saved>>

Restart ==
    /\ ~ running /\ running' = TRUE
    /\ live' = saved
    /\ UNCHANGED <<taken, saved>>

Next == Change \/ Take \/ Save \/ Drop \/ Stop \/ Restart

Spec == Init /\ [][Next]_svars

=============================================================================
