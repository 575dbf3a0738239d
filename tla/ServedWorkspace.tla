--------------------------- MODULE ServedWorkspace ---------------------------
(***************************************************************************)
(* What a workspace push promises (src/src/wire/peerbus.rs, the comments   *)
(* of set_workspace and next_transfer_id): a push either leaves the map    *)
(* being served alone or replaces it by the whole of one document that an  *)
(* operator really pushed, once; a core that restarts serves what it       *)
(* booted with.                                                            *)
(*                                                                         *)
(* A push is a pair of a transfer number and a document.                   *)
(***************************************************************************)
EXTENDS Sequences

CONSTANTS
    Transfers,      \* transfer numbers
    Documents,      \* documents somebody may push
    Refused,        \* those set_workspace does not load
    BootDocument    \* what a core serves when it starts

VARIABLES
    serving,        \* the document behind the index being served
    open            \* the pushes under way that the operator authorised

avars == <<serving, open>>

Init == serving = BootDocument /\ open = {}

(* A push begins; others may be given up, before or after it.              *)
Begin(t, d) ==
    /\ open' \subseteq open \cup {<<t, d>>}
    /\ UNCHANGED serving

Abandon ==
    /\ open' \subseteq open
    /\ UNCHANGED serving

(* An open push replaces the map, whole and once.                          *)
Apply(p) ==
    /\ p[2] \notin Refused
    /\ serving' = p[2]
    /\ open' = open \ {p}

Reboot == serving' = BootDocument /\ UNCHANGED open

Next ==
    \/ \E t \in Transfers, d \in Documents : Begin(t, d)
    \/ Abandon
    \/ \E p \in open : Apply(p)
    \/ Reboot

Spec == Init /\ [][Next]_avars

=============================================================================
