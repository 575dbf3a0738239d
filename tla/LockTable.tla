------------------------------- MODULE LockTable ------------------------------
(***************************************************************************)
(* What the ledger of claims promises its robots (src/src/claim/manager.rs *)
(* and tests/claim_properties.rs): a table of locks over a site.           *)
(*                                                                         *)
(* A right is a robot's use of one resource, shared or exclusive, from one *)
(* tick to another.  One call changes the rights of one robot, and only so *)
(* that all rights fit: none bars another robot's, and nothing is used by  *)
(* more robots at one instant than it admits.  Nobody else's right is      *)
(* taken away for it.  A right ends in no other way than when its time is  *)
(* over, or with the whole table.                                          *)
(***************************************************************************)
EXTENDS Integers, FiniteSets

CONSTANTS
    Robots,
    Reserved,   \* pairs: an exclusive right to the first bars others from the second
    Limit,      \* how many robots a resource with a limit admits
    Counted     \* for each of those, the resources whose users count

VARIABLES
    rights,     \* records with robot, on, mode, start and end
    now

avars == <<rights, now>>

Bars(p, q) ==
    /\ p.robot # q.robot
    /\ p.mode = "exclusive"
    /\ <<p.on, q.on>> \in Reserved
    /\ p.start <= q.end /\ q.start <= p.end

Users(table, x, t) ==
    {p.robot : p \in { q \in table : q.start <= t /\ t <= q.end /\ q.on \in Counted[x] }}

(* The most crowded instant is one where some right begins.                *)
Fits(table) ==
    /\ \A p, q \in table : ~Bars(p, q)
    /\ \A x \in DOMAIN Limit : \A t \in {p.start : p \in table} :
          Cardinality(Users(table, x, t)) <= Limit[x]

OfOthers(table, robot) == { p \in table : p.robot # robot }

-----------------------------------------------------------------------------
Init == rights = {} /\ now = 0

Change(robot) ==
    /\ OfOthers(rights', robot) = OfOthers(rights, robot)
    /\ Fits(rights')
    /\ UNCHANGED now

Lapse == rights' = { p \in rights : now < p.end } /\ UNCHANGED now

Reset == rights' = {} /\ UNCHANGED now

Tick == now' = now + 1 /\ UNCHANGED rights

Next ==
    \/ \E robot \in Robots : Change(robot)
    \/ Lapse
    \/ Reset
    \/ Tick

Spec == Init /\ [][Next]_avars

=============================================================================
