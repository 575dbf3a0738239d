----------------------------- MODULE MCScheduling -----------------------------
(* A small site, its plans and two robots for Scheduling.                  *)
EXTENDS Scheduling, TLC

CONSTANTS yard, bay, gate, mid, dock, e1, e2, r1, r2

MCZones  == {yard, bay}
MCNodes  == {gate, mid, dock}
MCEdges  == {e1, e2}
MCRobots == {r1, r2}

OneRobot      == {r1}

(* gate -e1- mid -e2- dock: mid is in the yard, dock in a bay of the yard. *)
DockSite ==
    [ present      |-> MCZones \cup MCNodes \cup MCEdges,
      parent       |-> (yard :> NoZone @@ bay :> yard),
      ancestors    |-> (yard :> {} @@ bay :> {yard}),
      zonesOf      |-> (gate :> {} @@ mid :> {yard} @@ dock :> {bay}
                         @@ e1 :> {} @@ e2 :> {yard}),
      policy       |-> (yard :> [exclusive |-> FALSE, explicit |-> TRUE, capacity |-> 2]
                         @@ bay :> [exclusive |-> FALSE, explicit |-> FALSE, capacity |-> 1]),
      edgeCapacity |-> (e1 :> 0 @@ e2 :> 0) ]

(* From mid to the gate, back and into the dock, and from mid into the dock *)
(* at once; an edge costs half a unit.                                     *)
LoopPlan == [nodes |-> <<mid, gate, mid, dock>>, edges |-> <<e1, e1, e2>>,
             cost |-> <<0, 1, 2, 3>>]
HopPlan  == [nodes |-> <<mid, dock>>, edges |-> <<e2>>, cost |-> <<0, 1>>]

TwoPlans   == {LoopPlan, HopPlan}

OtherGround == {{gate}}
YardOnly    == {yard}

(* The archive is written and never read, so states that differ only in it  *)
(* have the same future.                                                   *)
ButArchive == <<requests, leases, nextId, now, fleet, state, place>>

=============================================================================
