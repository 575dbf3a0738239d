----------------------------- MODULE Arbitration -----------------------------
(***************************************************************************)
(* Who goes first: arbitrate_right_of_way of src/src/coordinator.rs.       *)
(*                                                                         *)
(* An ArbitrationContext describes two robots field by field, self_ and    *)
(* other_; here each side is a record and the decision is an operator of   *)
(* the two.  A caller asks once for each robot of a conflict.              *)
(***************************************************************************)
EXTENDS Integers

Progress == {"idle", "following", "waiting", "queued", "blocked", "replanning"}

(* One side of a context.                                                  *)
Contender == [emergency : BOOLEAN, holdsLease : BOOLEAN, priority : Int,
              state : Progress, wait : Nat, remaining : Nat]

-----------------------------------------------------------------------------
(* Blocked or not is asked of the other side only.                          *)
BlockedOnly(x, y) == y.state = "blocked"

(* What tells two contenders apart; each is asked in both directions, and   *)
(* waits count only when both wait.                                        *)
ByEmergency(x, y) == x.emergency /\ ~y.emergency
ByLease(x, y)     == x.holdsLease /\ ~y.holdsLease
ByPriority(x, y)  == x.priority > y.priority
ByBlocked(x, y)   == x.state # "blocked" /\ y.state = "blocked"
ByMotion(x, y)    == x.state = "following" /\ y.state = "waiting"
ByWait(x, y)      == x.state = "waiting" /\ y.state = "waiting" /\ x.wait > y.wait
ByRemaining(x, y) == x.remaining < y.remaining

(* arbitrate_right_of_way: the first line that applies decides; when none   *)
(* does, both are to plan again.                                           *)
RightOfWay(self, other) ==
    IF ByEmergency(self, other) THEN "proceed" ELSE
    IF ByEmergency(other, self) THEN "yield"   ELSE
    IF ByLease(other, self)     THEN "yield"   ELSE
    IF ByLease(self, other)     THEN "proceed" ELSE
    IF ByPriority(self, other)  THEN "proceed" ELSE
    IF ByPriority(other, self)  THEN "yield"   ELSE
    IF ByBlocked(other, self)   THEN "yield"   ELSE
    IF ByBlocked(self, other)   THEN "proceed" ELSE
    IF ByMotion(self, other)    THEN "proceed" ELSE
    IF ByMotion(other, self)    THEN "yield"   ELSE
    IF ByWait(self, other)      THEN "proceed" ELSE
    IF ByWait(other, self)      THEN "yield"   ELSE
    IF ByRemaining(self, other) THEN "proceed" ELSE
    IF ByRemaining(other, self) THEN "yield"   ELSE "replan"

-----------------------------------------------------------------------------
(* The answer that fits the one the other robot got.                       *)
Counterpart(answer) ==
    CASE answer = "proceed" -> "yield"
      [] answer = "yield"   -> "proceed"
      [] answer = "replan"  -> "replan"

=============================================================================
