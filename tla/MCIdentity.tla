------------------------------ MODULE MCIdentity -----------------------------
(***************************************************************************)
(* Four robots for Identity and Durability: one with an integer id and a   *)
(* password, one set up with the same id and a did:key, and two with UUIDs, *)
(* one with a password and one with a did:key.  Each setup is a small      *)
(* fleet; together they bring every pair of hazards together.              *)
(***************************************************************************)
EXTENDS Durability, TLC

CONSTANTS u1, u2

MCClients == {"cart", "arm", "lift", "drone"}
MCRaw == ("cart" :> 1) @@ ("arm" :> 1) @@ ("lift" :> u1) @@ ("drone" :> u2)
MCOwn == ("cart" :> Verifier("pass", "c")) @@ ("arm" :> Verifier("did", "a")) @@
         ("lift" :> Verifier("pass", "l")) @@ ("drone" :> Verifier("did", "d"))

Setup(team, guesses, horizon, persists) ==
    [team |-> team, guesses |-> guesses, horizon |-> horizon, persists |-> persists]

MCSetups ==
    { Setup({"cart", "arm"}, TRUE, 2, FALSE),
      Setup({"arm", "drone"}, FALSE, 1, FALSE),
      Setup({"cart", "lift", "drone"}, TRUE, 0, FALSE),
      Setup({"cart", "lift"}, FALSE, 0, TRUE),
      Setup({"lift"}, TRUE, 1, TRUE),
      Setup({"cart", "arm"}, FALSE, 0, TRUE) }

=============================================================================
