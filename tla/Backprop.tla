------------------------------ MODULE Backprop ------------------------------
(***************************************************************************)
(* What tensor.backward() promises, whatever the graph: every parameter    *)
(* the result depends on through differentiable steps is owed one gradient *)
(* and gets it, added to what it has, once; no other gradient changes.     *)
(* Nothing is promised for a call on a graph whose buffers an earlier call *)
(* released (~sound).                                                      *)
(***************************************************************************)
EXTENDS Integers

CONSTANTS Param, Gradient, None, Sum(_, _)

VARIABLES grad, due, sound
bvars == << grad, due, sound >>

Settled == \A l \in Param : due[l] = None

BInit == grad = [l \in Param |-> None] /\ Settled /\ sound = TRUE

Ask ==
    /\ Settled /\ UNCHANGED grad
    /\ due' \in [Param -> Gradient \cup {None}]
    /\ sound' \in BOOLEAN /\ (~sound' => Settled')

Deliver(l) ==
    /\ due[l] # None
    /\ grad' = [grad EXCEPT ![l] = Sum(@, due[l])]
    /\ due' = [due EXCEPT ![l] = None]
    /\ UNCHANGED sound

ZeroGrads ==
    /\ Settled
    /\ grad' = [l \in Param |-> None]
    /\ UNCHANGED << due, sound >>

Unspecified == ~sound /\ Settled /\ UNCHANGED << due, sound >>

BNext == Ask \/ (\E l \in Param : Deliver(l)) \/ ZeroGrads \/ Unspecified

BSpec == BInit /\ [][BNext]_bvars

\* What is owed is delivered.
Delivery == ~Settled ~> Settled
=============================================================================
