------------------------------ MODULE MCMover ------------------------------
(* Instances of Mover for TLC: packages a, b, c and the unmanaged u.       *)
EXTENDS Mover, TLC

CONSTANTS a, b, c, u, old, new

OldAndNew == (old :> {a}) @@ (new :> {b, c})
RoleTwice == (old :> {a, c}) @@ (new :> {b})

(* Entra's incompatibilities, seen from either package.                    *)
Between(x, y) ==
  [p \in Packages |-> IF p = x THEN {y} ELSE IF p = y THEN {x} ELSE {}]
OldWithNew == Between(a, b)
NewWithUnmanaged == Between(b, u)
=============================================================================
