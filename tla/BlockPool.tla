----------------------------- MODULE BlockPool -----------------------------
(***************************************************************************)
(* What an allocator promises its clients, whatever list it keeps: every   *)
(* grant is a range of bytes of the pool that no other grant overlaps, and *)
(* a grant keeps its place and its extent until it is given back.          *)
(***************************************************************************)
EXTENDS Integers

CONSTANT Pool       (* the bytes there are *)

VARIABLE grants     (* the ranges granted, keyed by their first byte *)

Granted(g) == UNION {g[a] : a \in DOMAIN g}

Init == grants = << >>

(* From the grants g to the grants k: one range more, which was free. *)
OneMore(g, k) ==
  \E first \in DOMAIN k \ DOMAIN g :
    /\ \E last \in Pool : first <= last /\ k[first] = first .. last
    /\ k[first] \subseteq Pool \ Granted(g)
    /\ k = [a \in DOMAIN g \cup {first} |-> IF a = first THEN k[first] ELSE g[a]]

(* What is left of the grants g once the one at a has been given back. *)
Without(g, a) == [b \in DOMAIN g \ {a} |-> g[b]]

(* One call takes from the grants g to the grants k. *)
Call(g, k) ==
  \/ OneMore(g, k)
  \/ \E a \in DOMAIN g : k = Without(g, a) \/ OneMore(Without(g, a), k)

(* Bound, and not substituted: each is worked out once in a step. *)
Next == \E g \in {grants}, k \in {grants'} : Call(g, k)

Spec == Init /\ [][Next]_grants

=============================================================================
