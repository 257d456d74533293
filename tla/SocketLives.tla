---------------------------- MODULE SocketLives ----------------------------
(***************************************************************************)
(* The life of a socket handle as the guest may rely on it: a handle comes *)
(* into use once, is bound to at most one endpoint of the network, which   *)
(* no other handle ever was, and once it is gone it stays gone.            *)
(***************************************************************************)
EXTENDS Integers

CONSTANT Handles

VARIABLES
  life,    (* Handles -> the stage a handle is in, and its endpoint        *)
  ends     (* endpoints there have been: 1 .. ends                         *)

Stage(s) == [stage |-> s, end |-> 0]
BoundTo(e) == [stage |-> "bound", end |-> e]

InUse(h) == life[h].stage \in {"idle", "bound"}

Init ==
  /\ life = [h \in Handles |-> Stage("unused")]
  /\ ends = 0

Open(h) ==
  /\ life[h] = Stage("unused")
  /\ life' = [life EXCEPT ![h] = Stage("idle")]
  /\ UNCHANGED ends

Bind(h) ==
  /\ life[h] = Stage("idle")
  /\ ends' = ends + 1
  /\ life' = [life EXCEPT ![h] = BoundTo(ends + 1)]

Close(h) ==
  /\ InUse(h)
  /\ life' = [life EXCEPT ![h] = Stage("gone")]
  /\ UNCHANGED ends

CloseAll ==
  /\ life' = [h \in Handles |-> IF InUse(h) THEN Stage("gone") ELSE life[h]]
  /\ UNCHANGED ends

Next == CloseAll \/ \E h \in Handles : Open(h) \/ Bind(h) \/ Close(h)

Spec == Init /\ [][Next]_<<life, ends>>

=============================================================================
