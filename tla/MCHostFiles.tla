---------------------------- MODULE MCHostFiles ----------------------------
(***************************************************************************)
(* HostFiles on a disk of two places: "entry" is in the package and on the *)
(* disk's first place, "dotted" is the same with "./" before it, "rooted"  *)
(* has "mythroad/" before it, so it means that place and is not in the     *)
(* package, and "own" is the guest's own file.                             *)
(***************************************************************************)
EXTENDS HostFiles, TLC

MCNames == {"entry", "dotted", "rooted", "own"}
MCPathOf == [n \in MCNames |-> IF n = "own" THEN "second" ELSE "first"]
MCPackLen == [n \in {"entry", "dotted"} |-> 2]
MCExact == {"entry"}
=============================================================================
