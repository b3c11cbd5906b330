----------------------------- MODULE MCUpdates -----------------------------
(* Instances of Updates for TLC: versions 10, 11 and 20, of majors 1 and 2. *)
EXTENDS Updates

CONSTANTS a, b

MajorOf(v) == v \div 10

MCPatches == {[pinned |-> 11], [offline |-> TRUE]}

(* One process is a launch, the other runs whatever users start.           *)
MCStarts == (a :> {"launch"}) @@ (b :> {"launch", "install", "rollback"})
=============================================================================
