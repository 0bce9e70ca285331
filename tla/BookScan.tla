------------------------------ MODULE BookScan -------------------------------
(***************************************************************************)
(* What a scan for the best bid or the best offer promises while the book  *)
(* changes under it: it looks at the levels one by one, from the best      *)
(* price of its side to the worst, passes those it finds empty, and        *)
(* returns the first one that is not.  PriceTree implements this module    *)
(* with a walk through the tree, and Exchange scans in this way.           *)
(***************************************************************************)
EXTENDS Integers

CONSTANTS
  Levels,      \* the prices that have a level
  Null

VARIABLES
  occupied,    \* occupied[s]: the levels with orders on side s
  looking,     \* the side that is being scanned, or Null
  passed,      \* the levels this scan has found empty
  best         \* the level it returned, Null if all were empty

vars == <<occupied, looking, passed, best>>

Sides == {"buy", "sell"}

\* l is at least as good a price as m for whoever trades against side s.
AsGood(s, l, m) == IF s = "buy" THEN l >= m ELSE l <= m

\* The level to look at next.
IsNext(l) ==
  /\ l \in Levels \ passed
  /\ \A m \in Levels \ passed : AsGood(looking, l, m)

Init ==
  /\ occupied = [s \in Sides |-> {}]
  /\ looking = Null /\ passed = {} /\ best = Null

\* Orders arrive, trade and are cancelled.
Change ==
  /\ occupied' \in [Sides -> SUBSET Levels]
  /\ UNCHANGED <<looking, passed, best>>

Begin ==
  /\ looking = Null
  /\ looking' \in Sides
  /\ passed' = {} /\ best' = Null
  /\ UNCHANGED occupied

\* Whoever scanned has done with the result.
Drop ==
  /\ looking = Null
  /\ best' = Null
  /\ UNCHANGED <<occupied, looking, passed>>

\* An empty level; after the last one the scan returns null.
Pass(l) ==
  /\ looking # Null /\ IsNext(l)
  /\ l \notin occupied[looking]
  /\ passed' = passed \cup {l}
  /\ looking' = IF passed' = Levels THEN Null ELSE looking
  /\ UNCHANGED <<occupied, best>>

Take(l) ==
  /\ looking # Null /\ IsNext(l)
  /\ l \in occupied[looking]
  /\ best' = l /\ looking' = Null
  /\ UNCHANGED <<occupied, passed>>

Next == Change \/ Begin \/ Drop \/ (\E l \in Levels : Pass(l) \/ Take(l))

Spec == Init /\ [][Next]_vars
=============================================================================
