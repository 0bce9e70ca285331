----------------------------- MODULE FixFields -----------------------------
(***************************************************************************)
(* The regular expression of fix_parser.hpp: the fields of a FIX message   *)
(* are its matches, iterated over by ctre::range.                          *)
(***************************************************************************)
EXTENDS RegexMethods, FixOrders

FixPattern == <<SOH>> \o Text("([^=]+)=([^") \o <<SOH>> \o Text("]+)")

\* The tree the grammar makes of the pattern (OrderEntry!PatternRead).
Others(c) == <<Rep("repeat", 1, 0, <<Node("negative_set", <<Chr(c)>>)>>)>>
FixRegex == Node("sequence", <<Chr(SOH), Capture(1, << >>, Others(Code("="))), Chr(Code("=")),
                               Capture(2, << >>, Others(SOH))>>)

\* The matches that a loop over ctre::range meets.
RECURSIVE MatchesFrom(_, _)
MatchesFrom(text, i) ==
  LET match == search_method(FixRegex, text, i, FALSE)
  IN  IF ~ Matched(match) THEN << >>
      ELSE <<match>> \o (IF match[0].end = Len(text) THEN << >> ELSE MatchesFrom(text, match[0].end))

\* The sessions' parser (FixOrders) runs over these.
ASSUME EngineAssumption == \A m \in Messages : MatchesOf[m] = MatchesFrom(m, 0)
=============================================================================
