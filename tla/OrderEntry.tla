----------------------------- MODULE OrderEntry -----------------------------
(***************************************************************************)
(* From a FIX message to a queued order: the sessions of FixOrders, whose  *)
(* messages are cut by the pattern of FixFields, and the reading of that   *)
(* pattern at compile time.                                                *)
(***************************************************************************)
EXTENDS FixFields, PcreGrammar

VARIABLES input, pos, symbols, subject, decision   \* reading the pattern: see Ctll

parserVars == <<input, pos, symbols, subject, decision>>
entryVars == <<parserVars, sendVars>>

Parser == INSTANCE Ctll WITH stack <- symbols, Start <- "s", Rule <- rule, IsAction <- IsAction,
                             Apply <- apply, Rejected <- RejectedSubject

EntryInit ==
  /\ SendInit
  /\ input = FixPattern /\ subject = EmptySubject
  /\ Parser!ParserInit

\* The pattern of the fields is read at compile time.
Compile ==
  /\ Parser!ParserNext
  /\ UNCHANGED sendVars

Compiled == decision = "accept" /\ UNCHANGED parserVars

EntryNext == Compile \/ \E t \in Threads :
  Compiled /\ (Send(t, Outcomes) \/ Construct(t) \/ Enqueue(t))

EntrySpec == EntryInit /\ [][EntryNext]_entryVars

-----------------------------------------------------------------------------
\* The grammar of patterns reads the pattern of the fields as it is meant.
PatternRead ==
  /\ decision # "reject"
  /\ decision = "accept" => subject.stack = <<FixRegex>>
=============================================================================
