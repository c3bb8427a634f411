----------------------------- MODULE IdStrings -----------------------------
(* The ids ticked in a dialog's tree are kept beside it as a string, each  *)
(* with a "_" behind it.  Every click on save cuts one character off, and  *)
(* the cut string stays; the server reads the ids between the "_".  Here a *)
(* string is the ids it was written with and the characters cut off.       *)
EXTENDS Naturals, FiniteSets

CONSTANT GuidLength   \* characters of an id

ASSUME IdLength == GuidLength \in Nat \ {0}

Written(ids)  == [ids |-> ids, cut |-> 0]
Characters(s) == Cardinality(s.ids) * (GuidLength + 1) - s.cut

\* substring(0, length - 1), which leaves an empty string as it is.
Shortened(s) == IF Characters(s) = 0 THEN s ELSE [s EXCEPT !.cut = @ + 1]

\* A mutant for the runs: what is no whole id is skipped.
GetListSkips(s) ==
  {ids \in SUBSET s.ids :
     /\ Characters(s) > 0
     /\ Cardinality(ids) = (Characters(s) + 1) \div (GuidLength + 1)}

\* GetList: what is between two "_" must be a whole id, so no id at all, a
\* "_" at the end and a cut id are refused.  The last ids are missing then
\* that were cut off as a whole.
GetList(s) ==
  IF Characters(s) > 0 /\ Characters(s) % (GuidLength + 1) = GuidLength
  THEN {ids \in SUBSET s.ids :
          Cardinality(ids) = (Characters(s) + 1) \div (GuidLength + 1)}
  ELSE {}
=============================================================================
