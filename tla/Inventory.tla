------------------------------ MODULE Inventory ------------------------------
(***************************************************************************)
(* What an enumerator of the program promises: whatever there is, is       *)
(* reported or the report says that it may be missing.  Nothing that was   *)
(* reported or said is taken back, and nothing follows the return.         *)
(***************************************************************************)
CONSTANT Items

VARIABLES
  present,    \* the items there are
  reported,   \* those that the report holds
  excused,    \* those an error of the report accounts for
  returned

vars == <<present, reported, excused, returned>>

Init ==
  /\ present \in SUBSET Items
  /\ reported = {} /\ excused = {}
  /\ returned = FALSE

\* The report gains items and excuses for items, and loses none.
Grows ==
  /\ reported \subseteq reported' /\ reported' \ reported \subseteq present
  /\ excused \subseteq excused' /\ excused' \ excused \subseteq present
  /\ UNCHANGED present

Record == ~returned /\ Grows /\ UNCHANGED returned

\* The last excuse may be told as the report is returned.
Return ==
  /\ ~returned /\ Grows
  /\ present \subseteq reported' \cup excused'
  /\ returned' = TRUE

Next == Record \/ Return

Spec == Init /\ [][Next]_vars
=============================================================================
