------------------------------- MODULE Slots --------------------------------
(***************************************************************************)
(* When two statements about one subject say different things: the slot    *)
(* comparison of app/pipeline/dedup.py and the stance matrix of            *)
(* app/pipeline/lifecycle.py.                                              *)
(*                                                                         *)
(* attributes is a record with one field per kind of slot the comparison   *)
(* or the handoff validator tells apart: the stance, the due date          *)
(* <<year, month, day>> with its precision, the quantity's unit (the set   *)
(* of words it is made of), the protocol, the region, the impact (one of   *)
(* the nested incident slots), one ordinary slot standing for the others   *)
(* that are compared with !=, one key of extra, and the free-text          *)
(* rationale.  None is a slot that is absent.                              *)
(***************************************************************************)
EXTENDS Integers

CONSTANT None

Blank == [stance |-> None, due |-> None, prec |-> None, unit |-> None,
          protocol |-> None, region |-> None, impact |-> None,
          value |-> None, extra |-> None, rationale |-> None]

\* The day's position within the granularity at which it was stated.
Period(due, prec) ==
    IF prec = "month" THEN <<due[1], due[2]>> ELSE <<due[1], (due[2] - 1) \div 3 + 1>>

\* _due_dates_compatible: only a shared month or quarter precision is bucketed.
DueDatesCompatible(a, b) ==
    \/ a.due = b.due
    \/ /\ a.prec = b.prec
       /\ a.prec \in {"month", "quarter"}
       /\ Period(a.due, a.prec) = Period(b.due, b.prec)

UnitsCompatible(u, v) == u \subseteq v \/ v \subseteq u

InBoth(a, b, slot) == a[slot] # None /\ b[slot] # None

\* slots_compatible: no slot present in both with a differing value.  prec and
\* rationale are never compared by themselves.
SlotsCompatible(a, b) ==
    /\ \A slot \in {"stance", "protocol", "region", "impact", "value", "extra"} :
         InBoth(a, b, slot) => a[slot] = b[slot]
    /\ InBoth(a, b, "due") => DueDatesCompatible(a, b)
    /\ InBoth(a, b, "unit") => UnitsCompatible(a.unit, b.unit)

\* _STANCE_MATRIX has a row for each of these, and "conflict" in these cells.
MatrixRows == {"required", "deferred", "in_progress"}

MatrixConflicts ==
    { <<"required", "deferred">>, <<"required", "dropped">>,
      <<"deferred", "required">>, <<"deferred", "in_progress">>, <<"deferred", "done">>,
      <<"in_progress", "deferred">>, <<"in_progress", "dropped">> }

\* stances_conflict: the cell (a, b), or (b, a) when a has no row.
StancesConflict(a, b) ==
    /\ a # None
    /\ b # None
    /\ \/ a \in MatrixRows /\ <<a, b>> \in MatrixConflicts
       \/ a \notin MatrixRows /\ <<b, a>> \in MatrixConflicts
=============================================================================
