-------------------------- MODULE MCReconciliation --------------------------
(***************************************************************************)
(* Small instances of Reconciliation.  The snapshots of station e1 are     *)
(* three observations of source A in order of time, a fourth with the same *)
(* time as the second, one of source B and one without a confirmed UTC     *)
(* time; station e2 shows that stations do not disturb each other.  Each   *)
(* configuration takes the snapshots its question needs.                   *)
(***************************************************************************)
EXTENDS Reconciliation

CONSTANTS e1, e2, srcA, srcB, a1, a2, a2bis, a3, b3, unzoned, other

Row(e, src, t) == [entry |-> e, source |-> src, status |-> "ACCEPTED",
                   at |-> t, quality |-> "CONFIRMED_UTC"]

MCObserved ==
    [s \in Snapshot |->
        CASE s = a1      -> Row(e1, srcA, 1)
          [] s = a2      -> Row(e1, srcA, 2)
          [] s = a2bis   -> Row(e1, srcA, 2)
          [] s = a3      -> Row(e1, srcA, 3)
          [] s = b3      -> Row(e1, srcB, 3)
          [] s = unzoned -> [Row(e1, srcA, NoTimestamp) EXCEPT
                                !.quality = "UNZONED_SOURCE_TEXT"]
          [] s = other   -> Row(e2, srcB, 1)]
=============================================================================
