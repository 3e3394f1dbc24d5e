---------------------------- MODULE MCIngestion ----------------------------
(***************************************************************************)
(* Small instances of Ingestion: station e1 with three observations in     *)
(* order of time, one of another source and one misfiled, e2 with one.     *)
(* The payloads overlap: first and second meet the two stations in         *)
(* opposite orders and share observations, third has a malformed row, a    *)
(* misfiled one, the same observation twice and the one of the other       *)
(* source, garbled cannot be parsed.                                       *)
(***************************************************************************)
EXTENDS Ingestion

CONSTANTS e1, e2, srcA, srcB, a1, a2, a3, b1, c1, misfiled, first, second, third, garbled

Row1(e, t) == [entry |-> e, source |-> srcA, status |-> "ACCEPTED",
               at |-> t, quality |-> "CONFIRMED_UTC"]

MCObserved ==
    [s \in Snapshot |-> CASE s = a1       -> Row1(e1, 1)
                          [] s = a2       -> Row1(e1, 2)
                          [] s = a3       -> Row1(e1, 3)
                          [] s = b1       -> [Row1(e1, 1) EXCEPT !.source = srcB]
                          [] s = c1       -> Row1(e2, 1)
                          [] s = misfiled -> Row1(e1, 4)]

Batch(malformed, rows) == [parses |-> TRUE, malformed |-> malformed, rows |-> rows]

MCPayload ==
    [r \in Receipt |-> CASE r = first   -> Batch(0, <<a2, c1>>)
                         [] r = second  -> Batch(0, <<c1, a1, a2>>)
                         [] r = third   -> Batch(1, <<a3, misfiled, a3, b1>>)
                         [] r = garbled -> [Batch(0, <<>>) EXCEPT !.parses = FALSE]]
=============================================================================
