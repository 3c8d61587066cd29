---------------------------- MODULE MCHidReports ----------------------------
(* Small instances of HidReports: the adapter that each reader and caller   *)
(* belongs to.                                                              *)
EXTENDS HidReports

CONSTANTS d1, d2, r1, r2, c1

OneReader == [t \in {r1, c1} |-> d1]
ReaderEach == (r1 :> d1) @@ (r2 :> d2)
TwoReaders == [t \in {r1, r2} |-> d1]
ReaderAlone == [t \in {r1} |-> d1]
=============================================================================
