------------------------ MODULE MC_ReviewSubmission ------------------------
(* Two browsers: two tabs of one reviewer's browser, one tab of another's. *)
EXTENDS ReviewSubmission

CONSTANTS t1, t2, t3, b1, b2

TabBrowser == [t \in Tabs |-> IF t = t3 THEN b2 ELSE b1]
=============================================================================
