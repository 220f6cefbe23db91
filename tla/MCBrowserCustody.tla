-------------------------- MODULE MCBrowserCustody --------------------------
(* BrowserCustody on small instances: constants only. *)
EXTENDS BrowserCustody
CONSTANTS s1, s2, d1

OnePage  == [b \in Batches |-> "page"]
TwoPages == [b \in Batches |-> IF b = s2 THEN "other" ELSE "page"]
=============================================================================
