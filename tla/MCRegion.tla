------------------------------ MODULE MCRegion ------------------------------
(* Instance of Region for TLC: every old content of the page.              *)
EXTENDS Region
=============================================================================
