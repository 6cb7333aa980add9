------------------------------ MODULE MCFakeTtl ------------------------------
(* FakeTtl on paths around every boundary of the distance computation: next *)
(* to the margin, and where the initial hop limit 128 is mistaken for 64.   *)
EXTENDS FakeTtl
MCConfigs == {-1, 0, 1, 3, 8, 64, 255, 256, 300}
MCHops == (0..9) \cup (62..66)
=============================================================================
