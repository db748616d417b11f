---------------------------- MODULE MCSitemapFanOut ----------------------------
(***************************************************************************)
(* Model-checking instances of SitemapFanOut.                              *)
(***************************************************************************)
EXTENDS SitemapFanOut, TLC

CONSTANTS s1, s2

TwoShards == {s1, s2}
SizeOfTwo == (s1 :> 1) @@ (s2 :> 2)
=============================================================================
