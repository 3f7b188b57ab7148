--------------------------- MODULE MCSitemapRegen ---------------------------
(* SitemapRegen for TLC: leaders are model values. *)
EXTENDS SitemapRegen
=============================================================================
