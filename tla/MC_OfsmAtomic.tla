--------------------------- MODULE MC_OfsmAtomic ---------------------------
(* Two threads, blocks nested once.                                        *)
EXTENDS OfsmAtomic
=============================================================================
