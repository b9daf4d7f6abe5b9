-------------------------- MODULE MCTextExtraction --------------------------
(***************************************************************************)
(* An instance of TextExtraction for TLC: the tool prints nothing, as much *)
(* as may be accepted, or up to three bytes more.                          *)
(***************************************************************************)
EXTENDS TextExtraction

MCPrints == 0..(MaxTextBytes + 3)
=============================================================================
