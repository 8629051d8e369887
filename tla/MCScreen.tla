------------------------------ MODULE MCScreen ------------------------------
(***************************************************************************)
(* An instance of Screen for TLC: two lines, which a report fills.         *)
(***************************************************************************)
EXTENDS ScreenProperties

MCGlyphs == {"a"}
MCReportHead == <<"E">>
MCMessage(v) == <<"T", "S">>
=============================================================================
