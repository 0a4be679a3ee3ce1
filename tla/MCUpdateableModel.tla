------------------------- MODULE MCUpdateableModel -------------------------
(* An instance of UpdateableModel for TLC: rows as they were, with a change  *)
(* of one cell, and with changes in several roles and in columns that are    *)
(* not neighbours.                                                           *)
EXTENDS UpdateableModel

MCVersions == {{}, {<<0, "display">>}, {<<0, "display">>, <<0, "edit">>, <<2, "edit">>}}
=============================================================================
