------------------------- MODULE MCSortProxyModel -------------------------
(* Instances of SortProxyModel for TLC: up to four rows that two roles order *)
(* the other way round, with equal values.                                   *)
EXTENDS SortProxyModel

MCRoles  == {"display", "edit"}
Low      == [display |-> 1, edit |-> 2]
High     == [display |-> 2, edit |-> 1]
MCKeys   == {Low, High}
MCModels == {<<>>, <<High, Low, High>>}
=============================================================================
