--------------------------- MODULE MCTableToList ---------------------------
(* Instances of KDTableToListProxyModel for TLC: tables of up to three       *)
(* columns and three rows; sources with three columns and all rows, with one   *)
(* column and one row, and with two columns and no rows.  Rows and columns   *)
(* are interchangeable.                                                      *)
EXTENDS KDTableToListProxyModel

Shape(c, r) == [columns : {s \in Distinct(ColumnIds) : Len(s) = c},
                rows    : {s \in Distinct(RowIds) : Len(s) = r}]
MCTables    == Shape(3, 3) \cup Shape(1, 1) \cup Shape(2, 0)
MCSymmetry  == Permutations(RowIds) \cup Permutations(ColumnIds)
=============================================================================
