------------------------- MODULE TableToListItemData -------------------------
(***************************************************************************)
(* setData() and setItemData() of KDTableToListProxyModel, which write     *)
(* through to the source.  setItemData() calls the source once for each    *)
(* column that the roles are mapped to, and the source can refuse; it can  *)
(* sort its rows anew after each call, and a slot of dataChanged() can     *)
(* change the mappings of roles.                                           *)
(*                                                                         *)
(* Values are told apart by the role that they were given for; 0 is what   *)
(* was there before the call.                                              *)
(***************************************************************************)
EXTENDS Integers, Sequences, SequencesExt, FiniteSets, FiniteSetsExt

CONSTANTS
  TableRows,    \* the identities of the source's rows
  TableColumns, \* the number of its columns
  CellRoles,    \* the roles of the source
  ItemRoles,    \* the roles of the proxy, numbers above 0 in the order of a QMap
  Mappings      \* what roles may be mapped to: functions from roles to [column, columnRole]

ASSUME ItemDataAssumption ==
  /\ IsFiniteSet(TableRows) /\ TableRows # {} /\ TableColumns \in Nat
  /\ ItemRoles \subseteq Nat \ {0} /\ IsFiniteSet(ItemRoles)
  /\ \A m \in Mappings : DOMAIN m \subseteq ItemRoles /\ \A r \in DOMAIN m : m[r].columnRole \in CellRoles

Cells == TableRows \X (1..TableColumns) \X CellRoles

VARIABLES
  order,    \* the rows of the source
  mappings, \* m_roleMappings; columns that the source does not have are stale
  cells,    \* the data of the source
  call,     \* the last call: its row, the roles that are left and what it returns
  asked,    \* history: the rows that have been where the call said, and its roles
  remapped  \* history: mappings have changed since it began

itemDataVars == <<order, mappings, cells, call, asked, remapped>>

Untouched == [c \in Cells |-> 0]
Returned  == call.left = {}

ItemDataInit ==
  /\ order \in SetToSeqs(TableRows) /\ mappings \in Mappings
  /\ cells = Untouched /\ call = [row |-> 1, left |-> {}, ok |-> FALSE]
  /\ asked = [of |-> {order[1]}, roles |-> {}] /\ remapped = FALSE

\* A call for some roles, which returns at once unless some are left to be written.
Ask(row, roles, left, ok) ==
  /\ Returned
  /\ call' = [row |-> row, left |-> left, ok |-> ok]
  /\ asked' = [of |-> {order[row]}, roles |-> roles]
  /\ cells' = Untouched /\ remapped' = FALSE /\ UNCHANGED <<order, mappings>>

\* A role that is not mapped is refused by setData(), ...
SetData(row, role) == Ask(row, {role}, {role} \cap DOMAIN mappings, role \in DOMAIN mappings)

\* ... and dropped by setItemData().
SetItemData(row, roles) == Ask(row, roles, roles, TRUE)

\* Mistake: all roles are taken to be mapped to the column of the first.
InAnyColumn(column, roles) == roles

\* Of the roles that are left the first chooses a column, and the others that are mapped
\* to it are written with it.
InColumn(column, roles) == {r \in roles : mappings[r].column = column}

\* Of roles that are mapped to one role of the source the last is written.
ValuesOf(roles) ==
  [c \in {mappings[r].columnRole : r \in roles} |-> Max({r \in roles : mappings[r].columnRole = c})]

\* The source writes values to one of its cells: all of them, or some and refuses, or
\* none if it does not have the cell.
SetColumn ==
  LET mapped == call.left \cap DOMAIN mappings
      column == mappings[Min(mapped)].column
      same   == InColumn(column, mapped)
  IN /\ ~Returned /\ mapped # {}
     /\ \E written \in SUBSET DOMAIN ValuesOf(same) :
          /\ column \in 1..TableColumns \/ written = {}
          /\ cells' = [c \in Cells |-> IF c[1] = order[call.row] /\ c[2] = column /\ c[3] \in written
                                       THEN ValuesOf(same)[c[3]] ELSE cells[c]]
          /\ call' = IF written = DOMAIN ValuesOf(same) THEN [call EXCEPT !.left = mapped \ same]
                     ELSE [call EXCEPT !.left = {}, !.ok = FALSE]
     /\ UNCHANGED <<order, mappings, asked, remapped>>

NoneMapped ==
  /\ ~Returned /\ call.left \cap DOMAIN mappings = {}
  /\ call' = [call EXCEPT !.left = {}]
  /\ UNCHANGED <<order, mappings, cells, asked, remapped>>

\* In the source or in a slot, after it has been called.
Disturb ==
  /\ ~Returned /\ call.left # asked.roles
  /\ \/ /\ order' \in SetToSeqs(TableRows) /\ asked' = [asked EXCEPT !.of = @ \cup {order'[call.row]}]
        /\ UNCHANGED <<mappings, remapped>>
     \/ mappings' \in Mappings /\ remapped' = TRUE /\ UNCHANGED <<order, asked>>
  /\ UNCHANGED <<cells, call>>

ItemDataNext ==
  \/ \E row \in DOMAIN order :
       \/ \E role \in ItemRoles : SetData(row, role)
       \/ \E roles \in SUBSET ItemRoles : SetItemData(row, roles)
  \/ SetColumn \/ NoneMapped \/ Disturb
ItemDataSpec == ItemDataInit /\ [][ItemDataNext]_itemDataVars
-----------------------------------------------------------------------------
\* A call writes no value to a column or a role that its role is not mapped to, none in
\* two rows, and none in a row that has not been where the call said: sorting the
\* source under its hand can spread an item over the rows that come there, but over no
\* others.  When it has returned true all roles that are mapped have been written, of
\* those with the same cell the last.  That is unless mappings change under its hand;
\* nothing is promised of what has been written when it returns false.
ItemDataSet ==
  LET mapped         == asked.roles \cap DOMAIN mappings
      together(q, r) == mappings[q].column = mappings[r].column /\ mappings[q].columnRole = mappings[r].columnRole
      placed(c, r)   == c[1] \in asked.of /\ c[2] = mappings[r].column /\ c[3] = mappings[r].columnRole
  IN ~remapped =>
       /\ \A c \in Cells : cells[c] # 0 => cells[c] \in mapped /\ placed(c, cells[c])
       /\ \A c, d \in Cells : cells[c] # 0 /\ cells[c] = cells[d] => c = d
       /\ Returned /\ call.ok =>
            \A r \in mapped : \E c \in Cells : placed(c, r) /\ cells[c] = Max({q \in mapped : together(q, r)})
=============================================================================
