---------------------------- MODULE MCQtHelpers ----------------------------
(* The helpers of one or two classes each.  They do not work together: a *)
(* behaviour is one of the subject, and the others stay as they begin.   *)
EXTENDS NotifyGuard, KDSqlDatabaseTransaction, SingleShotConnect, KDCoro, PropertySelector,
        PropertySelectorCustomParser, ModelIterator, StringTokenizer, StdVectorAdaptor,
        TableToListItemData

CONSTANTS width, height, ratio, name, sizeChanged, ratioChanged, checked, hovered

\* NotifyGuard: two properties with one signal, one whose signal has two parameters,
\* and one without a signal.
MCNotifySignal ==
  width :> sizeChanged @@ height :> sizeChanged @@ ratio :> ratioChanged @@ name :> None
MCParameters == sizeChanged :> 1 @@ ratioChanged :> 2

\* PropertySelector: rules as specific as each other, one of a property that the
\* target does not have, and no rule without conditions for the second property.
Value_(property, line, script) == [property |-> property, line |-> line, script |-> script]
Group(condition, bindings) == [condition |-> condition, group |-> bindings]
MCBindings ==
  << Group(checked, <<Value_(1, 2, FALSE), Group(hovered, <<Value_(1, 3, FALSE)>>)>>),
     Group(hovered, <<Value_(1, 5, FALSE), Value_(2, 6, TRUE)>>),
     Value_(1, 8, FALSE),
     Group(checked, <<Value_(2, 9, FALSE), Value_(3, 10, FALSE)>>) >>
MCRules == ParsedRules(MCBindings)

\* ModelIterator: all trees in one of ten indexes and three levels.
Tree == {<<0>>, <<1>>, <<2>>, <<0, 0>>, <<0, 1>>, <<1, 0>>, <<0, 1, 0>>, <<2, 0>>, <<2, 0, 0>>, <<2, 0, 1>>}
MCModels ==
  {m \in SUBSET Tree : \A i \in m : /\ Len(i) > 1 => Front(i) \in m
                                    /\ Last(i) > 0 => Append(Front(i), Last(i) - 1) \in m}

\* StringTokenizer: separators that overlap with themselves, or are empty.
MCHaystacks == UNION {[1..n -> {"a", "A", "b"}] : n \in 0..4}
MCNeedles   == {<<>>, <<"a">>, <<"a", "a">>, <<"a", "b">>}
MCFold      == "a" :> "a" @@ "A" :> "a" @@ "b" :> "b"

\* TableToListItemData: roles with one column, with one cell, and with a column that the
\* source does not have any more.
MCMappings ==
  LET to(column, columnRole) == [column |-> column, columnRole |-> columnRole] IN
  { <<>>, <<to(1, "display"), to(2, "display"), to(1, "edit")>>,
    <<to(2, "display"), to(2, "display"), to(1, "display")>>,
    <<to(3, "display"), to(1, "edit")>>, 2 :> to(1, "edit") @@ 3 :> to(2, "edit") }

MCSymmetry  == Permutations(Guards) \cup Permutations(Values)
-----------------------------------------------------------------------------
VARIABLE subject

Subjects == {"NotifyGuard", "KDSqlDatabaseTransaction", "SingleShotConnect", "KDCoro",
             "PropertySelector", "ModelIterator", "StringTokenizer", "StdVectorAdaptor",
             "TableToListItemData"}

allVars == <<guardVars, transactionVars, singleShotVars, coroVars, selectorVars,
             iteratorVars, tokenizerVars, vectorVars, itemDataVars>>

\* Where there is a choice, the others make the same one.
Init ==
  /\ subject \in Subjects
  /\ GuardInit /\ TransactionInit /\ CoroInit /\ VectorInit
  /\ (IF subject = "SingleShotConnect" THEN TRUE ELSE connectionType = "direct") /\ SingleShotInit
  /\ (IF subject = "PropertySelector" THEN TRUE ELSE holding = [t \in Targets |-> {}]) /\ SelectorInit
  /\ (IF subject = "ModelIterator" THEN TRUE ELSE model = {} /\ kind = "flat") /\ IteratorInit
  /\ (IF subject = "StringTokenizer" THEN TRUE
      ELSE haystack = <<>> /\ needle = <<>> /\ skipEmpty = FALSE /\ caseSensitive = TRUE) /\ TokenizerInit
  /\ (IF subject = "TableToListItemData" THEN TRUE ELSE order = <<"r1", "r2">> /\ mappings = <<>>) /\ ItemDataInit

Next ==
  /\ UNCHANGED subject
  /\ \/ /\ subject = "NotifyGuard" /\ GuardNext
        /\ UNCHANGED <<transactionVars, singleShotVars, coroVars, selectorVars, iteratorVars, tokenizerVars, vectorVars, itemDataVars>>
     \/ /\ subject = "KDSqlDatabaseTransaction" /\ TransactionNext
        /\ UNCHANGED <<guardVars, singleShotVars, coroVars, selectorVars, iteratorVars, tokenizerVars, vectorVars, itemDataVars>>
     \/ /\ subject = "SingleShotConnect" /\ SingleShotNext
        /\ UNCHANGED <<guardVars, transactionVars, coroVars, selectorVars, iteratorVars, tokenizerVars, vectorVars, itemDataVars>>
     \/ /\ subject = "KDCoro" /\ CoroNext
        /\ UNCHANGED <<guardVars, transactionVars, singleShotVars, selectorVars, iteratorVars, tokenizerVars, vectorVars, itemDataVars>>
     \/ /\ subject = "PropertySelector" /\ SelectorNext
        /\ UNCHANGED <<guardVars, transactionVars, singleShotVars, coroVars, iteratorVars, tokenizerVars, vectorVars, itemDataVars>>
     \/ /\ subject = "ModelIterator" /\ IteratorNext
        /\ UNCHANGED <<guardVars, transactionVars, singleShotVars, coroVars, selectorVars, tokenizerVars, vectorVars, itemDataVars>>
     \/ /\ subject = "StringTokenizer" /\ TokenizerNext
        /\ UNCHANGED <<guardVars, transactionVars, singleShotVars, coroVars, selectorVars, iteratorVars, vectorVars, itemDataVars>>
     \/ /\ subject = "StdVectorAdaptor" /\ VectorNext
        /\ UNCHANGED <<guardVars, transactionVars, singleShotVars, coroVars, selectorVars, iteratorVars, tokenizerVars, itemDataVars>>
     \/ /\ subject = "TableToListItemData" /\ ItemDataNext
        /\ UNCHANGED <<guardVars, transactionVars, singleShotVars, coroVars, selectorVars, iteratorVars, tokenizerVars, vectorVars>>

Spec == Init /\ [][Next]_<<subject, allVars>>
=============================================================================
