-------------------- MODULE PropertySelectorCustomParser --------------------
(***************************************************************************)
(* How KDToolBox's PropertySelector reads its rules from the QML source.   *)
(* A source is a list of values [property, line, script] and of groups     *)
(* [condition, group].                                                     *)
(***************************************************************************)
EXTENDS SequencesExt

\* parseBinding(), where conditions are those of the groups around.
RECURSIVE Parse(_, _)
Parse(conditions, bindings) ==
  FlattenSeq([i \in DOMAIN bindings |->
    LET b == bindings[i] IN
    IF "group" \in DOMAIN b
    THEN Parse(conditions \cup {b.condition}, b.group)
    ELSE <<[conditions |-> conditions, property |-> b.property,
            line |-> b.line, script |-> b.script]>>])

\* applyBindings()
ParsedRules(bindings) == Parse({}, bindings)
=============================================================================
