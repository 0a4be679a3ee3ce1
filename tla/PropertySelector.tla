-------------------------- MODULE PropertySelector --------------------------
(***************************************************************************)
(* KDToolBox's PropertySelector: a QML item that sets properties of its    *)
(* target by rules, of which the one with the most conditions applies, and *)
(* of these the last in the source.                                        *)
(*                                                                         *)
(* Everything happens in one thread, but a property that is written or a   *)
(* condition that changes calls slots, which may change conditions in      *)
(* turn: apply() runs inside apply().  How deep is bounded, and so is how  *)
(* often the target is set.                                                *)
(***************************************************************************)
EXTENDS Lists, Integers, Sequences, SequencesExt, FiniteSets, FiniteSetsExt

CONSTANTS
  Rules,      \* m_ruleList as the QML source says it, see PropertySelectorCustomParser
  Conditions,
  Declared,   \* the properties that targets have; a property is the place of its
              \* name in the alphabet
  Targets,
  Parent,     \* the one that is the target by default
  MaxTargets, \* bound on calls of setTarget()
  MaxNested   \* bound on calls of apply() that have not returned

NoTarget == "no target"

\* The location of a rule, here its line, is its own.
ASSUME SelectorAssumption ==
  /\ Parent \in Targets /\ NoTarget \notin Targets /\ MaxTargets \in Nat /\ MaxNested \in Nat
  /\ IsFiniteSet(Conditions) /\ Declared \subseteq Int
  /\ Rules \in Seq([conditions : SUBSET Conditions, property : Int, line : Nat \ {0}, script : BOOLEAN])
  /\ \A i, j \in DOMAIN Rules : Rules[i].line = Rules[j].line => i = j
-----------------------------------------------------------------------------
(* The rules *)

\* Rule::operator<
Before(r, s) ==
  \/ r.property > s.property
  \/ /\ r.property = s.property
     /\ \/ Cardinality(r.conditions) > Cardinality(s.conditions)
        \/ /\ Cardinality(r.conditions) = Cardinality(s.conditions)
           /\ r.line > s.line

\* prepareRules(): m_ruleList, m_conditions and m_properties.
RuleList ==
  [i \in DOMAIN Rules |->
     CHOOSE r \in ToSet(Rules) : Cardinality({s \in ToSet(Rules) : Before(s, r)}) = i - 1]
UsedConditions == UNION {RuleList[i].conditions : i \in DOMAIN RuleList}
PropertyList  ==
  LET starts == {i \in DOMAIN RuleList : i = 1 \/ RuleList[i].property # RuleList[i - 1].property}
      known  == {i \in DOMAIN RuleList : RuleList[i].property \in Declared}
      list   == Among([i \in DOMAIN RuleList |-> i], starts \cap known)
  IN [i \in DOMAIN list |-> RuleList[list[i]].property]

NoRule == [conditions |-> {}, property |-> 0, line |-> 0, script |-> FALSE]

\* The search of apply(), with the conditions that hold.
Found(p, holding) ==
  LET matching == {i \in DOMAIN RuleList : RuleList[i].property = p /\ RuleList[i].conditions \subseteq holding}
  IN IF matching = {} THEN NoRule ELSE RuleList[Min(matching)]
-----------------------------------------------------------------------------
VARIABLES
  holding,     \* the conditions that hold of each target
  written,     \* the line of the rule whose value each property of each target has,
               \* 0 for none
  m_target,    \* the target that was set, or none
  rulesTarget, \* the target that m_properties is of, none before componentComplete()
  connections, \* how often the conditions of each target are connected to apply()
  currentRule, \* of each property
  applying,    \* the calls of apply(), innermost last: what it has read, the
               \* properties that are left, and the rule whose value it is writing
  targets,     \* how often setTarget() was called
  invalid,     \* history: the properties whose current rule gave no valid value
  overtaken    \* history: the properties that a call of apply() had yet to set, or was
               \* setting, when another one inside of it read conditions

selectorVars == <<holding, written, m_target, rulesTarget, connections, currentRule, applying, targets, invalid, overtaken>>

target   == IF m_target = NoTarget THEN Parent ELSE m_target

SelectorInit ==
  /\ holding \in [Targets -> SUBSET Conditions] /\ written = [t \in Targets |-> [p \in Declared |-> 0]]
  /\ m_target = NoTarget /\ rulesTarget = NoTarget /\ connections = [t \in Targets |-> 0]
  /\ currentRule = [p \in Declared |-> NoRule] /\ applying = <<>> /\ targets = 0
  /\ invalid = {} /\ overtaken = {}

Called == [read |-> FALSE, holds |-> {}, left |-> <<>>, rule |-> NoRule]
Top    == applying[Len(applying)]
SetTop(call) == applying' = [applying EXCEPT ![Len(applying)] = call]

\* What the program does happens between events or in a slot of a property that
\* is being written.
InProgram == applying # <<>> => Len(applying) < MaxNested /\ Top.rule # NoRule

\* The notify signal of a condition calls apply() once for each connection.
ChangeCondition(t, c) ==
  /\ InProgram
  /\ holding' = [holding EXCEPT ![t] = IF c \in @ THEN @ \ {c} ELSE @ \cup {c}]
  /\ applying' = IF c \in UsedConditions
                 THEN applying \o [i \in 1..connections[t] |-> Called] ELSE applying
  /\ UNCHANGED <<written, m_target, rulesTarget, connections, currentRule, targets, invalid, overtaken>>

\* setTarget() leaves the connections of the old target, and before the rules are
\* prepared there are no conditions to connect.
SetTarget(t) ==
  /\ applying = <<>> /\ targets < MaxTargets /\ t # m_target
  /\ targets' = targets + 1 /\ m_target' = t
  /\ IF rulesTarget = NoTarget THEN UNCHANGED <<connections, applying>>
     ELSE connections' = [connections EXCEPT ![target'] = @ + 1] /\ applying' = <<Called>>
  /\ UNCHANGED <<holding, written, rulesTarget, currentRule, invalid, overtaken>>

ComponentComplete ==
  /\ rulesTarget = NoTarget /\ RuleList # <<>> /\ rulesTarget' = target
  /\ connections' = [connections EXCEPT ![target] = @ + 1] /\ applying' = <<Called>>
  /\ UNCHANGED <<holding, written, m_target, currentRule, targets, invalid, overtaken>>

\* Mistake: a guard against recursion that forgets what has changed meanwhile.
ReadUnlessApplying ==
  /\ applying # <<>> /\ ~Top.read
  /\ SetTop([Called EXCEPT !.read = TRUE, !.holds = holding[target] \cap UsedConditions,
                           !.left = IF Len(applying) = 1 THEN PropertyList ELSE <<>>])
  /\ overtaken' = overtaken \cup UNION {ToSet(applying[i].left) : i \in DOMAIN applying}
  /\ UNCHANGED <<holding, written, m_target, rulesTarget, connections, currentRule, targets, invalid>>

\* apply() reads the conditions before it writes.
ReadConditions ==
  /\ applying # <<>> /\ ~Top.read
  /\ SetTop([Called EXCEPT !.read = TRUE, !.holds = holding[target] \cap UsedConditions, !.left = PropertyList])
  /\ overtaken' = overtaken \cup UNION {ToSet(applying[i].left) : i \in DOMAIN applying}
  /\ UNCHANGED <<holding, written, m_target, rulesTarget, connections, currentRule, targets, invalid>>

Next1(call) == [call EXCEPT !.left = Tail(@), !.rule = NoRule]
Applicable  == Found(Head(Top.left), Top.holds)
Searching   == applying # <<>> /\ Top.left # <<>> /\ Top.rule = NoRule

\* No rule matches, or the one that does is the current one.
KeepRule ==
  /\ Searching /\ Applicable \in {NoRule, currentRule[Head(Top.left)]}
  /\ SetTop(Next1(Top))
  /\ UNCHANGED <<holding, written, m_target, rulesTarget, connections, currentRule, targets, invalid, overtaken>>

\* applyRule() writes the value of the rule, which a script may have none of; ...
WriteValue ==
  /\ Searching /\ Applicable \notin {NoRule, currentRule[Head(Top.left)]}
  /\ LET r == Applicable IN
     /\ SetTop([Top EXCEPT !.rule = r])
     /\ \/ /\ written' = [written EXCEPT ![rulesTarget][r.property] = r.line]
           /\ invalid' = invalid \ {r.property}
        \/ r.script /\ invalid' = invalid \cup {r.property} /\ UNCHANGED written
  /\ UNCHANGED <<holding, m_target, rulesTarget, connections, currentRule, targets, overtaken>>

\* Whether the innermost call is the only one, and what it read and wrote is still so.
Undisturbed ==
  /\ Len(applying) = 1 /\ Top.holds = holding[target] \cap UsedConditions
  /\ written[rulesTarget][Top.rule.property] = Top.rule.line

\* ... and then sets currentRule.
SetCurrentRule ==
  /\ applying # <<>> /\ Top.rule # NoRule
  /\ currentRule' = [currentRule EXCEPT ![Top.rule.property] = Top.rule]
  /\ SetTop(Next1(Top))
  /\ overtaken' = IF Undisturbed THEN overtaken \ {Top.rule.property} ELSE overtaken
  /\ UNCHANGED <<holding, written, m_target, rulesTarget, connections, targets, invalid>>

ApplyReturns ==
  /\ applying # <<>> /\ Top.read /\ Top.left = <<>>
  /\ applying' = Front(applying)
  /\ UNCHANGED <<holding, written, m_target, rulesTarget, connections, currentRule, targets, invalid, overtaken>>

SelectorNext ==
  \/ \E t \in Targets, c \in Conditions : ChangeCondition(t, c)
  \/ \E t \in Targets \cup {NoTarget} : SetTarget(t)
  \/ ComponentComplete \/ ReadConditions \/ KeepRule \/ WriteValue \/ SetCurrentRule \/ ApplyReturns

SelectorSpec == SelectorInit /\ [][SelectorNext]_selectorVars
-----------------------------------------------------------------------------
\* The rule that the documentation asks for, of the source and not of the sorted
\* list: there is none where no rule matches.
IsRuleFor(r, p, holds) ==
  LET matching == {s \in ToSet(Rules) : s.property = p /\ s.conditions \subseteq holds}
  IN /\ r \in matching
     /\ \A s \in matching \ {r} :
          \/ Cardinality(s.conditions) < Cardinality(r.conditions)
          \/ Cardinality(s.conditions) = Cardinality(r.conditions) /\ s.line < r.line

Settled == rulesTarget # NoTarget /\ applying = <<>>

InEffect(t) ==
  \A p \in Declared \ (invalid \cup overtaken), r \in ToSet(RuleList) :
    IsRuleFor(r, p, holding[t]) => written[t][p] = r.line

\* When apply() has returned each property has the value of its most specific rule
\* for the conditions as they are now, the last one of those in the source, also if
\* writing another property has changed conditions.  Excepted are a target that is
\* set after the rules were prepared for another one, and a property that is yet to
\* be set, or being set, where a slot changes a condition: the call that comes last
\* sets it by conditions that are not so any more, or the current rule is not the one
\* whose value it has, until a call sets it that nothing disturbs.
RuleInEffect == Settled /\ target = rulesTarget => InEffect(target)
=============================================================================
