----------------------------- MODULE PhaseConfig -----------------------------
(***************************************************************************)
(* From configuration to a phase graph: PhaseGraph.from_config,            *)
(* from_discovery_config and _validate (workflow/graph.py), the settings a *)
(* session resolves (_session_config.py), and the checks an engine makes   *)
(* before it calls a role (adapters/local_invoker.py).  Pure operators; a  *)
(* phase is a record with the field names of PhaseDefinition, its target   *)
(* lists are sequences, as in the code, because their order is used.       *)
(***************************************************************************)
EXTENDS Integers, FiniteSetsExt, SequencesExt

CONSTANTS
  Names,      \* the strings that name phases, roles and packs
  NoPhase,    \* None, where a phase_id is optional
  BadTarget,  \* outcome of a routing that raises TransitionError
  NoRule,     \* outcome of resolve_chosen_next when no rule matches
  Unset       \* None or UNSET, where a setting is optional

ASSUME NamesAssumption == {NoPhase, BadTarget} \cap Names = {} /\ NoPhase # BadTarget

Ids(phases) == {phases[i].phase_id : i \in DOMAIN phases}

(***************************************************************************)
(* RoutingRuleConfig: exactly one of the two thresholds is set.            *)
(***************************************************************************)
IsRule(rule) == (rule.confidence_gte = Unset) # (rule.confidence_lt = Unset)

Matches(rule, score) ==
  \/ rule.confidence_gte # Unset /\ score >= rule.confidence_gte
  \/ rule.confidence_lt # Unset /\ score < rule.confidence_lt

Rule ==
  {rule \in [target : Names, confidence_gte : {Unset} \union (0..100),
             confidence_lt : {Unset} \union (0..100)] : IsRule(rule)}

PhaseDefinition ==
  [phase_id : Names, role_id : {Unset} \union Names, kind : {"executor", "review"},
   on_complete : Seq(Names), on_approve : Seq(Names),
   can_request_changes_from : Seq(Names),
   context_sources : {Unset} \union SUBSET Names,
   role_overrides : {Unset, "invalid"}, routing : Seq(Rule), human : BOOLEAN]

(***************************************************************************)
(* resolve_chosen_next: no rules, no choice; else the first that matches.  *)
(***************************************************************************)
ResolveChosenNext(score, rules) ==
  LET firing == {i \in DOMAIN rules : Matches(rules[i], score)}
  IN IF rules = <<>> THEN NoPhase
     ELSE IF firing = {} THEN NoRule ELSE rules[Min(firing)].target

ForwardTargets(phase) ==
  IF phase.kind = "executor" THEN ToSet(phase.on_complete)
  ELSE ToSet(phase.on_approve)

\* Mutant of Validated: rules may name any phase.
ValidatedButRouting(phases) ==
  /\ phases # <<>>
  /\ Cardinality(Ids(phases)) = Len(phases)
  /\ \A phase \in ToSet(phases) :
       /\ phase.role_id # Unset
       /\ IF phase.kind = "executor"
          THEN phase.on_approve = <<>> /\ phase.can_request_changes_from = <<>>
          ELSE phase.on_complete = <<>>
       /\ ToSet(phase.on_complete \o phase.on_approve
                  \o phase.can_request_changes_from) \subseteq Ids(phases)

\* Mutant of Validated: the targets of a review are taken on trust.
ValidatedForward(phases) ==
  /\ phases # <<>>
  /\ Cardinality(Ids(phases)) = Len(phases)
  /\ \A phase \in ToSet(phases) :
       /\ phase.role_id # Unset
       /\ IF phase.kind = "executor"
          THEN phase.on_approve = <<>> /\ phase.can_request_changes_from = <<>>
          ELSE phase.on_complete = <<>>
       /\ ForwardTargets(phase) \subseteq Ids(phases)
       /\ \/ ForwardTargets(phase) = {}
          \/ \A rule \in ToSet(phase.routing) : rule.target \in ForwardTargets(phase)

(***************************************************************************)
(* PhaseGraph._validate reports no error.  The rules of a phase that has   *)
(* no transition target are not looked at.                                 *)
(***************************************************************************)
Validated(phases) ==
  /\ phases # <<>>
  /\ Cardinality(Ids(phases)) = Len(phases)
  /\ \A phase \in ToSet(phases) :
       /\ phase.role_id # Unset
       /\ IF phase.kind = "executor"
          THEN phase.on_approve = <<>> /\ phase.can_request_changes_from = <<>>
          ELSE phase.on_complete = <<>>
       /\ ToSet(phase.on_complete \o phase.on_approve
                  \o phase.can_request_changes_from) \subseteq Ids(phases)
       /\ \/ ForwardTargets(phase) = {}
          \/ \A rule \in ToSet(phase.routing) : rule.target \in ForwardTargets(phase)

(***************************************************************************)
(* from_discovery_config: the role is named after the phase and the kind   *)
(* follows from the targets.  A required human approval is looked for      *)
(* among the phases LISTED before the first one without forward targets.   *)
(***************************************************************************)
Discovered(phase) ==
  [phase EXCEPT
     !.role_id = phase.phase_id,
     !.kind = IF phase.on_approve = <<>> /\ phase.can_request_changes_from = <<>>
              THEN "executor" ELSE "review",
     !.context_sources = Unset]

ApprovalListed(phases) ==
  \E i \in DOMAIN phases :
    /\ phases[i].human
    /\ \A j \in 1..i : phases[j].on_complete # <<>> \/ phases[j].on_approve # <<>>

(***************************************************************************)
(* The graph of a configuration; <<>> stands for ConfigurationError, which *)
(* _validate's own refusal of an empty list makes unambiguous.             *)
(***************************************************************************)
FromConfig(phases) == IF Validated(phases) THEN phases ELSE <<>>

FromDiscoveryConfig(config) ==
  LET phases == [i \in DOMAIN config.phases |-> Discovered(config.phases[i])]
  IN IF config.require_human_approval /\ ~ApprovalListed(phases) THEN <<>>
     ELSE FromConfig(phases)

(***************************************************************************)
(* _SessionConfig.resolve: a graph given to the session wins over the      *)
(* phases of the config.                                                   *)
(***************************************************************************)
SessionGraph(graph, config) ==
  IF graph # Unset THEN graph
  ELSE IF config.discovery THEN FromDiscoveryConfig(config)
  ELSE FromConfig(config.phases)

(***************************************************************************)
(* What an engine checks before it calls any role: every phase's role is   *)
(* bound to an implementation of its kind (_validate_bindings), and every  *)
(* pack a phase wants is a child of the pack given to the run              *)
(* (validate_against_pack).                                                *)
(***************************************************************************)
Bound(phases, bindings) ==
  \A phase \in ToSet(phases) :
    phase.role_id \in DOMAIN bindings /\ bindings[phase.role_id] = phase.kind

SourcesKnown(phases, children) ==
  \A phase \in {d \in ToSet(phases) : d.context_sources # Unset} :
    phase.context_sources \subseteq children

(***************************************************************************)
(* An accepted list of phases as the phase graph an engine runs on, whose  *)
(* constants and routing are those of module PhaseGraph.                   *)
(***************************************************************************)
Definition(phases, p) == CHOOSE d \in ToSet(phases) : d.phase_id = p

Graph(phases) == INSTANCE PhaseGraph WITH
  Phases <- Ids(phases),
  FirstPhase <- phases[1].phase_id,
  Executors <- {p \in Ids(phases) : Definition(phases, p).kind = "executor"},
  Human <- {p \in Ids(phases) : Definition(phases, p).human},
  OnComplete <- [p \in Ids(phases) |-> ToSet(Definition(phases, p).on_complete)],
  OnApprove <- [p \in Ids(phases) |-> ToSet(Definition(phases, p).on_approve)],
  CanRequestChangesFrom <-
    [p \in Ids(phases) |-> ToSet(Definition(phases, p).can_request_changes_from)]

===============================================================================
