---------------------------- MODULE LLMRolesProofs ----------------------------
(***************************************************************************)
(* What an accepted configuration gives the engine, and what the roles of  *)
(* concurrent sessions return, for every configuration, every text and     *)
(* every number of sessions.                                               *)
(***************************************************************************)
EXTENDS LLMRoles, FiniteSetTheorems, SequenceTheorems, PositionLemmas

-------------------------------------------------------------------------------
(***************************************************************************)
(* Lists of phases.                                                        *)
(***************************************************************************)
Accepts(phases) == phases \in Seq(PhaseDefinition) /\ Validated(phases)

LEMMA ToSetIs ==
  ASSUME NEW S, NEW seq \in Seq(S)
  PROVE  /\ ToSet(seq) \subseteq S
         /\ ToSet(seq) = {seq[i] : i \in 1..Len(seq)}
         /\ seq = <<>> <=> ToSet(seq) = {}
         /\ IsFiniteSet(ToSet(seq)) /\ Cardinality(ToSet(seq)) <= Len(seq)
<1>1. DOMAIN seq = 1..Len(seq) /\ Len(seq) \in Nat
  OBVIOUS
<1>2. ToSet(seq) = {seq[i] : i \in 1..Len(seq)}
  BY <1>1 DEF ToSet
<1>5. ToSet(seq) \subseteq S
  BY <1>1, <1>2
<1>6. ASSUME seq # <<>> PROVE ToSet(seq) # {}
  <2>1. 1 \in 1..Len(seq)
    BY <1>1, <1>6
  <2> QED
    BY <2>1, <1>2
<1>7. ASSUME seq = <<>> PROVE ToSet(seq) = {}
  BY <1>1, <1>2, <1>7
<1>3. [i \in 1..Len(seq) |-> seq[i]] \in Surjection(1..Len(seq), ToSet(seq))
  BY <1>2 DEF Surjection
<1>4. IsFiniteSet(1..Len(seq)) /\ Cardinality(1..Len(seq)) = Len(seq)
  <2>1. 1 \in Int /\ Len(seq) \in Int
    BY <1>1
  <2>2. /\ IsFiniteSet(1..Len(seq))
        /\ Cardinality(1..Len(seq)) = IF 1 > Len(seq) THEN 0 ELSE Len(seq) - 1 + 1
    BY <2>1, FS_Interval
  <2> QED
    BY <1>1, <2>2
<1>8. IsFiniteSet(ToSet(seq)) /\ Cardinality(ToSet(seq)) <= Cardinality(1..Len(seq))
  BY <1>3, <1>4, FS_Surjection
<1> QED
  BY <1>2, <1>4, <1>5, <1>6, <1>7, <1>8

LEMMA ToSetConcat ==
  ASSUME NEW S, NEW a \in Seq(S), NEW b \in Seq(S)
  PROVE  ToSet(a) \cup ToSet(b) \subseteq ToSet(a \o b)
<1>1. /\ DOMAIN a = 1..Len(a) /\ DOMAIN b = 1..Len(b)
      /\ DOMAIN (a \o b) = 1..(Len(a) + Len(b))
      /\ Len(a) \in Nat /\ Len(b) \in Nat
  OBVIOUS
<1>2. ASSUME NEW i \in 1..Len(a) PROVE a[i] \in ToSet(a \o b)
  <2>1. i \in 1..(Len(a) + Len(b)) /\ (a \o b)[i] = a[i]
    BY <1>1
  <2> QED
    BY <1>1, <2>1 DEF ToSet
<1>3. ASSUME NEW i \in 1..Len(b) PROVE b[i] \in ToSet(a \o b)
  <2>1. i + Len(a) \in 1..(Len(a) + Len(b)) /\ (a \o b)[i + Len(a)] = b[i]
    BY <1>1
  <2> QED
    BY <1>1, <2>1 DEF ToSet
<1> QED
  BY <1>1, <1>2, <1>3 DEF ToSet

\* The lists of a phase and what _validate has found of them.
LEMMA PhaseLists ==
  ASSUME NEW phases, Accepts(phases), NEW phase \in ToSet(phases)
  PROVE  /\ phase \in PhaseDefinition /\ phase.phase_id \in Ids(phases)
         /\ ToSet(phase.on_complete) \subseteq Ids(phases)
         /\ ToSet(phase.on_approve) \subseteq Ids(phases)
         /\ ToSet(phase.can_request_changes_from) \subseteq Ids(phases)
         /\ phase.kind = "executor" =>
              /\ ToSet(phase.on_approve) = {}
              /\ ToSet(phase.can_request_changes_from) = {}
         /\ phase.kind # "executor" => ToSet(phase.on_complete) = {}
<1>1. phases \in Seq(PhaseDefinition) /\ phase \in PhaseDefinition
  BY ToSetIs DEF Accepts
<1>2. /\ phase.on_complete \in Seq(Names) /\ phase.on_approve \in Seq(Names)
      /\ phase.can_request_changes_from \in Seq(Names)
  BY <1>1 DEF PhaseDefinition
<1>3. phase.phase_id \in Ids(phases)
  BY <1>1 DEF ToSet, Ids
<1>4. /\ ToSet(phase.on_complete \o phase.on_approve \o phase.can_request_changes_from)
           \subseteq Ids(phases)
      /\ phase.kind = "executor" =>
           phase.on_approve = <<>> /\ phase.can_request_changes_from = <<>>
      /\ phase.kind # "executor" => phase.on_complete = <<>>
  BY DEF Accepts, Validated
<1>5. /\ ToSet(phase.on_complete) \subseteq
           ToSet(phase.on_complete \o phase.on_approve \o phase.can_request_changes_from)
      /\ ToSet(phase.on_approve) \subseteq
           ToSet(phase.on_complete \o phase.on_approve \o phase.can_request_changes_from)
      /\ ToSet(phase.can_request_changes_from) \subseteq
           ToSet(phase.on_complete \o phase.on_approve \o phase.can_request_changes_from)
  <2>1. phase.on_complete \o phase.on_approve \in Seq(Names)
    BY <1>2
  <2>2. /\ ToSet(phase.on_complete) \cup ToSet(phase.on_approve)
             \subseteq ToSet(phase.on_complete \o phase.on_approve)
        /\ ToSet(phase.on_complete \o phase.on_approve)
             \cup ToSet(phase.can_request_changes_from)
             \subseteq ToSet(phase.on_complete \o phase.on_approve
                               \o phase.can_request_changes_from)
    BY <1>2, <2>1, ToSetConcat
  <2> QED
    BY <2>2
<1> QED
  BY <1>1, <1>2, <1>3, <1>4, <1>5, ToSetIs

\* A phase_id has one definition: as many ids as phases.
LEMMA DefinitionIs ==
  ASSUME NEW phases, Accepts(phases), NEW phase \in ToSet(phases)
  PROVE  Definition(phases, phase.phase_id) = phase
<1> DEFINE id == [i \in 1..Len(phases) |-> phases[i].phase_id]
<1>1. /\ phases \in Seq(PhaseDefinition) /\ Len(phases) \in Nat
      /\ DOMAIN phases = 1..Len(phases)
      /\ Cardinality(Ids(phases)) = Len(phases)
  BY DEF Accepts, Validated
<1>2. id \in Surjection(1..Len(phases), Ids(phases))
  BY <1>1 DEF Surjection, Ids
<1>3. IsFiniteSet(1..Len(phases)) /\ Cardinality(1..Len(phases)) = Len(phases)
  <2>1. 1 \in Int /\ Len(phases) \in Int
    BY <1>1
  <2>2. /\ IsFiniteSet(1..Len(phases))
        /\ Cardinality(1..Len(phases)) = IF 1 > Len(phases) THEN 0 ELSE Len(phases) - 1 + 1
    BY <2>1, FS_Interval
  <2> QED
    BY <1>1, <2>2
<1>4. id \in Injection(1..Len(phases), Ids(phases))
  BY <1>1, <1>2, <1>3, FS_SurjSameCardinalityImpliesInj
<1>5. \A i, j \in 1..Len(phases) :
        phases[i].phase_id = phases[j].phase_id => i = j
  BY <1>4 DEF Injection, IsInjective
<1>6. \A d \in ToSet(phases) : d.phase_id = phase.phase_id => d = phase
  BY <1>1, <1>5 DEF ToSet
<1> QED
  BY <1>6 DEF Definition

LEMMA DefinitionOf ==
  ASSUME NEW phases, Accepts(phases), NEW p \in Ids(phases)
  PROVE  Definition(phases, p) \in ToSet(phases) /\ Definition(phases, p).phase_id = p
<1>1. \E d \in ToSet(phases) : d.phase_id = p
  BY DEF Ids, ToSet
<1> QED
  BY <1>1 DEF Definition

LEMMA AcceptedGraph ==
  ASSUME NEW phases, Accepts(phases)
  PROVE  Graph(phases)!ValidGraph
<1>1. phases[1].phase_id \in Ids(phases)
  <2>1. phases \in Seq(PhaseDefinition) /\ phases # <<>>
    BY DEF Accepts, Validated
  <2>2. 1 \in DOMAIN phases
    BY <2>1
  <2> QED
    BY <2>2 DEF Ids
<1>2. Ids(phases) \subseteq Names
  <2>1. phases \in Seq(PhaseDefinition)
    BY DEF Accepts
  <2>2. ASSUME NEW i \in DOMAIN phases PROVE phases[i].phase_id \in Names
    <3>1. phases[i] \in PhaseDefinition
      BY <2>1
    <3> QED
      BY <3>1 DEF PhaseDefinition
  <2> QED
    BY <2>2 DEF Ids
<1>3. \A p \in Ids(phases) :
        LET d == Definition(phases, p) IN
        /\ ToSet(d.on_complete) \subseteq Ids(phases)
        /\ ToSet(d.on_approve) \subseteq Ids(phases)
        /\ ToSet(d.can_request_changes_from) \subseteq Ids(phases)
        /\ d.kind = "executor" =>
             ToSet(d.on_approve) = {} /\ ToSet(d.can_request_changes_from) = {}
        /\ d.kind # "executor" => ToSet(d.on_complete) = {}
  BY DefinitionOf, PhaseLists
<1> QED
  BY <1>1, <1>2, <1>3, NamesAssumption DEF Graph!ValidGraph

(***************************************************************************)
(* What the three ways to a graph leave: nothing, or an accepted list.     *)
(***************************************************************************)
LEMMA Rediscovered ==
  ASSUME NEW phases \in Seq(PhaseDefinition)
  PROVE  [i \in DOMAIN phases |-> Discovered(phases[i])] \in Seq(PhaseDefinition)
<1>1. DOMAIN phases = 1..Len(phases) /\ Len(phases) \in Nat
  OBVIOUS
<1>2. ASSUME NEW i \in 1..Len(phases) PROVE Discovered(phases[i]) \in PhaseDefinition
  <2>1. phases[i] \in PhaseDefinition
    BY <1>1
  <2> QED
    BY <2>1 DEF Discovered, PhaseDefinition
<1>3. [i \in 1..Len(phases) |-> Discovered(phases[i])] \in Seq(PhaseDefinition)
  BY <1>1, <1>2, IsASeq
<1> QED
  BY <1>1, <1>3

LEMMA SessionGraphIs ==
  ASSUME NEW given \in Setups
  PROVE  LET built == SessionGraph(given.graph, given)
         IN built = <<>> \/ Accepts(built)
<1>1. /\ given.phases \in Seq(PhaseDefinition)
      /\ given.graph = Unset \/ Accepts(given.graph)
  BY SetupsAssumption DEF Accepts
<1>2. ASSUME NEW phases \in Seq(PhaseDefinition)
      PROVE  FromConfig(phases) = <<>> \/ Accepts(FromConfig(phases))
  BY DEF FromConfig, Accepts
<1>3. FromDiscoveryConfig(given) = <<>> \/ Accepts(FromDiscoveryConfig(given))
  BY <1>1, <1>2, Rediscovered DEF FromDiscoveryConfig
<1>4. FromConfig(given.phases) = <<>> \/ Accepts(FromConfig(given.phases))
  BY <1>1, <1>2
<1> QED
  BY <1>1, <1>3, <1>4 DEF SessionGraph

-------------------------------------------------------------------------------
(***************************************************************************)
(* Configurations.  The invariant: the configuration is one of the given,  *)
(* and the graph is not built yet, refused, or accepted.                   *)
(***************************************************************************)
Built == setup \in Setups /\ (graph \in {Unset, <<>>} \/ Accepts(graph))

LEMMA InitBuilt == Init => Built
  BY DEF Init, Built

LEMMA StepBuilt == Built /\ [Next]_vars => Built'
<1> SUFFICES ASSUME Built, [Next]_vars PROVE Built'
  OBVIOUS
<1>1. CASE Configure
  <2>1. setup' = setup /\ graph' = SessionGraph(setup.graph, setup) /\ setup \in Setups
    BY <1>1 DEF Configure, Built
  <2> QED
    BY <2>1, SessionGraphIs DEF Built, Accepts
<1>2. ASSUME NEW c \in Sessions, Call(c) \/ Reply(c) \/ BackendRaises(c)
      PROVE  UNCHANGED <<setup, graph>>
  BY <1>2 DEF Call, Reply, ExecutorAnswers, ReviewerAnswers, FileAnswers, Unreadable,
     BackendRaises
<1>3. CASE UNCHANGED <<setup, graph>>
  BY <1>3 DEF Built, Accepts
<1> QED
  BY <1>1, <1>2, <1>3 DEF Next, vars

(***************************************************************************)
(* Whatever the configuration, given as a graph, as phases or as a         *)
(* discovery config: what the session runs on satisfies all that the       *)
(* engine's model assumes of a graph (PhaseGraph._validate).               *)
(***************************************************************************)
THEOREM AcceptedCorrect == Spec => []AcceptedIsGraph
<1>1. Built => AcceptedIsGraph
  BY AcceptedGraph DEF Built, AcceptedIsGraph
<1> QED
  BY InitBuilt, StepBuilt, <1>1, PTL DEF Spec

-------------------------------------------------------------------------------
(***************************************************************************)
(* Role calls.  The records of the model are updated many fields at a      *)
(* time; a call is any function with the fields of one.                    *)
(***************************************************************************)
CallFields == {"at", "phase", "attempt", "total", "output",
               "wanted", "files", "result", "own", "missed"}

IsCall(k) == k = [f \in CallFields |-> k[f]]

RoleResult(phase, answer, usage) ==
  IF phase.kind = "executor" THEN ExecutionResult(phase, answer, usage)
  ELSE ReviewResult(phase, answer, usage)

\* n differs from k in at, attempt, total and result at most.
SameBut(k, n) ==
  /\ n.phase = k.phase /\ n.output = k.output /\ n.wanted = k.wanted
  /\ n.files = k.files /\ n.own = k.own /\ n.missed = k.missed

LEMMA NextFileFacts ==
  ASSUME NEW k, IsCall(k), NEW usage, NEW n, n = NextFile(k, usage),
         NEW result, result = ExecutionResult(k.phase, k.output, usage)
  PROVE  /\ IsCall(n) /\ SameBut(k, n)
         /\ \/ /\ k.wanted # {} /\ n.at = "backfilling" /\ n.attempt = 0
               /\ n.total = 0 /\ n.result = k.result
            \/ /\ n.attempt = k.attempt /\ n.total = k.total
               /\ \/ n.at = "ConfigurationError" /\ n.result = k.result
                  \/ n.at = "returned" /\ n.result = result /\ result.chosen_next # NoRule
<1>1. CASE k.wanted # {}
  BY <1>1 DEF NextFile, IsCall, CallFields, SameBut
<1>2. CASE k.wanted = {}
  BY <1>2 DEF NextFile, Returned, IsCall, CallFields, SameBut
<1> QED
  BY <1>1, <1>2

\* The larger retry limit.
LEMMA LargerLimit ==
  LET larger == Max({MaxRetries, BackfillRetries})
  IN larger \in Nat /\ MaxRetries <= larger /\ BackfillRetries <= larger
<1>1. MaxRetries \in Nat /\ BackfillRetries \in Nat
  BY RolesAssumption
<1>2. \E x \in {MaxRetries, BackfillRetries} :
        \A y \in {MaxRetries, BackfillRetries} : x >= y
  BY <1>1
<1> QED
  BY <1>1, <1>2 DEF Max

(***************************************************************************)
(* The shape of a call, and where a step takes the one it is about: k      *)
(* becomes n while the usage on the role object goes from u to v.  A role  *)
(* object is paid up to k when its usage is what k's replies cost.         *)
(***************************************************************************)
Shaped(k) ==
  /\ IsCall(k)
  /\ k.at \in {"idle", "asking", "backfilling"} \union Ended
  /\ k.attempt \in 0..Max({MaxRetries, BackfillRetries})
  /\ k.total \in Nat /\ k.own \in Nat
  /\ k.at = "backfilling" => k.wanted # {} /\ k.phase.kind = "executor"

Shapes ==
  /\ call = [c \in Sessions |-> call[c]]
  /\ \A c \in Sessions : Shaped(call[c])
  /\ last_usage \in [{RoleObject[c] : c \in Sessions} -> Nat]

Paid(k, u) == k.at = "backfilling" => u = k.own

Readable(n) ==
  n.phase.kind = "executor" \/ n.output.decision \in {"APPROVE", "REQUEST_CHANGES"}

Goes(k, n, u, v) ==
  /\ k.at \in {"asking", "backfilling"} /\ n.phase = k.phase
  /\ \/ n.at \in {"LLMError", "raised", "ConfigurationError"} /\ n.result = k.result
     \/ n.at = k.at /\ n.own = k.own /\ n.result = k.result /\ v = u
     \/ n.at = "backfilling" /\ n.result = k.result /\ (Paid(k, u) => n.own = v)
     \/ /\ n.at = "returned" /\ n.result = RoleResult(n.phase, n.output, v)
        /\ n.result.chosen_next # NoRule /\ Readable(n) /\ (Paid(k, u) => n.own = v)

Begins(k, n, u, v) ==
  /\ k.at = "idle" /\ n.at \in {"asking", "ConfigurationError"} /\ v = u
  /\ n.result = Unset /\ graph \notin {Unset, <<>>} /\ n.phase \in ToSet(graph)

\* The attempts of a role call, and whether an answer was thrown away.
Spends(k, n) ==
  /\ ~k.missed => ~n.missed
  /\ n.at = "LLMError" =>
       k.at = "asking" /\ n.attempt = k.attempt /\ ~(k.attempt < MaxRetries)
  /\ n.at = "asking" => n.attempt <= MaxRetries

(***************************************************************************)
(* The files of a call: those it has come from places of the handoff, in   *)
(* order, and those still wanted are named after them.                     *)
(***************************************************************************)
Named(k) == {i \in DOMAIN k.output.key_artifacts : k.output.key_artifacts[i].md}

Filled(k, place) ==
  /\ k.output.artifacts = <<>>
  /\ \E S : k.files \in Seq(S)
  /\ place \in [DOMAIN k.files -> Named(k)]
  /\ \A i, j \in DOMAIN k.files : i < j => place[i] < place[j]
  /\ \A i \in DOMAIN k.files :
       /\ k.files[i].ref = k.output.key_artifacts[place[i]]
       /\ k.files[i].content \notin {"empty", "json"}

Remaining(k, place) ==
  /\ k.wanted \subseteq Named(k) /\ Named(k) \subseteq Nat
  /\ \A i \in DOMAIN k.files, w \in k.wanted : place[i] < w

Filling(k) == \E place : Filled(k, place) /\ Remaining(k, place)

Complete(k) == k.files = k.output.artifacts \/ \E place : Filled(k, place)

Backed(k) ==
  k.phase.kind = "executor" =>
    /\ k.at = "backfilling" => Filling(k)
    /\ k.at = "returned" => Complete(k)

\* A step of one session, seen from its call and its role object.
Steps(c, n, v) ==
  /\ call' = [call EXCEPT ![c] = n]
  /\ last_usage' = [last_usage EXCEPT ![RoleObject[c]] = v]
  /\ Shaped(n) /\ v \in Nat /\ Spends(call[c], n)
  /\ Backed(call[c]) => Backed(n)
  /\ \/ Goes(call[c], n, last_usage[RoleObject[c]], v)
     \/ Begins(call[c], n, last_usage[RoleObject[c]], v)

\* The updates of a call that the actions make before it goes on or returns.
LEMMA SkipFacts ==
  ASSUME NEW k, IsCall(k), NEW m, m = Tried(k)
  PROVE  /\ IsCall(m) /\ m.at = k.at /\ m.phase = k.phase /\ m.result = k.result
         /\ m.attempt = k.attempt /\ m.output = k.output
         /\ m.total = k.total /\ m.own = k.own /\ m.missed = k.missed
         /\ m.files = k.files /\ m.wanted = k.wanted \ {Min(k.wanted)}
  BY DEF IsCall, CallFields, Tried

LEMMA FileFacts ==
  ASSUME NEW k, IsCall(k), NEW spent, NEW file, NEW m,
         m = [k EXCEPT !.own = @ + spent, !.files = Append(@, file)]
  PROVE  /\ IsCall(m) /\ m.at = k.at /\ m.phase = k.phase /\ m.result = k.result
         /\ m.attempt = k.attempt /\ m.output = k.output
         /\ m.total = k.total /\ m.own = k.own + spent
  BY DEF IsCall, CallFields

LEMMA RetryFacts ==
  ASSUME NEW k, IsCall(k), NEW tokens, NEW missed, NEW m,
         m = [k EXCEPT !.total = @ + tokens, !.missed = missed]
  PROVE  /\ IsCall(m) /\ m.at = k.at /\ m.phase = k.phase /\ m.result = k.result
         /\ m.attempt = k.attempt /\ m.output = k.output
         /\ m.total = k.total + tokens /\ m.own = k.own
         /\ m.wanted = k.wanted
  BY DEF IsCall, CallFields

LEMMA AttemptFacts ==
  ASSUME NEW k, IsCall(k), NEW m, m = [k EXCEPT !.attempt = @ + 1]
  PROVE  /\ IsCall(m) /\ SameBut(k, m) /\ m.at = k.at /\ m.result = k.result
         /\ m.attempt = k.attempt + 1 /\ m.total = k.total
  BY DEF IsCall, CallFields, SameBut

LEMMA AtFacts ==
  ASSUME NEW k, IsCall(k), NEW at, NEW m, m = [k EXCEPT !.at = at]
  PROVE  /\ IsCall(m) /\ SameBut(k, m) /\ m.at = at /\ m.result = k.result
         /\ m.attempt = k.attempt /\ m.total = k.total
  BY DEF IsCall, CallFields, SameBut

\* A call with the same files and the same files to come.
LEMMA SameFiles ==
  ASSUME NEW k, NEW n, n.phase = k.phase, n.output = k.output, n.wanted = k.wanted,
         n.files = k.files
  PROVE  /\ Filling(k) => Filling(n)
         /\ Complete(k) => Complete(n)
         /\ Backed(k) /\ n.at \in {k.at, "LLMError", "raised"} => Backed(n)
<1>1. \A place : Filled(k, place) => Filled(n, place)
  BY DEF Filled, Named
<1>2. \A place : Remaining(k, place) => Remaining(n, place)
  BY DEF Remaining, Named
<1>3. Filling(k) => Filling(n)
  BY <1>1, <1>2 DEF Filling
<1>4. Complete(k) => Complete(n)
  BY <1>1 DEF Complete
<1> QED
  BY <1>3, <1>4 DEF Backed

\* The file asked for is given up.
LEMMA TriedFills ==
  ASSUME NEW k, IsCall(k), NEW m, m = Tried(k)
  PROVE  Filling(k) => Filling(m)
<1>1. m.output = k.output /\ m.files = k.files /\ m.wanted \subseteq k.wanted
  BY SkipFacts
<1>2. \A place : Filled(k, place) => Filled(m, place)
  BY <1>1 DEF Filled, Named
<1>3. \A place : Remaining(k, place) => Remaining(m, place)
  BY <1>1 DEF Remaining, Named
<1> QED
  BY <1>2, <1>3 DEF Filling

\* The first of the files that are wanted.
LEMMA FirstWanted ==
  ASSUME NEW W \in SUBSET Nat, W # {}
  PROVE  Min(W) \in W /\ \A w \in W : Min(W) <= w
<1>1. PICK x \in W : \A w \in W : x <= w
  BY NatLeast
<1> QED
  BY <1>1 DEF Min

\* Of two positions up to a last one, the earlier is not the last.
LEMMA BeforeLast ==
  ASSUME NEW n \in Nat, NEW i \in 1..n+1, NEW j \in 1..n+1, i < j
  PROVE  i \in 1..n /\ (j = n+1 \/ j \in 1..n)
OBVIOUS

\* The file asked for is obtained.
LEMMA ObtainedFills ==
  ASSUME NEW k, IsCall(k), k.wanted # {}, Filling(k), NEW content,
         content \notin {"empty", "json"}, NEW m, IsCall(m), m.output = k.output,
         m.wanted = k.wanted \ {Min(k.wanted)},
         m.files = Append(k.files,
           [ref |-> k.output.key_artifacts[Min(k.wanted)], content |-> content])
  PROVE  Filling(m)
<1>1. PICK place : Filled(k, place) /\ Remaining(k, place)
  BY DEF Filling
<1>2. PICK x : x = Min(k.wanted)
  OBVIOUS
<1>3. PICK file : file = [ref |-> k.output.key_artifacts[x], content |-> content]
  OBVIOUS
<1>4. k.wanted \in SUBSET Nat /\ Named(k) \subseteq Nat /\ k.wanted \subseteq Named(k)
  BY <1>1 DEF Remaining
<1>5. x \in k.wanted /\ \A w \in k.wanted : x <= w
  BY <1>2, <1>4, FirstWanted
<1>6. PICK S : k.files \in Seq(S)
  BY <1>1 DEF Filled
<1>7. PICK T : T = S \union {file}
  OBVIOUS
<1>8. k.files \in Seq(T) /\ file \in T
  BY <1>6, <1>7
<1>9. PICK n : n = Len(k.files)
  OBVIOUS
<1>10. n \in Nat /\ DOMAIN k.files = 1..n
  BY <1>8, <1>9
<1>11. /\ m.files \in Seq(T) /\ DOMAIN m.files = 1..n+1
       /\ \A i \in 1..n : m.files[i] = k.files[i]
       /\ m.files[n+1] = file
  BY <1>2, <1>3, <1>8, <1>9, <1>10
<1>12. Named(m) = Named(k)
  BY DEF Named
<1>13. PICK onto : onto = [i \in 1..n+1 |-> IF i = n+1 THEN x ELSE place[i]]
  OBVIOUS
<1>14. /\ onto[n+1] = x
       /\ \A i \in 1..n : onto[i] = place[i] /\ place[i] \in Named(k) /\ place[i] < x
  <2>1. place \in [1..n -> Named(k)] /\ \A i \in 1..n : place[i] < x
    BY <1>1, <1>5, <1>10 DEF Filled, Remaining
  <2>2. onto[n+1] = x
    BY <1>10, <1>13
  <2>3. ASSUME NEW i \in 1..n PROVE onto[i] = place[i]
    <3>1. i \in 1..n+1 /\ i # n+1
      BY <1>10
    <3> QED
      BY <1>13, <3>1
  <2> QED
    BY <2>1, <2>2, <2>3
<1>15. Filled(m, onto)
  <2>1. onto \in [DOMAIN m.files -> Named(m)]
    <3>1. ASSUME NEW i \in 1..n+1
          PROVE  (IF i = n+1 THEN x ELSE place[i]) \in Named(m)
      <4>1. i = n+1 \/ i \in 1..n
        BY <1>10
      <4> QED
        BY <1>4, <1>5, <1>12, <1>14, <4>1
    <3> QED
      BY <1>11, <1>13, <3>1
  <2>2. ASSUME NEW i \in 1..n+1, NEW j \in 1..n+1, i < j PROVE onto[i] < onto[j]
    <3>1. i \in 1..n /\ (j = n+1 \/ j \in 1..n)
      BY <1>10, <2>2, BeforeLast
    <3> QED
      BY <1>1, <1>10, <1>14, <2>2, <3>1 DEF Filled
  <2>3. ASSUME NEW i \in 1..n+1
        PROVE  /\ m.files[i].ref = m.output.key_artifacts[onto[i]]
               /\ m.files[i].content \notin {"empty", "json"}
    <3>1. CASE i = n+1
      BY <1>3, <1>11, <1>14, <3>1
    <3>2. CASE i # n+1
      <4>1. i \in 1..n
        BY <1>10, <3>2
      <4> QED
        BY <1>1, <1>10, <1>11, <1>14, <4>1 DEF Filled
    <3> QED
      BY <3>1, <3>2
  <2> QED
    BY <1>1, <1>11, <2>1, <2>2, <2>3 DEF Filled
<1>16. Remaining(m, onto)
  <2>1. m.wanted \subseteq k.wanted /\ x \notin m.wanted
    BY <1>2
  <2>2. ASSUME NEW i \in 1..n+1, NEW w \in m.wanted PROVE onto[i] < w
    <3>1. w \in k.wanted /\ w # x /\ x <= w /\ x \in Nat /\ w \in Nat
      BY <1>4, <1>5, <2>1
    <3>2. x < w
      BY <3>1
    <3>3. i = n+1 \/ i \in 1..n
      BY <1>10
    <3>4. CASE i = n+1
      BY <1>14, <3>2, <3>4
    <3>5. CASE i \in 1..n
      BY <1>1, <1>10, <1>14, <3>1, <3>5 DEF Remaining
    <3> QED
      BY <3>3, <3>4, <3>5
  <2> QED
    BY <1>4, <1>11, <1>12, <2>1, <2>2 DEF Remaining
<1> QED
  BY <1>15, <1>16 DEF Filling

\* An executor that goes on to the next file has named it, one that returns has
\* all it will have.
LEMMA NextFileBacks ==
  ASSUME NEW m, IsCall(m), NEW v, NEW n, n = NextFile(m, v),
         Filling(m) \/ (m.files = m.output.artifacts /\ m.wanted = {})
  PROVE  Backed(n)
<1>1. PICK result : result = ExecutionResult(m.phase, m.output, v)
  OBVIOUS
<1>2. /\ SameBut(m, n)
      /\ n.at = "backfilling" => m.wanted # {}
  BY <1>1, NextFileFacts
<1>3. Filling(m) => Complete(m)
  BY DEF Filling, Complete
<1>4. Complete(m)
  BY <1>3 DEF Complete
<1> QED
  BY <1>2, <1>4, SameFiles DEF Backed, SameBut

\* What an executor's call does when it goes on to the next file.
LEMMA NextFileGoes ==
  ASSUME NEW k, Shaped(k), k.at \in {"asking", "backfilling"},
         NEW m, IsCall(m), m.phase = k.phase, m.result = k.result,
         m.phase.kind = "executor", m.attempt = k.attempt,
         m.total \in Nat, m.own \in Nat,
         NEW u, NEW v, Paid(k, u) => m.own = v,
         NEW n, n = NextFile(m, v)
  PROVE  /\ Shaped(n) /\ Goes(k, n, u, v)
         /\ n.at \notin {"LLMError", "asking"} /\ n.missed = m.missed
<1>1. PICK result : result = ExecutionResult(m.phase, m.output, v)
  OBVIOUS
<1>2. /\ IsCall(n) /\ SameBut(m, n)
      /\ \/ /\ m.wanted # {} /\ n.at = "backfilling" /\ n.attempt = 0
            /\ n.total = 0 /\ n.result = m.result
         \/ /\ n.attempt = m.attempt /\ n.total = m.total
            /\ \/ n.at = "ConfigurationError" /\ n.result = m.result
               \/ n.at = "returned" /\ n.result = result /\ result.chosen_next # NoRule
  BY <1>1, NextFileFacts
<1>3. Shaped(n)
  BY <1>2, LargerLimit DEF Shaped, SameBut, Ended
<1>4. n.phase = m.phase /\ n.output = m.output /\ n.own = m.own
  BY <1>2 DEF SameBut
<1>5. result = RoleResult(n.phase, n.output, v)
  BY <1>1, <1>4 DEF RoleResult
<1>6. Readable(n)
  BY <1>4 DEF Readable
<1>7. n.at \notin {"LLMError", "asking"} /\ n.missed = m.missed
  BY <1>2 DEF SameBut
<1> QED
  BY <1>2, <1>3, <1>4, <1>5, <1>6, <1>7 DEF Goes

\* What Failed does to a call, whose role object keeps its usage.
GivesUp(k, m, n) ==
  /\ n.missed = m.missed /\ n.at # "asking"
  /\ n.at = "LLMError" => k.at = "asking" /\ n.attempt = k.attempt

LEMMA FailedGoes ==
  ASSUME NEW c, NEW k, Shaped(k), k.at \in {"asking", "backfilling"},
         NEW m, IsCall(m), m.at = k.at, m.phase = k.phase, m.result = k.result,
         m.attempt = k.attempt, m.total \in Nat, m.own = k.own,
         NEW n, n = Failed(c, m), NEW u, u = last_usage[RoleObject[c]]
  PROVE  Shaped(n) /\ Goes(k, n, u, u) /\ GivesUp(k, m, n) /\ (Backed(m) => Backed(n))
<1>1. m.own \in Nat /\ k.at = "backfilling" => m.phase.kind = "executor"
  BY DEF Shaped
<1>2. CASE m.at = "asking"
  <2>1. n = [m EXCEPT !.at = "LLMError"]
    BY <1>2 DEF Failed
  <2>2. /\ IsCall(n) /\ SameBut(m, n) /\ n.at = "LLMError" /\ n.result = m.result
        /\ n.attempt = m.attempt /\ n.total = m.total
    BY <2>1, AtFacts
  <2>3. n.own \in Nat /\ n.phase = k.phase /\ n.missed = m.missed
    BY <2>2 DEF SameBut, Shaped
  <2>4. Backed(n)
    BY <2>2 DEF Backed
  <2> QED
    BY <1>2, <2>2, <2>3, <2>4 DEF Shaped, Goes, Ended, GivesUp
<1>3. CASE m.at # "asking"
  <2>1. PICK rest : rest = Tried(m)
    OBVIOUS
  <2>2. n = NextFile(rest, u)
    BY <1>3, <2>1 DEF Failed
  <2>3. /\ IsCall(rest) /\ rest.at = m.at /\ rest.phase = m.phase /\ rest.result = m.result
        /\ rest.attempt = m.attempt /\ rest.total = m.total /\ rest.own = m.own
        /\ rest.missed = m.missed
    BY <2>1, SkipFacts
  <2>4. k.at = "backfilling"
    BY <1>3
  <2>5. rest.own \in Nat /\ rest.phase.kind = "executor" /\ rest.total \in Nat
    BY <2>3, <2>4 DEF Shaped
  <2>6. Paid(k, u) => rest.own = u
    BY <2>3, <2>4 DEF Paid
  <2>7. /\ Shaped(n) /\ Goes(k, n, u, u)
        /\ n.at \notin {"LLMError", "asking"} /\ n.missed = rest.missed
    BY <2>2, <2>3, <2>5, <2>6, NextFileGoes
  <2>8. Backed(m) => Backed(n)
    <3>1. Backed(m) => Filling(m)
      BY <2>3, <2>4, <2>5 DEF Backed
    <3> QED
      BY <2>1, <2>2, <2>3, <3>1, TriedFills, NextFileBacks
  <2> QED
    BY <2>3, <2>7, <2>8 DEF GivesUp
<1> QED
  BY <1>2, <1>3

LEMMA ExecutorAnswersSteps ==
  ASSUME Shapes, NEW c \in Sessions, ExecutorAnswers(c)
  PROVE  \E n, v : Steps(c, n, v)
<1>1. PICK text \in ExecutorTexts, tokens \in Tokens :
        LET read == ParseResponse(text)
            usage == call[c].total + tokens
            k == [call[c] EXCEPT !.output = read[1].answer,
                    !.total = usage, !.own = usage,
                    !.files = read[1].answer.artifacts,
                    !.wanted = MissingFiles(read[1].answer)]
        IN /\ read # <<>>
           /\ last_usage' = [last_usage EXCEPT ![RoleObject[c]] = usage]
           /\ call' = [call EXCEPT ![c] = NextFile(k, usage)]
  BY DEF ExecutorAnswers
<1>2. PICK answer : answer = ParseResponse(text)[1].answer
  OBVIOUS
<1>3. PICK usage : usage = call[c].total + tokens
  OBVIOUS
<1>4. PICK m : m = [call[c] EXCEPT !.output = answer, !.total = usage, !.own = usage,
                      !.files = answer.artifacts, !.wanted = MissingFiles(answer)]
  OBVIOUS
<1>5. PICK n : n = NextFile(m, usage)
  OBVIOUS
<1>6. /\ last_usage' = [last_usage EXCEPT ![RoleObject[c]] = usage]
      /\ call' = [call EXCEPT ![c] = n]
  BY <1>1, <1>2, <1>3, <1>4, <1>5
<1>7. /\ Shaped(call[c]) /\ IsCall(call[c]) /\ call[c].at = "asking"
      /\ call[c].phase.kind = "executor" /\ call[c].total \in Nat
  BY DEF Shapes, Shaped, ExecutorAnswers
<1>8. tokens \in Nat /\ usage \in Nat
  BY <1>3, <1>7, RolesAssumption
<1>9. /\ IsCall(m) /\ m.at = call[c].at /\ m.phase = call[c].phase
      /\ m.result = call[c].result /\ m.attempt = call[c].attempt
      /\ m.total = usage /\ m.own = usage /\ m.missed = call[c].missed
  BY <1>4, <1>7 DEF IsCall, CallFields
<1>10. /\ Shaped(n) /\ Goes(call[c], n, last_usage[RoleObject[c]], usage)
       /\ n.at \notin {"LLMError", "asking"} /\ n.missed = m.missed
  BY <1>5, <1>7, <1>8, <1>9, NextFileGoes
<1>11. Spends(call[c], n)
  BY <1>9, <1>10 DEF Spends
<1>12. Backed(n)
  <2>1. m.files = answer.artifacts /\ m.wanted = MissingFiles(answer) /\ m.output = answer
    BY <1>4, <1>7 DEF IsCall, CallFields
  <2>2. DOMAIN answer.key_artifacts = 1..Len(answer.key_artifacts)
    BY <1>1, <1>2, AnswersAssumption
  <2>3. CASE answer.artifacts = <<>>
    <3>1. Named(m) \subseteq Nat /\ m.wanted \subseteq Named(m)
      BY <2>1, <2>2 DEF Named, MissingFiles
    <3>2. m.files = <<>> /\ DOMAIN m.files = {} /\ m.files \in Seq({})
      BY <2>1, <2>3
    <3>3. Filled(m, [i \in {} |-> 0])
      BY <2>1, <2>3, <3>2 DEF Filled
    <3>4. Remaining(m, [i \in {} |-> 0])
      BY <3>1, <3>2 DEF Remaining
    <3>5. Filling(m)
      BY <3>3, <3>4 DEF Filling
    <3> QED
      BY <1>5, <1>9, <3>5, NextFileBacks
  <2>4. CASE answer.artifacts # <<>>
    BY <1>5, <1>9, <2>1, <2>4, NextFileBacks DEF MissingFiles
  <2> QED
    BY <2>3, <2>4
<1> QED
  BY <1>6, <1>8, <1>10, <1>11, <1>12 DEF Steps

LEMMA ReviewerAnswersSteps ==
  ASSUME Shapes, NEW c \in Sessions, ReviewerAnswers(c)
  PROVE  \E n, v : Steps(c, n, v)
<1>1. PICK text \in ReviewerTexts, tokens \in Tokens :
        LET read == ParseResponse(text)
            usage == call[c].total + tokens
            k == [call[c] EXCEPT !.output = read[1].answer, !.total = usage, !.own = usage]
        IN /\ read # <<>>
           /\ last_usage' = [last_usage EXCEPT ![RoleObject[c]] = usage]
           /\ call' = [call EXCEPT ![c] =
                Returned(k, ReviewResult(k.phase, read[1].answer, usage))]
  BY DEF ReviewerAnswers
<1>2. PICK answer : answer = ParseResponse(text)[1].answer
  OBVIOUS
<1>3. PICK usage : usage = call[c].total + tokens
  OBVIOUS
<1>4. PICK m : m = [call[c] EXCEPT !.output = answer, !.total = usage, !.own = usage]
  OBVIOUS
<1>5. PICK result : result = ReviewResult(m.phase, answer, usage)
  OBVIOUS
<1>6. PICK n : n = Returned(m, result)
  OBVIOUS
<1>7. /\ last_usage' = [last_usage EXCEPT ![RoleObject[c]] = usage]
      /\ call' = [call EXCEPT ![c] = n]
      /\ ParseResponse(text) # <<>>
  BY <1>1, <1>2, <1>3, <1>4, <1>5, <1>6
<1>8. answer.decision \in {"APPROVE", "REQUEST_CHANGES"}
  BY <1>2, <1>7, AnswersAssumption
<1>9. /\ Shaped(call[c]) /\ IsCall(call[c]) /\ call[c].at = "asking"
      /\ call[c].phase.kind = "review" /\ call[c].total \in Nat
  BY DEF Shapes, Shaped, ReviewerAnswers
<1>10. tokens \in Nat /\ usage \in Nat
  BY <1>3, <1>9, RolesAssumption
<1>11. /\ IsCall(m) /\ m.at = call[c].at /\ m.phase = call[c].phase
       /\ m.result = call[c].result /\ m.attempt = call[c].attempt
       /\ m.output = answer /\ m.total = usage /\ m.own = usage
       /\ m.missed = call[c].missed
  BY <1>4, <1>9 DEF IsCall, CallFields
<1>12. /\ IsCall(n) /\ SameBut(m, n) /\ n.attempt = m.attempt /\ n.total = m.total
       /\ \/ n.at = "ConfigurationError" /\ n.result = m.result
          \/ n.at = "returned" /\ n.result = result /\ result.chosen_next # NoRule
  BY <1>6, <1>11 DEF Returned, IsCall, CallFields, SameBut
<1>13. n.phase = call[c].phase /\ n.output = answer /\ n.own = usage /\ n.total = usage
  BY <1>11, <1>12 DEF SameBut
<1>14. result = RoleResult(n.phase, n.output, usage) /\ Readable(n)
  BY <1>5, <1>8, <1>9, <1>11, <1>13 DEF RoleResult, Readable
<1>15. Shaped(n)
  BY <1>9, <1>10, <1>11, <1>12, <1>13 DEF Shaped, Ended
<1>16. Goes(call[c], n, last_usage[RoleObject[c]], usage)
  BY <1>9, <1>11, <1>12, <1>13, <1>14 DEF Goes
<1>17. Spends(call[c], n)
  BY <1>11, <1>12 DEF Spends, SameBut
<1>18. Backed(n)
  BY <1>9, <1>13 DEF Backed
<1> QED
  BY <1>7, <1>10, <1>15, <1>16, <1>17, <1>18 DEF Steps

LEMMA FileAnswersSteps ==
  ASSUME Shapes, NEW c \in Sessions, FileAnswers(c)
  PROVE  \E n, v : Steps(c, n, v)
<1>1. PICK text \in FileTexts, tokens \in Tokens :
        LET read == ParseResponse(text)
            spent == call[c].total + tokens
            usage == Merged(last_usage[RoleObject[c]], spent)
            asked == call[c].output.key_artifacts[Min(call[c].wanted)]
            rest == Tried(call[c])
        IN IF Usable(read[1].answer)
           THEN /\ last_usage' = [last_usage EXCEPT ![RoleObject[c]] = usage]
                /\ call' = [call EXCEPT ![c] = NextFile(
                     [rest EXCEPT !.own = @ + spent,
                        !.files = Append(@, [ref |-> asked, content |-> read[1].answer])], usage)]
           ELSE /\ call' = [call EXCEPT ![c] = NextFile(rest, last_usage[RoleObject[c]])]
                /\ UNCHANGED last_usage
  BY DEF FileAnswers
<1>2. PICK k : k = call[c]
  OBVIOUS
<1>3. PICK u : u = last_usage[RoleObject[c]]
  OBVIOUS
<1>4. PICK spent : spent = k.total + tokens
  OBVIOUS
<1>5. PICK rest : rest = Tried(k)
  OBVIOUS
<1>6. /\ Shaped(k) /\ IsCall(k) /\ k.at = "backfilling" /\ k.phase.kind = "executor"
      /\ k.total \in Nat /\ k.own \in Nat
  BY <1>2 DEF Shapes, Shaped, FileAnswers
<1>7. u \in Nat /\ tokens \in Nat /\ spent \in Nat
  BY <1>3, <1>4, <1>6, RolesAssumption DEF Shapes
<1>8. /\ IsCall(rest) /\ rest.at = k.at /\ rest.phase = k.phase /\ rest.result = k.result
      /\ rest.attempt = k.attempt /\ rest.total = k.total /\ rest.own = k.own
      /\ rest.missed = k.missed
  BY <1>5, <1>6, SkipFacts
<1>9. CASE Usable(ParseResponse(text)[1].answer)
  <2>1. PICK file : file = [ref |-> k.output.key_artifacts[Min(k.wanted)],
                            content |-> ParseResponse(text)[1].answer]
    OBVIOUS
  <2>2. PICK m : m = [rest EXCEPT !.own = @ + spent, !.files = Append(@, file)]
    OBVIOUS
  <2>3. PICK n : n = NextFile(m, u + spent)
    OBVIOUS
  <2>4. /\ last_usage' = [last_usage EXCEPT ![RoleObject[c]] = u + spent]
        /\ call' = [call EXCEPT ![c] = n]
    BY <1>1, <1>2, <1>3, <1>4, <1>5, <1>9, <2>1, <2>2, <2>3 DEF Merged
  <2>5. /\ IsCall(m) /\ m.at = rest.at /\ m.phase = rest.phase /\ m.result = rest.result
        /\ m.attempt = rest.attempt /\ m.total = rest.total /\ m.own = rest.own + spent
        /\ m.missed = rest.missed
    BY <1>8, <2>2 DEF IsCall, CallFields
  <2>6. Paid(k, u) => m.own = u + spent
    BY <1>6, <1>8, <2>5 DEF Paid
  <2>7. m.own \in Nat /\ m.total \in Nat /\ u + spent \in Nat
    BY <1>6, <1>7, <1>8, <2>5
  <2>8. /\ Shaped(n) /\ Goes(k, n, u, u + spent)
        /\ n.at \notin {"LLMError", "asking"} /\ n.missed = m.missed
    BY <1>6, <1>8, <2>3, <2>5, <2>6, <2>7, NextFileGoes
  <2>9. Spends(k, n)
    BY <1>8, <2>5, <2>8 DEF Spends
  <2>10. Backed(k) => Backed(n)
    <3>1. /\ m.output = rest.output /\ m.wanted = rest.wanted
          /\ m.files = Append(rest.files, file)
      BY <1>8, <2>2 DEF IsCall, CallFields
    <3>2. /\ rest.output = k.output /\ rest.wanted = k.wanted \ {Min(k.wanted)}
          /\ rest.files = k.files
      BY <1>5, <1>6, SkipFacts
    <3>3. Backed(k) => Filling(k)
      BY <1>6 DEF Backed
    <3>4. k.wanted # {}
      BY <1>6 DEF Shaped
    <3>5. ParseResponse(text)[1].answer \notin {"empty", "json"}
      BY <1>9 DEF Usable
    <3>6. Filling(k) => Filling(m)
      BY <1>6, <2>1, <2>5, <3>1, <3>2, <3>4, <3>5, ObtainedFills
    <3> QED
      BY <2>3, <2>5, <3>3, <3>6, NextFileBacks
  <2> QED
    BY <1>2, <1>3, <2>4, <2>7, <2>8, <2>9, <2>10 DEF Steps
<1>10. CASE ~Usable(ParseResponse(text)[1].answer)
  <2>1. PICK n : n = NextFile(rest, u)
    OBVIOUS
  <2>2. last_usage' = last_usage /\ call' = [call EXCEPT ![c] = n]
    BY <1>1, <1>2, <1>3, <1>4, <1>5, <1>10, <2>1
  <2>3. last_usage' = [last_usage EXCEPT ![RoleObject[c]] = u]
    BY <1>3, <2>2 DEF Shapes
  <2>4. Paid(k, u) => rest.own = u
    BY <1>6, <1>8 DEF Paid
  <2>5. /\ Shaped(n) /\ Goes(k, n, u, u)
        /\ n.at \notin {"LLMError", "asking"} /\ n.missed = rest.missed
    BY <1>6, <1>8, <2>1, <2>4, NextFileGoes
  <2>6. Spends(k, n)
    BY <1>8, <2>5 DEF Spends
  <2>7. Backed(k) => Backed(n)
    <3>1. Backed(k) => Filling(k)
      BY <1>6 DEF Backed
    <3> QED
      BY <1>5, <1>6, <1>8, <2>1, <3>1, TriedFills, NextFileBacks
  <2> QED
    BY <1>2, <1>3, <1>7, <2>2, <2>3, <2>5, <2>6, <2>7 DEF Steps
<1> QED
  BY <1>9, <1>10

\* A valid answer in a fenced block is read, whatever surrounds it.
LEMMA FencedIsFound ==
  ASSUME NEW text, ParseResponse(text) = <<>>
  PROVE  ~ \E piece \in ToSet(text) : piece.fenced /\ Accepted(piece)
<1> SUFFICES ASSUME NEW i \in DOMAIN text, text[i].fenced, Accepted(text[i])
             PROVE  ParseResponse(text) # <<>>
  BY DEF ToSet
<1> DEFINE fenced == {j \in DOMAIN text : Accepted(text[j])} \intersect FencedBlocks(text)
<1>1. fenced # {}
  BY DEF FencedBlocks
<1>2. Len(text) = 1 => text # <<>>
  OBVIOUS
<1>3. <<text[Min(fenced)]>> # <<>>
  OBVIOUS
<1>4. \/ ParseResponse(text) = text /\ Len(text) = 1
      \/ ParseResponse(text) = <<text[Min(fenced)]>>
  BY <1>1 DEF ParseResponse
<1> QED
  BY <1>2, <1>3, <1>4

LEMMA UnreadableSteps ==
  ASSUME Shapes, NEW c \in Sessions, Unreadable(c)
  PROVE  \E n, v : Steps(c, n, v)
<1>1. PICK text \in Texts(c), tokens \in Tokens :
        LET m == [call[c] EXCEPT !.total = @ + tokens,
                    !.missed = @ \/ \E piece \in ToSet(text) : piece.fenced /\ Accepted(piece)]
        IN /\ ParseResponse(text) = <<>>
           /\ call' = [call EXCEPT ![c] =
             IF AttemptsLeft(m) THEN [m EXCEPT !.attempt = @ + 1] ELSE Failed(c, m)]
  BY DEF Unreadable
<1>2. PICK k : k = call[c]
  OBVIOUS
<1>3. PICK u : u = last_usage[RoleObject[c]]
  OBVIOUS
<1>4. PICK m : m = [k EXCEPT !.total = @ + tokens,
                      !.missed = @ \/ \E piece \in ToSet(text) : piece.fenced /\ Accepted(piece)]
  OBVIOUS
<1>5. PICK n : n = IF AttemptsLeft(m) THEN [m EXCEPT !.attempt = @ + 1] ELSE Failed(c, m)
  OBVIOUS
<1>6. call' = [call EXCEPT ![c] = n] /\ ParseResponse(text) = <<>>
  BY <1>1, <1>2, <1>4, <1>5
<1>7. /\ Shaped(k) /\ IsCall(k) /\ k.at \in {"asking", "backfilling"}
      /\ k.total \in Nat /\ k.own \in Nat
  BY <1>2 DEF Shapes, Shaped, Unreadable, Waiting
<1>8. u \in Nat /\ tokens \in Nat
  BY <1>3, RolesAssumption DEF Shapes
<1>9. /\ IsCall(m) /\ m.at = k.at /\ m.phase = k.phase /\ m.result = k.result
      /\ m.attempt = k.attempt /\ m.total = k.total + tokens /\ m.own = k.own
      /\ m.wanted = k.wanted /\ m.output = k.output /\ m.files = k.files
  BY <1>4, <1>7 DEF IsCall, CallFields
<1>10. m.total \in Nat
  BY <1>7, <1>8, <1>9
<1>11. last_usage' = [last_usage EXCEPT ![RoleObject[c]] = u]
  BY <1>3 DEF Shapes, Unreadable
<1>12. ~k.missed => ~m.missed
  <2>1. m.missed = (k.missed \/ \E piece \in ToSet(text) : piece.fenced /\ Accepted(piece))
    BY <1>4, <1>7 DEF IsCall, CallFields
  <2> QED
    BY <1>6, <2>1, FencedIsFound
<1>13. Backed(k) => Backed(m)
  BY <1>9, SameFiles
<1>14. Shaped(n) /\ Goes(k, n, u, u) /\ Spends(k, n) /\ (Backed(k) => Backed(n))
  <2>1. CASE AttemptsLeft(m)
    <3>1. /\ IsCall(n) /\ SameBut(m, n) /\ n.at = m.at /\ n.result = m.result
          /\ n.attempt = m.attempt + 1 /\ n.total = m.total
      BY <1>5, <1>9, <2>1 DEF IsCall, CallFields, SameBut
    <3>2. n.phase = k.phase /\ n.wanted = k.wanted /\ n.own = k.own /\ n.missed = m.missed
      BY <1>9, <3>1 DEF SameBut
    <3>3. n.attempt \in 0..Max({MaxRetries, BackfillRetries})
      BY <1>7, <1>9, <2>1, <3>1, LargerLimit, RolesAssumption DEF AttemptsLeft, Shaped
    <3>4. Spends(k, n)
      <4>1. n.at = "asking" => n.attempt <= MaxRetries
        BY <1>7, <1>9, <2>1, <3>1, RolesAssumption DEF AttemptsLeft, Shaped
      <4>2. n.at # "LLMError"
        BY <1>7, <1>9, <3>1
      <4> QED
        BY <1>12, <3>2, <4>1, <4>2 DEF Spends
    <3>5. Backed(m) => Backed(n)
      BY <3>1, SameFiles DEF SameBut
    <3> QED
      BY <1>7, <1>9, <1>10, <1>13, <3>1, <3>2, <3>3, <3>4, <3>5 DEF Shaped, Goes
  <2>2. CASE ~AttemptsLeft(m)
    <3>1. n = Failed(c, m)
      BY <1>5, <2>2
    <3>2. /\ Shaped(n) /\ Goes(k, n, u, u) /\ GivesUp(k, m, n)
          /\ Backed(m) => Backed(n)
      BY <1>3, <1>7, <1>9, <1>10, <3>1, FailedGoes
    <3>3. k.at = "asking" => ~(k.attempt < MaxRetries)
      BY <1>9, <2>2 DEF AttemptsLeft
    <3> QED
      BY <1>12, <1>13, <3>2, <3>3 DEF Spends, GivesUp
  <2> QED
    BY <2>1, <2>2
<1> QED
  BY <1>2, <1>3, <1>6, <1>8, <1>11, <1>14 DEF Steps

LEMMA BackendRaisesSteps ==
  ASSUME Shapes, NEW c \in Sessions, BackendRaises(c)
  PROVE  \E n, v : Steps(c, n, v)
<1>1. PICK k : k = call[c]
  OBVIOUS
<1>2. PICK u : u = last_usage[RoleObject[c]]
  OBVIOUS
<1>3. PICK m : m = Failed(c, k)
  OBVIOUS
<1>4. /\ Shaped(k) /\ IsCall(k) /\ k.at \in {"asking", "backfilling"}
      /\ k.total \in Nat /\ k.own \in Nat
  BY <1>1 DEF Shapes, Shaped, BackendRaises, Waiting
<1>5. u \in Nat
  BY <1>2 DEF Shapes
<1>6. last_usage' = [last_usage EXCEPT ![RoleObject[c]] = u]
  BY <1>2 DEF Shapes, BackendRaises
<1>7. \/ call' = [call EXCEPT ![c] =
                    [m EXCEPT !.at = IF @ = "LLMError" THEN "raised" ELSE @]]
      \/ call' = [call EXCEPT ![c] = [k EXCEPT !.at = "raised"]]
  BY <1>1, <1>3 DEF BackendRaises
<1>8. ASSUME call' = [call EXCEPT ![c] =
                        [m EXCEPT !.at = IF @ = "LLMError" THEN "raised" ELSE @]]
      PROVE  \E n : /\ call' = [call EXCEPT ![c] = n] /\ Shaped(n) /\ Goes(k, n, u, u)
                    /\ Spends(k, n) /\ (Backed(k) => Backed(n))
  <2>1. PICK n : n = [m EXCEPT !.at = IF @ = "LLMError" THEN "raised" ELSE @]
    OBVIOUS
  <2>2. Shaped(m) /\ Goes(k, m, u, u) /\ GivesUp(k, k, m) /\ (Backed(k) => Backed(m))
    BY <1>2, <1>3, <1>4, FailedGoes
  <2>3. IsCall(m)
    BY <2>2 DEF Shaped
  <2>4. CASE m.at = "LLMError"
    <3>1. /\ IsCall(n) /\ SameBut(m, n) /\ n.at = "raised" /\ n.result = m.result
          /\ n.attempt = m.attempt /\ n.total = m.total
      BY <2>1, <2>3, <2>4 DEF IsCall, CallFields, SameBut
    <3>2. n.phase = m.phase /\ n.own = m.own
      BY <3>1 DEF SameBut
    <3>3. n.result = k.result
      BY <1>4, <2>2, <2>4, <3>1 DEF Goes
    <3>4. Spends(k, n)
      BY <2>2, <3>1 DEF Spends, SameBut, GivesUp
    <3>5. Backed(n)
      BY <3>1 DEF Backed
    <3> QED
      BY <1>8, <2>1, <2>2, <3>1, <3>2, <3>3, <3>4, <3>5 DEF Shaped, Goes, Ended
  <2>5. CASE m.at # "LLMError"
    <3>1. n = m
      BY <2>1, <2>3, <2>5 DEF IsCall, CallFields
    <3>2. Spends(k, n)
      BY <2>2, <2>5, <3>1 DEF Spends, GivesUp
    <3> QED
      BY <1>8, <2>1, <2>2, <3>1, <3>2
  <2> QED
    BY <2>4, <2>5
<1>9. ASSUME call' = [call EXCEPT ![c] = [k EXCEPT !.at = "raised"]]
      PROVE  \E n : /\ call' = [call EXCEPT ![c] = n] /\ Shaped(n) /\ Goes(k, n, u, u)
                    /\ Spends(k, n) /\ (Backed(k) => Backed(n))
  <2>1. PICK n : n = [k EXCEPT !.at = "raised"]
    OBVIOUS
  <2>2. /\ IsCall(n) /\ SameBut(k, n) /\ n.at = "raised" /\ n.result = k.result
        /\ n.attempt = k.attempt /\ n.total = k.total
    BY <1>4, <2>1 DEF IsCall, CallFields, SameBut
  <2>3. n.phase = k.phase /\ n.own = k.own
    BY <2>2 DEF SameBut
  <2>4. Spends(k, n) /\ Backed(n)
    BY <2>2 DEF Spends, SameBut, Backed
  <2> QED
    BY <1>4, <1>9, <2>1, <2>2, <2>3, <2>4 DEF Shaped, Goes, Ended
<1> QED
  BY <1>1, <1>2, <1>5, <1>6, <1>7, <1>8, <1>9 DEF Steps

LEMMA CallSteps ==
  ASSUME Shapes, NEW c \in Sessions, Call(c)
  PROVE  \E n, v : Steps(c, n, v)
<1>1. PICK phase \in ToSet(graph) :
        call' = [call EXCEPT ![c] =
          [NoCall EXCEPT !.phase = phase,
             !.at = IF phase.role_overrides = "invalid" THEN "ConfigurationError"
                    ELSE "asking"]]
  BY DEF Call
<1>2. PICK at : at = IF phase.role_overrides = "invalid" THEN "ConfigurationError" ELSE "asking"
  OBVIOUS
<1>3. PICK n : n = [NoCall EXCEPT !.phase = phase, !.at = at]
  OBVIOUS
<1>4. call' = [call EXCEPT ![c] = n]
  BY <1>1, <1>2, <1>3
<1>5. PICK u : u = last_usage[RoleObject[c]]
  OBVIOUS
<1>6. last_usage' = [last_usage EXCEPT ![RoleObject[c]] = u] /\ u \in Nat
  BY <1>5 DEF Shapes, Call
<1>7. /\ IsCall(n) /\ n.phase = phase /\ n.at = at /\ n.attempt = 0 /\ n.total = 0
      /\ n.own = 0 /\ n.result = Unset /\ ~n.missed
  BY <1>3 DEF NoCall, IsCall, CallFields
<1>8. at \in {"asking", "ConfigurationError"}
  BY <1>2
<1>9. Shaped(n)
  BY <1>7, <1>8, LargerLimit DEF Shaped, Ended
<1>10. Begins(call[c], n, u, u)
  BY <1>7, <1>8 DEF Begins, Call
<1>11. Spends(call[c], n) /\ Backed(n)
  BY <1>7, <1>8, RolesAssumption DEF Spends, Backed
<1> QED
  BY <1>4, <1>5, <1>6, <1>9, <1>10, <1>11 DEF Steps

LEMMA NextSteps ==
  ASSUME Shapes, [Next]_vars
  PROVE  \/ UNCHANGED <<call, last_usage>> /\ (graph' # graph => graph = Unset)
         \/ UNCHANGED graph /\ \E c \in Sessions : \E n, v : Steps(c, n, v)
<1>1. CASE Configure \/ UNCHANGED vars
  BY <1>1 DEF Configure, vars
<1>2. ASSUME NEW c \in Sessions, Call(c) \/ Reply(c) \/ BackendRaises(c)
      PROVE  UNCHANGED graph /\ \E n, v : Steps(c, n, v)
  <2>1. UNCHANGED graph
    BY <1>2 DEF Call, Reply, ExecutorAnswers, ReviewerAnswers, FileAnswers, Unreadable,
       BackendRaises
  <2>2. \E n, v : Steps(c, n, v)
    BY <1>2, CallSteps, ExecutorAnswersSteps, ReviewerAnswersSteps, FileAnswersSteps,
       UnreadableSteps, BackendRaisesSteps DEF Reply
  <2> QED
    BY <2>1, <2>2
<1> QED
  BY <1>1, <1>2 DEF Next

LEMMA InitShapes == Init => Shapes
<1> SUFFICES ASSUME Init PROVE Shapes
  OBVIOUS
<1>1. IsCall(NoCall)
  BY DEF NoCall, IsCall, CallFields
<1>2. Shaped(NoCall)
  BY <1>1, LargerLimit DEF Shaped, NoCall
<1>3. \A c \in Sessions : call[c] = NoCall
  BY DEF Init
<1> QED
  BY <1>2, <1>3 DEF Init, Shapes

LEMMA StepShapes == Shapes /\ [Next]_vars => Shapes'
<1> SUFFICES ASSUME Shapes, [Next]_vars PROVE Shapes'
  OBVIOUS
<1>1. CASE UNCHANGED <<call, last_usage>>
  BY <1>1 DEF Shapes
<1>2. ASSUME NEW c \in Sessions, NEW n, NEW v, Steps(c, n, v) PROVE Shapes'
  <2>1. Shaped(n)
    BY <1>2 DEF Steps
  <2>2. \A d \in Sessions : Shaped(call'[d])
    BY <1>2, <2>1 DEF Steps, Shapes
  <2> QED
    BY <1>2, <2>2 DEF Steps, Shapes
<1> QED
  BY <1>1, <1>2, NextSteps

-------------------------------------------------------------------------------
(***************************************************************************)
(* A call has a result exactly when it returned, if Unset is no result.    *)
(***************************************************************************)
UnsetIsNoResult ==
  \A d, t, n, u :
    [decision |-> d, target_phase |-> t, chosen_next |-> n, usage |-> u] # Unset

Resulted == \A c \in Sessions : call[c].at = "returned" <=> call[c].result # Unset

LEMMA RoleResultFacts ==
  ASSUME NEW phase, NEW answer, NEW usage, NEW r, r = RoleResult(phase, answer, usage)
  PROVE  r.usage = usage /\ (UnsetIsNoResult => r # Unset)
<1>1. CASE phase.kind = "executor"
  BY <1>1 DEF RoleResult, ExecutionResult, UnsetIsNoResult
<1>2. CASE phase.kind # "executor"
  BY <1>2 DEF RoleResult, ReviewResult, UnsetIsNoResult
<1> QED
  BY <1>1, <1>2

LEMMA StepResulted ==
  ASSUME UnsetIsNoResult, Shapes, Resulted, [Next]_vars
  PROVE  Resulted'
<1>1. CASE UNCHANGED <<call, last_usage>>
  BY <1>1 DEF Resulted
<1>2. ASSUME NEW c \in Sessions, NEW n, NEW v, Steps(c, n, v) PROVE Resulted'
  <2>1. n.at = "returned" <=> n.result # Unset
    <3>1. CASE Begins(call[c], n, last_usage[RoleObject[c]], v)
      BY <3>1 DEF Begins
    <3>2. CASE Goes(call[c], n, last_usage[RoleObject[c]], v)
      <4>1. call[c].result = Unset
        BY <3>2 DEF Goes, Resulted
      <4>2. n.result = RoleResult(n.phase, n.output, v) => n.result # Unset
        BY RoleResultFacts
      <4> QED
        BY <3>2, <4>1, <4>2 DEF Goes
    <3> QED
      BY <1>2, <3>1, <3>2 DEF Steps
  <2> QED
    BY <1>2, <2>1 DEF Steps, Shapes, Resulted
<1> QED
  BY <1>1, <1>2, NextSteps

(***************************************************************************)
(* A call's attempts stay within the retry limits, whatever fails, and it  *)
(* carries a result exactly when it returned.  Unset is None: it differs   *)
(* from every result.                                                      *)
(***************************************************************************)
THEOREM RolesTypeCorrect ==
  ASSUME UnsetIsNoResult
  PROVE  Spec => []RolesTypeOK
<1>1. Init => Shapes /\ Resulted
  BY InitShapes DEF Init, Resulted, NoCall
<1>2. Shapes /\ Resulted /\ [Next]_vars => Shapes' /\ Resulted'
  BY StepShapes, StepResulted
<1>3. Shapes /\ Resulted => RolesTypeOK
  <2> SUFFICES ASSUME Shapes, Resulted PROVE RolesTypeOK
    OBVIOUS
  <2>1. ASSUME NEW c \in Sessions
        PROVE  /\ Shaped(call[c])
               /\ (call[c].at = "returned") = (call[c].result # Unset)
    BY DEF Shapes, Resulted
  <2> QED
    BY <2>1 DEF Shapes, Shaped, RolesTypeOK
<1> QED
  BY <1>1, <1>2, <1>3, PTL DEF Spec

-------------------------------------------------------------------------------
(***************************************************************************)
(* A role object that serves one session.                                  *)
(***************************************************************************)
OwnRoles == \A c, d \in Sessions : RoleObject[c] = RoleObject[d] => c = d

Owned ==
  \A c \in Sessions :
    /\ Paid(call[c], last_usage[RoleObject[c]])
    /\ call[c].at = "returned" => call[c].result.usage = call[c].own

LEMMA StepOwned ==
  ASSUME OwnRoles, Shapes, Owned, [Next]_vars
  PROVE  Owned'
<1>1. CASE UNCHANGED <<call, last_usage>>
  BY <1>1 DEF Owned, Paid
<1>2. ASSUME NEW c \in Sessions, NEW n, NEW v, Steps(c, n, v) PROVE Owned'
  <2>1. Paid(n, v) /\ (n.at = "returned" => n.result.usage = n.own)
    <3>1. CASE Begins(call[c], n, last_usage[RoleObject[c]], v)
      BY <3>1 DEF Begins, Paid
    <3>2. CASE Goes(call[c], n, last_usage[RoleObject[c]], v)
      <4>1. Paid(call[c], last_usage[RoleObject[c]])
        BY DEF Owned
      <4>2. n.result = RoleResult(n.phase, n.output, v) => n.result.usage = v
        BY RoleResultFacts
      <4> QED
        BY <3>2, <4>1, <4>2 DEF Goes, Paid
    <3> QED
      BY <1>2, <3>1, <3>2 DEF Steps
  <2>2. ASSUME NEW d \in Sessions, d # c
        PROVE  /\ Paid(call'[d], last_usage'[RoleObject[d]])
               /\ call'[d].at = "returned" => call'[d].result.usage = call'[d].own
    <3>1. /\ call'[d] = call[d]
          /\ last_usage'[RoleObject[d]] = last_usage[RoleObject[d]]
      BY <1>2, <2>2 DEF Steps, Shapes, OwnRoles
    <3> QED
      BY <3>1 DEF Owned
  <2>3. call'[c] = n /\ last_usage'[RoleObject[c]] = v
    BY <1>2 DEF Steps, Shapes
  <2> QED
    BY <2>1, <2>2, <2>3 DEF Owned, Paid
<1> QED
  BY <1>1, <1>2, NextSteps

(***************************************************************************)
(* Sessions that do not share a role object get the usage of their own     *)
(* calls, retries and backfilled files included, and of nothing else.      *)
(* With a shared object they need not: last_usage is read after an await.  *)
(***************************************************************************)
THEOREM UsageCorrect ==
  ASSUME OwnRoles
  PROVE  Spec => []UsageIsOwn
<1>1. Init => Shapes /\ Owned
  BY InitShapes DEF Init, Owned, NoCall, Paid
<1>2. Shapes /\ Owned /\ [Next]_vars => Shapes' /\ Owned'
  BY StepShapes, StepOwned
<1>3. Owned => UsageIsOwn
  BY DEF Owned, UsageIsOwn
<1> QED
  BY <1>1, <1>2, <1>3, PTL DEF Spec

-------------------------------------------------------------------------------
(***************************************************************************)
(* Routing a result: the choice of the first rule that matches.            *)
(***************************************************************************)
LEMMA FirstPosition ==
  ASSUME NEW S \in SUBSET Nat, S # {}
  PROVE  Min(S) \in S
<1>1. \E x \in S : \A y \in S : x <= y
  BY NatLeast
<1> QED
  BY <1>1 DEF Min

LEMMA ChosenIs ==
  ASSUME NEW phase \in PhaseDefinition, NEW score,
         NEW chosen, chosen = ResolveChosenNext(score, phase.routing), chosen # NoRule
  PROVE  \/ phase.routing = <<>> /\ chosen = NoPhase
         \/ \E rule \in ToSet(phase.routing) : chosen = rule.target
<1> DEFINE rules == phase.routing
<1> DEFINE firing == {i \in DOMAIN rules : Matches(rules[i], score)}
<1>1. rules \in Seq(Rule)
  BY DEF PhaseDefinition
<1>2. DOMAIN rules = 1..Len(rules) /\ Len(rules) \in Nat
  BY <1>1
<1>3. CASE rules = <<>>
  BY <1>3 DEF ResolveChosenNext
<1>4. CASE rules # <<>>
  <2>1. firing # {} /\ chosen = rules[Min(firing)].target
    BY <1>4 DEF ResolveChosenNext
  <2>2. firing \in SUBSET Nat /\ firing \subseteq DOMAIN rules
    BY <1>2
  <2> HIDE DEF firing
  <2>3. Min(firing) \in firing
    BY <2>1, <2>2, FirstPosition
  <2> QED
    BY <2>1, <2>2, <2>3 DEF ToSet
<1> QED
  BY <1>3, <1>4

\* A choice that _resolve_target accepts.
LEMMA Resolves ==
  ASSUME NEW phases, NEW targets, targets \subseteq Names, NEW chosen,
         \/ targets = {}
         \/ (\E t \in targets : targets = {t}) /\ chosen = NoPhase
         \/ chosen \in targets
  PROVE  Graph(phases)!Resolve(targets, chosen) # BadTarget
<1>1. BadTarget \notin Names /\ NoPhase \notin Names /\ NoPhase # BadTarget
  BY NamesAssumption
<1>2. CASE targets = {}
  BY <1>1, <1>2 DEF Graph!Resolve
<1>3. CASE (\E t \in targets : targets = {t}) /\ chosen = NoPhase
  <2>1. (CHOOSE t \in targets : TRUE) \in targets
    BY <1>3
  <2> QED
    BY <1>1, <1>3, <2>1 DEF Graph!Resolve, Graph!IsSingleton
<1>4. CASE chosen \in targets
  BY <1>1, <1>4 DEF Graph!Resolve, Graph!IsSingleton
<1> QED
  BY <1>2, <1>3, <1>4

LEMMA AtMostOne ==
  ASSUME NEW T, IsFiniteSet(T), ~(Cardinality(T) > 1)
  PROVE  T = {} \/ \E t \in T : T = {t}
<1>1. Cardinality(T) \in Nat
  BY FS_CardinalityType
<1>2. Cardinality(T) = 0 \/ Cardinality(T) = 1
  BY <1>1
<1>3. CASE Cardinality(T) = 0
  BY <1>3, FS_EmptySet
<1>4. CASE Cardinality(T) = 1
  BY <1>4, FS_Singleton
<1> QED
  BY <1>2, <1>3, <1>4

LEMMA ForwardResolves ==
  ASSUME NEW phases, Accepts(phases), NEW phase \in ToSet(phases), HasRules(phase),
         NEW score, NEW chosen,
         chosen = ResolveChosenNext(score, phase.routing), chosen # NoRule
  PROVE  Graph(phases)!Resolve(ForwardTargets(phase), chosen) # BadTarget
<1> DEFINE targets == ForwardTargets(phase)
<1>1. phase \in PhaseDefinition
  BY PhaseLists
<1>2. \/ targets = {}
      \/ \A rule \in ToSet(phase.routing) : rule.target \in targets
  BY DEF Accepts, Validated
<1>3. targets \subseteq Names /\ IsFiniteSet(targets)
  <2>1. phase.on_complete \in Seq(Names) /\ phase.on_approve \in Seq(Names)
    BY <1>1 DEF PhaseDefinition
  <2>2. /\ ToSet(phase.on_complete) \subseteq Names /\ IsFiniteSet(ToSet(phase.on_complete))
        /\ ToSet(phase.on_approve) \subseteq Names /\ IsFiniteSet(ToSet(phase.on_approve))
    BY <2>1, ToSetIs
  <2> QED
    BY <2>2 DEF ForwardTargets
<1>4. phase.routing = <<>> => ~(Cardinality(targets) > 1)
  BY DEF HasRules
<1> HIDE DEF targets
<1>5. \/ targets = {}
      \/ (\E t \in targets : targets = {t}) /\ chosen = NoPhase
      \/ chosen \in targets
  BY <1>1, <1>2, <1>3, <1>4, ChosenIs, AtMostOne
<1>6. Graph(phases)!Resolve(targets, chosen) # BadTarget
  BY <1>3, <1>5, Resolves
<1> QED
  BY <1>6 DEF targets

\* A send-back to a phase the reviewer may name, or left open.
LEMMA SendBackResolves ==
  ASSUME NEW phases, NEW phase \in PhaseDefinition, NEW answer,
         phase.can_request_changes_from # <<>>,
         Decision(answer) = "REQUEST_CHANGES",
         answer.target_phase \in {NoPhase} \union ToSet(phase.can_request_changes_from)
  PROVE  Graph(phases)!Resolve(ToSet(phase.can_request_changes_from),
           TargetPhase(answer, phase.can_request_changes_from)) # BadTarget
<1> DEFINE targets == phase.can_request_changes_from
<1> DEFINE target == TargetPhase(answer, targets)
<1>1. targets \in Seq(Names)
  BY DEF PhaseDefinition
<1>2. DOMAIN targets = 1..Len(targets) /\ Len(targets) \in Nat /\ Len(targets) # 0
  BY <1>1
<1>3. /\ ToSet(targets) \subseteq Names /\ ToSet(targets) # {}
      /\ IsFiniteSet(ToSet(targets)) /\ Cardinality(ToSet(targets)) <= Len(targets)
  BY <1>1, ToSetIs
<1>4. CASE answer.target_phase \in ToSet(targets)
  <2>1. answer.target_phase # NoPhase
    BY <1>3, <1>4, NamesAssumption
  <2>2. target = answer.target_phase
    BY <2>1 DEF TargetPhase
  <2> HIDE DEF targets, target
  <2> QED
    BY <1>3, <1>4, <2>2, Resolves DEF targets, target
<1>5. CASE answer.target_phase = NoPhase /\ Len(targets) > 1
  <2>1. target = targets[Len(targets)]
    BY <1>5 DEF TargetPhase, Last
  <2>2. target \in ToSet(targets)
    BY <1>2, <2>1 DEF ToSet
  <2> HIDE DEF targets, target
  <2> QED
    BY <1>3, <2>2, Resolves DEF targets, target
<1>6. CASE answer.target_phase = NoPhase /\ ~(Len(targets) > 1)
  <2>1. target = NoPhase
    BY <1>6 DEF TargetPhase
  <2>2. ~(Cardinality(ToSet(targets)) > 1)
    <3>1. Cardinality(ToSet(targets)) \in Nat
      BY <1>3, FS_CardinalityType
    <3> QED
      BY <1>2, <1>3, <1>6, <3>1
  <2>3. \E t \in ToSet(targets) : ToSet(targets) = {t}
    BY <1>3, <2>2, AtMostOne
  <2> HIDE DEF targets, target
  <2> QED
    BY <1>3, <2>1, <2>3, Resolves DEF targets, target
<1> QED
  BY <1>4, <1>5, <1>6

\* What the graph of an accepted list says of one of its phases.
LEMMA GraphOf ==
  ASSUME NEW phases, Accepts(phases), NEW phase \in ToSet(phases), NEW chosen
  PROVE  /\ Graph(phases)!ReviewRoute(phase.phase_id, "APPROVE", chosen)
              = Graph(phases)!Resolve(ToSet(phase.on_approve), chosen)
         /\ ToSet(phase.can_request_changes_from) # {} =>
              Graph(phases)!ReviewRoute(phase.phase_id, "REQUEST_CHANGES", chosen)
                = Graph(phases)!Resolve(ToSet(phase.can_request_changes_from), chosen)
<1>1. phase.phase_id \in Ids(phases) /\ Definition(phases, phase.phase_id) = phase
  BY PhaseLists, DefinitionIs
<1> QED
  BY <1>1 DEF Graph!ReviewRoute

(***************************************************************************)
(* Results.  The invariant: a call under way or returned is for a phase of *)
(* the accepted graph, and a result is the one computed from the phase's   *)
(* definition and the answer.                                              *)
(***************************************************************************)
Routed ==
  \A c \in Sessions :
    LET k == call[c]
    IN /\ k.at # "idle" => graph \notin {Unset, <<>>} /\ k.phase \in ToSet(graph)
       /\ k.at = "returned" =>
            /\ \E u : k.result = RoleResult(k.phase, k.output, u)
            /\ k.result.chosen_next # NoRule /\ Readable(k)

LEMMA StepRouted ==
  ASSUME Shapes, Routed, [Next]_vars
  PROVE  Routed'
<1>1. CASE UNCHANGED <<call, last_usage>> /\ (graph' # graph => graph = Unset)
  BY <1>1 DEF Routed, Readable
<1>2. ASSUME UNCHANGED graph, NEW c \in Sessions, NEW n, NEW v, Steps(c, n, v)
      PROVE  Routed'
  <2>1. /\ n.at # "idle" => graph \notin {Unset, <<>>} /\ n.phase \in ToSet(graph)
        /\ n.at = "returned" =>
             /\ \E u : n.result = RoleResult(n.phase, n.output, u)
             /\ n.result.chosen_next # NoRule /\ Readable(n)
    <3>1. CASE Begins(call[c], n, last_usage[RoleObject[c]], v)
      BY <3>1 DEF Begins
    <3>2. CASE Goes(call[c], n, last_usage[RoleObject[c]], v)
      <4>1. graph \notin {Unset, <<>>} /\ call[c].phase \in ToSet(graph)
        BY <3>2 DEF Goes, Routed
      <4> QED
        BY <3>2, <4>1 DEF Goes
    <3> QED
      BY <1>2, <3>1, <3>2 DEF Steps
  <2>2. /\ call'[c] = n
        /\ \A d \in Sessions : d # c => call'[d] = call[d]
    BY <1>2 DEF Steps, Shapes
  <2> QED
    BY <1>2, <2>1, <2>2 DEF Routed, Readable
<1> QED
  BY <1>1, <1>2, NextSteps

LEMMA ResultRoutesOn ==
  ASSUME NEW phases, Accepts(phases), NEW phase \in ToSet(phases), HasRules(phase),
         NEW answer, NEW u, NEW result, result = RoleResult(phase, answer, u),
         result.chosen_next # NoRule,
         phase.kind = "executor" \/ answer.decision \in {"APPROVE", "REQUEST_CHANGES"}
  PROVE  CASE result.decision = "COMPLETE" ->
                Graph(phases)!Resolve(ToSet(phase.on_complete), result.chosen_next) # BadTarget
           [] result.decision = "APPROVE" ->
                Graph(phases)!ReviewRoute(phase.phase_id, "APPROVE", result.chosen_next) # BadTarget
           [] result.decision = "REQUEST_CHANGES" ->
                \/ answer.target_phase \notin {NoPhase} \union ToSet(phase.can_request_changes_from)
                \/ phase.can_request_changes_from = <<>>
                \/ Graph(phases)!ReviewRoute(phase.phase_id, "REQUEST_CHANGES",
                                             result.target_phase) # BadTarget
<1>1. phase \in PhaseDefinition
  BY PhaseLists
<1>2. CASE phase.kind = "executor"
  <2>1. /\ result.decision = "COMPLETE"
        /\ result.chosen_next = ResolveChosenNext(answer.confidence_score, phase.routing)
    BY <1>2 DEF RoleResult, ExecutionResult
  <2>2. Graph(phases)!Resolve(ForwardTargets(phase), result.chosen_next) # BadTarget
    BY <2>1, ForwardResolves
  <2> QED
    BY <1>2, <2>1, <2>2 DEF ForwardTargets
<1>3. CASE phase.kind # "executor"
  <2>1. /\ result.decision = Decision(answer)
        /\ result.target_phase = TargetPhase(answer, phase.can_request_changes_from)
        /\ Decision(answer) = "APPROVE" =>
             result.chosen_next = ResolveChosenNext(answer.confidence_score, phase.routing)
    BY <1>3 DEF RoleResult, ReviewResult
  <2>2. Decision(answer) \in {"APPROVE", "REQUEST_CHANGES"}
    BY <1>3 DEF Decision
  <2>3. CASE Decision(answer) = "APPROVE"
    <3>1. Graph(phases)!Resolve(ForwardTargets(phase), result.chosen_next) # BadTarget
      BY <2>1, <2>3, ForwardResolves
    <3>2. Graph(phases)!Resolve(ToSet(phase.on_approve), result.chosen_next) # BadTarget
      BY <1>3, <3>1 DEF ForwardTargets
    <3>3. Graph(phases)!ReviewRoute(phase.phase_id, "APPROVE", result.chosen_next) # BadTarget
      BY <3>2, GraphOf
    <3> QED
      BY <2>1, <2>3, <3>3
  <2>4. CASE Decision(answer) = "REQUEST_CHANGES"
    <3>1. SUFFICES ASSUME answer.target_phase \in
                            {NoPhase} \union ToSet(phase.can_request_changes_from),
                          phase.can_request_changes_from # <<>>
                   PROVE  Graph(phases)!ReviewRoute(phase.phase_id, "REQUEST_CHANGES",
                                                    result.target_phase) # BadTarget
      BY <2>1, <2>4
    <3>2. Graph(phases)!Resolve(ToSet(phase.can_request_changes_from), result.target_phase)
            # BadTarget
      BY <1>1, <2>1, <2>4, <3>1, SendBackResolves
    <3>3. ToSet(phase.can_request_changes_from) # {}
      <4>1. phase.can_request_changes_from \in Seq(Names)
        BY <1>1 DEF PhaseDefinition
      <4> QED
        BY <3>1, <4>1, ToSetIs
    <3> QED
      BY <3>2, <3>3, GraphOf
  <2> QED
    BY <2>2, <2>3, <2>4
<1> QED
  BY <1>2, <1>3

(***************************************************************************)
(* On an accepted graph whose phases with a choice have routing rules, the *)
(* engine's routing of a result raises no TransitionError, whatever score, *)
(* findings and open target the model answered with.                       *)
(***************************************************************************)
THEOREM RoutesCorrect == Spec => []ResultRoutes
<1>1. Init => Shapes /\ Built /\ Routed
  BY InitShapes, InitBuilt DEF Init, Routed, NoCall
<1>2. Shapes /\ Built /\ Routed /\ [Next]_vars => Shapes' /\ Built' /\ Routed'
  BY StepShapes, StepBuilt, StepRouted
<1>3. Built /\ Routed => ResultRoutes
  <2> SUFFICES ASSUME Built, Routed, NEW c \in Sessions,
                      call[c].at = "returned", HasRules(call[c].phase)
               PROVE  LET k == call[c]
                          p == k.phase.phase_id
                      IN CASE k.result.decision = "COMPLETE" ->
                                Graph(graph)!Resolve(ToSet(k.phase.on_complete), k.result.chosen_next) # BadTarget
                           [] k.result.decision = "APPROVE" ->
                                Graph(graph)!ReviewRoute(p, "APPROVE", k.result.chosen_next) # BadTarget
                           [] k.result.decision = "REQUEST_CHANGES" ->
                                \/ k.output.target_phase \notin {NoPhase} \union ToSet(k.phase.can_request_changes_from)
                                \/ k.phase.can_request_changes_from = <<>>
                                \/ Graph(graph)!ReviewRoute(p, "REQUEST_CHANGES", k.result.target_phase) # BadTarget
    BY DEF ResultRoutes
  <2>1. /\ graph \notin {Unset, <<>>} /\ call[c].phase \in ToSet(graph)
        /\ call[c].result.chosen_next # NoRule /\ Readable(call[c])
    BY DEF Routed
  <2>2. PICK u : call[c].result = RoleResult(call[c].phase, call[c].output, u)
    BY DEF Routed
  <2>3. Accepts(graph)
    BY <2>1 DEF Built
  <2>4. PICK phases : phases = graph
    OBVIOUS
  <2>5. PICK phase : phase = call[c].phase
    OBVIOUS
  <2>6. PICK answer : answer = call[c].output
    OBVIOUS
  <2>7. PICK result : result = call[c].result
    OBVIOUS
  <2>8. /\ Accepts(phases) /\ phase \in ToSet(phases) /\ HasRules(phase)
        /\ result = RoleResult(phase, answer, u) /\ result.chosen_next # NoRule
        /\ phase.kind = "executor" \/ answer.decision \in {"APPROVE", "REQUEST_CHANGES"}
    BY <2>1, <2>2, <2>3, <2>4, <2>5, <2>6, <2>7 DEF Readable
  <2>9. (CASE result.decision = "COMPLETE" ->
               Graph(phases)!Resolve(ToSet(phase.on_complete), result.chosen_next) # BadTarget
          [] result.decision = "APPROVE" ->
               Graph(phases)!ReviewRoute(phase.phase_id, "APPROVE", result.chosen_next) # BadTarget
          [] result.decision = "REQUEST_CHANGES" ->
               \/ answer.target_phase \notin {NoPhase} \union ToSet(phase.can_request_changes_from)
               \/ phase.can_request_changes_from = <<>>
               \/ Graph(phases)!ReviewRoute(phase.phase_id, "REQUEST_CHANGES",
                                            result.target_phase) # BadTarget)
    BY <2>8, ResultRoutesOn
  <2> QED
    BY <2>4, <2>5, <2>6, <2>7, <2>9
<1> QED
  BY <1>1, <1>2, <1>3, PTL DEF Spec

-------------------------------------------------------------------------------
(***************************************************************************)
(* Answers.  The invariant: no answer in a fenced block was rejected, and  *)
(* the attempts of a call that is asking stay within its retries.          *)
(***************************************************************************)
Found ==
  \A c \in Sessions :
    /\ ~call[c].missed
    /\ call[c].at = "asking" => call[c].attempt <= MaxRetries
    /\ call[c].at = "LLMError" => call[c].attempt = MaxRetries

LEMMA StepFound ==
  ASSUME Shapes, Found, [Next]_vars
  PROVE  Found'
<1>1. CASE UNCHANGED <<call, last_usage>>
  BY <1>1 DEF Found
<1>2. ASSUME NEW c \in Sessions, NEW n, NEW v, Steps(c, n, v) PROVE Found'
  <2>1. PICK k : k = call[c]
    OBVIOUS
  <2>2. k.attempt \in Nat /\ Spends(k, n)
    <3>1. Shaped(k)
      BY <2>1 DEF Shapes
    <3> QED
      BY <1>2, <2>1, <3>1, LargerLimit DEF Shaped, Steps
  <2>3. ~k.missed /\ (k.at = "asking" => k.attempt <= MaxRetries)
    BY <2>1 DEF Found
  <2>4. n.at = "LLMError" => n.attempt = MaxRetries
    BY <2>2, <2>3, RolesAssumption DEF Spends
  <2>5. ~n.missed /\ (n.at = "asking" => n.attempt <= MaxRetries)
    BY <2>2, <2>3 DEF Spends
  <2>6. call'[c] = n /\ \A d \in Sessions : d # c => call'[d] = call[d]
    BY <1>2 DEF Steps, Shapes
  <2> QED
    BY <2>4, <2>5, <2>6 DEF Found
<1> QED
  BY <1>1, <1>2, NextSteps

(***************************************************************************)
(* LLMError ends a role call only when every attempt was used, and no      *)
(* reply that was rejected on the way held a valid answer in a fenced      *)
(* block, whatever pieces came before or after it.                         *)
(***************************************************************************)
THEOREM AnswersCorrect == Spec => []AnswersAreFound
<1>1. Init => Shapes /\ Found
  BY InitShapes DEF Init, Found, NoCall
<1>2. Shapes /\ Found /\ [Next]_vars => Shapes' /\ Found'
  BY StepShapes, StepFound
<1>3. Found => AnswersAreFound
  BY DEF Found, AnswersAreFound
<1> QED
  BY <1>1, <1>2, <1>3, PTL DEF Spec

-------------------------------------------------------------------------------
LEMMA StepBacked ==
  ASSUME Shapes, \A c \in Sessions : Backed(call[c]), [Next]_vars
  PROVE  \A c \in Sessions : Backed(call'[c])
<1>1. CASE UNCHANGED <<call, last_usage>>
  BY <1>1
<1>2. ASSUME NEW c \in Sessions, NEW n, NEW v, Steps(c, n, v)
      PROVE  \A d \in Sessions : Backed(call'[d])
  <2>1. Backed(n)
    BY <1>2 DEF Steps
  <2>2. \A d \in Sessions : call'[d] = IF d = c THEN n ELSE call[d]
    BY <1>2 DEF Steps, Shapes
  <2> QED
    BY <2>1, <2>2
<1> QED
  BY <1>1, <1>2, NextSteps

(***************************************************************************)
(* What an executor hands on: the files of the answer, or files of the     *)
(* handoff that came without them, in order, each with content, whichever  *)
(* backfill calls failed, gave up or brought something else.               *)
(***************************************************************************)
THEOREM FilesCorrect == Spec => []FilesAreBackfilled
<1> DEFINE Files == \A c \in Sessions : Backed(call[c])
<1>1. Init => Shapes /\ Files
  BY InitShapes DEF Init, Backed, NoCall
<1>2. Shapes /\ Files /\ [Next]_vars => Shapes' /\ Files'
  BY StepShapes, StepBacked
<1>3. Files => FilesAreBackfilled
  BY DEF Backed, Complete, Filled, Named, FilesAreBackfilled
<1> QED
  BY <1>1, <1>2, <1>3, PTL DEF Spec

===============================================================================
