------------------------------ MODULE MCLLMRoles ------------------------------
(***************************************************************************)
(* A curated family of configurations, good and bad, each run by one       *)
(* session, and one configuration run by two sessions at a time.           *)
(***************************************************************************)
EXTENDS LLMRoles

CONSTANTS s1, s2, r1, r2

OwnRole == (s1 :> r1) @@ (s2 :> r2)
SharedRole == (s1 :> r1) @@ (s2 :> r1)

MCNames == {"draft", "check", "fix", "gone", "someone", "a", "b"}

Guide(target, gte, lt) == [target |-> target, confidence_gte |-> gte, confidence_lt |-> lt]
Split(t, u) == <<Guide(t, 50, Unset), Guide(u, Unset, 50)>>
Overlap(t, u) == <<Guide(t, 50, Unset), Guide(u, 0, Unset)>>

Phase(id, kind, complete, approve, back, routing, human) ==
  [phase_id |-> id, role_id |-> id, kind |-> kind, on_complete |-> complete,
   on_approve |-> approve, can_request_changes_from |-> back,
   context_sources |-> Unset, role_overrides |-> Unset, routing |-> routing,
   human |-> human]

Drafts ==
  {Phase("draft", "executor", complete, <<>>, <<>>, routing, FALSE) :
     complete \in {<<>>, <<"check">>, <<"check", "fix">>},
     routing \in {<<>>, Split("check", "fix"), Overlap("check", "fix"),
                  <<Guide("check", 50, Unset)>>, Split("check", "gone")}}
    \union {Phase("draft", "executor", <<"check">>, <<"check">>, <<>>, <<>>, FALSE),
            Phase("draft", "executor", <<"gone">>, <<>>, <<>>, <<>>, FALSE),
            Phase("draft", "executor", <<"fix">>, <<>>, <<>>, <<>>, FALSE)}

Checks ==
  {Phase("check", "review", <<>>, approve, back, routing, human) :
     approve \in {<<>>, <<"fix">>, <<"fix", "draft">>},
     back \in {<<>>, <<"draft">>, <<"draft", "fix">>, <<"gone">>},
     routing \in {<<>>, Split("fix", "draft")},
     human \in BOOLEAN}
    \union {Phase("check", "review", <<"fix">>, <<>>, <<>>, <<>>, FALSE),
            Phase("draft", "review", <<>>, <<>>, <<>>, <<>>, FALSE)}

Fixes ==
  {Phase("fix", "executor", complete, <<>>, <<>>, <<>>, human) :
     complete \in {<<>>, <<"check">>}, human \in BOOLEAN}

Bindings(phases) ==
  [p \in Ids(phases) |-> IF p = "check" THEN "review" ELSE "executor"]

Setup(discovery, require, phases, running) ==
  [discovery |-> discovery, require_human_approval |-> require, phases |-> phases,
   graph |-> Unset, bindings |-> Bindings(phases), children |-> {"a"},
   running |-> running]

\* The configuration whose executor two sessions run at a time.
Pair == Setup(FALSE, FALSE,
  <<Phase("draft", "executor", <<>>, <<>>, <<>>, <<>>, FALSE)>>, {s1, s2})

\* Details that one phase is enough for.
Lone ==
  LET one == Phase("draft", "executor", <<>>, <<>>, <<>>, <<>>, FALSE)
  IN {Setup(FALSE, FALSE, <<phase>>, {s1}) : phase \in
        {one, [one EXCEPT !.role_overrides = "invalid"],
         [one EXCEPT !.context_sources = {"a"}],
         [one EXCEPT !.context_sources = {"b"}],
         [one EXCEPT !.role_id = "someone"], [one EXCEPT !.role_id = Unset]}}
     \union {Setup(FALSE, FALSE, <<>>, {s1}),
             [Setup(FALSE, FALSE, <<>>, {s1}) EXCEPT !.graph = <<one>>]}

MCSetups ==
  {Pair} \union Lone
    \union {Setup(FALSE, FALSE, <<draft, check, fix>>, {s1}) :
              draft \in Drafts, check \in {c \in Checks : ~c.human},
              fix \in {f \in Fixes : ~f.human /\ f.on_complete = <<>>}}
    \union {Setup(TRUE, require, <<draft, check, fix>>, {s1}) :
              require \in BOOLEAN, draft \in {d \in Drafts : d.routing = <<>>},
              check \in {c \in Checks : c.routing = <<>> /\ Len(c.on_approve) < 2}, fix \in Fixes}

Ref(name, md) == [ref |-> name, md |-> md]
Output(score, artifacts, refs) ==
  [confidence_score |-> score, artifacts |-> artifacts, key_artifacts |-> refs]
Answer(decision, score, critical, high, target) ==
  [decision |-> decision, confidence_score |-> score, critical |-> critical,
   high |-> high, target_phase |-> target]

Piece(answer, json, fenced, one_line) ==
  [answer |-> answer, json |-> json, fenced |-> fenced, one_line |-> one_line]
Part(fenced, one_line) == Piece(Unset, TRUE, fenced, one_line)
Broken(fenced) == Piece(Unset, FALSE, fenced, FALSE)

\* The ways a model delivers an answer, or fails to.
Deliveries(answer) ==
  {<<Piece(answer, TRUE, FALSE, TRUE)>>,
   <<Part(TRUE, FALSE), Piece(answer, TRUE, TRUE, FALSE)>>,
   <<Broken(TRUE), Piece(answer, TRUE, FALSE, FALSE)>>,
   <<Part(FALSE, FALSE), Piece(answer, TRUE, FALSE, TRUE)>>,
   <<Part(FALSE, TRUE), Piece(answer, TRUE, FALSE, TRUE)>>,
   <<Part(FALSE, TRUE), Piece(answer, TRUE, TRUE, FALSE)>>}
Plain(answer) == <<Piece(answer, TRUE, FALSE, TRUE)>>

MCExecutorTexts ==
  Deliveries(Output(50, <<>>, <<Ref("x", TRUE), Ref("y", FALSE), Ref("z", TRUE)>>))
    \union {Plain(Output(49, <<>>, <<Ref("y", FALSE)>>)),
            Plain(Output(50, <<[ref |-> Ref("w", TRUE), content |-> "text"]>>,
                         <<Ref("x", TRUE)>>)),
            Plain(Output(50, <<>>, <<Ref("x", TRUE), Ref("x", TRUE)>>)),
            <<Broken(FALSE)>>}

MCReviewerTexts ==
  {Plain(Answer(decision, score, findings[1], findings[2], target)) :
     decision \in {"APPROVE", "REQUEST_CHANGES"}, score \in {49, 50},
     findings \in {<<0, 1>>, <<0, 2>>, <<1, 0>>}, target \in {NoPhase, "draft", "fix"}}
    \union {<<Broken(TRUE)>>}

MCFileTexts == {Plain("text"), Plain("empty"), Plain("json"), <<Part(FALSE, TRUE)>>}

MCGates == [critical |-> 0, high |-> 1]

===============================================================================
