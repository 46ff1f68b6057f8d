----------------------------- MODULE MCContextPack -----------------------------
(***************************************************************************)
(* A parent that may compose a child once or twice, or itself, a child     *)
(* that composes the parent, with or without discovery documents, and a    *)
(* role call over each.                                                    *)
(***************************************************************************)
EXTENDS ContextPack

FileOf(name, kind, size, noise) ==
  [name |-> name, kind |-> kind, size |-> size, noise |-> noise, listed |-> TRUE, text |-> TRUE]

Sketch == FileOf("request/a.md", "diagram", 8, 2)
Code == FileOf("request/c.md", "code", 8, 1)
Notes == FileOf("request/d.md", "list", 6, 0)
Nested == [FileOf("request/sub/b.md", "paragraph", 4, 0) EXCEPT !.listed = FALSE]
Image == [FileOf("request/e.png", "paragraph", 1, 0) EXCEPT !.text = FALSE]

PackIds == {"parent", "child"}

Meta(id, composition, finalized) ==
  [context_id |-> id, composition |-> composition, finalized |-> finalized, approved |-> FALSE]

PackMetadata ==
  [id \in PackIds |->
     IF id = "child" THEN {Meta("child", <<"parent">>, FALSE), Meta("other", <<>>, FALSE)}
     ELSE {Meta("parent", <<"child">>, FALSE), Meta("parent", <<"child", "parent">>, TRUE),
           Meta("parent", <<"child", "child">>, TRUE)}]

PackSnapshots ==
  {[request |-> {Sketch, Code},
    config |-> <<ConfigPath :> Unset, OriginPath :> [form |-> "whole"]>>],
   [request |-> {Notes, Nested}, config |-> <<>>]}

PackHandFiles == [id \in PackIds |-> IF id = "child" THEN {Image} ELSE {}]

Handoff(form, refs) == [form |-> form, sections |-> {"summary", "risks"}, refs |-> refs]

PackDocuments ==
  [id \in PackIds |->
     IF id = "child"
     THEN {HandoffPath :> Handoff("whole", {"request/a.md"}),
           OriginPath :> [form |-> "malformed"]}
     ELSE {HandoffPath :> Handoff("whole", {})}]

PackQuestions == [id \in PackIds |-> IF id = "child" THEN {"q1", "q2"} ELSE {}]

--------------------------------------------------------------------------------
Compression(mode, policies) == [mode |-> mode, policies |-> policies]

Injecting(files, children, blocked, allowed, max, compression) ==
  [include_request_files |-> files, include_discovery |-> files, include_children |-> children,
   file_blocklist |-> blocked, file_allowlist |-> allowed, max_file_chars |-> max,
   discovery_sections |-> {"summary"}, compression |-> compression]

Policies(collapsed, truncated) ==
  [code |-> [action |-> "collapse", limit |-> collapsed],
   diagram |-> [action |-> "collapse", limit |-> 6],
   list |-> [action |-> "truncate", limit |-> truncated]]

Injections ==
  LET none == Compression("none", <<>>)
      simple == Compression("simple", <<>>)
  IN {Injecting(TRUE, TRUE, {}, {}, Unset, none),
      Injecting(TRUE, FALSE, {}, {}, Unset, none),
      Injecting(FALSE, TRUE, {}, {}, Unset, none),
      Injecting(TRUE, TRUE, {"request/c.md"}, {}, Unset, simple),
      Injecting(TRUE, TRUE, {}, {"request/c.md"}, 4, simple),
      Injecting(TRUE, TRUE, {}, {}, -3, none),
      Injecting(TRUE, TRUE, {}, {}, Unset, Compression("semantic", <<>>)),
      Injecting(TRUE, TRUE, {}, {}, 4, Compression("semantic", Policies(6, 0))),
      Injecting(TRUE, TRUE, {}, {}, Unset, Compression("semantic", Policies(1, 2))),
      Injecting(TRUE, TRUE, {}, {}, Unset, Compression("semantic", Policies(-9, -2)))}

Entry(phase, ended) == [phase_id |-> phase, ended_at |-> ended]

History(iterations, reviews) ==
  [iterations |-> iterations, reviews |-> reviews,
   previous_decision |-> IF reviews = <<>> THEN Unset ELSE Last(reviews)]

Histories ==
  {History(<<Entry("draft", 1), Entry("polish", 3)>>, <<Entry("check", 2)>>),
   History(<<Entry("draft", 1), Entry("draft", 3), Entry("draft", 5)>>,
           <<Entry("check", 2), Entry("check", 4)>>),
   History(<<Entry("draft", 1), Entry("polish", 2)>>, <<Entry("check", 2), Entry("check", 3)>>)}

Efficiency(filter, max) ==
  [phase_filter |-> filter, max_history_entries |-> max,
   schema_format |-> "none", output_budget |-> filter]

AuthorRole ==
  [configured |-> TRUE, categories |-> TRUE, quality_gates |-> FALSE,
   workflow_categories |-> TRUE, structured |-> FALSE]

Setting(sources, injection, phase, history, efficiency) ==
  [sources |-> sources, injection |-> injection, phase_id |-> phase, history |-> history,
   efficiency |-> efficiency, role |-> AuthorRole,
   kind |-> IF phase = "check" THEN "review" ELSE "executor"]

PackSettings ==
  LET whole == Injecting(TRUE, TRUE, {}, {}, Unset, Compression("none", <<>>))
      over == Efficiency(TRUE, 1)
  IN {Setting(Unset, injection, "draft", History(<<>>, <<>>), over) : injection \in Injections}
     \union {Setting({}, whole, "check", history, over) : history \in Histories}
     \union {Setting({"child"}, whole, "draft", history, efficiency) :
               history \in Histories,
               efficiency \in {Efficiency(TRUE, Unset), over,
                               Efficiency(TRUE, 0), Efficiency(FALSE, 2)}}
===============================================================================
