---------------------------- MODULE DurableSession ----------------------------
(***************************************************************************)
(* What the durable record of a session promises to whoever reads the      *)
(* store, whatever number of run() calls, crashes, pauses and injected     *)
(* decisions it has been through: the record changes only by the steps     *)
(* below, and each step is justified by the record itself, never by what   *)
(* some run() call holds in memory.  WorkflowEngine implements it.         *)
(***************************************************************************)
EXTENDS SessionState

CONSTANT Sessions

VARIABLE store    \* session id -> its record

Init == store = [s \in Sessions |-> Absent]

Running(s) == store[s].status = "in_progress"
Phase(s) == store[s].current_phase

\* A durable write to session s.
Becomes(s, session) == store' = [store EXCEPT ![s] = Revised(session)]

-------------------------------------------------------------------------------
\* The last entry of the current phase in a log, the justification of a move.
IsLast(log, p, i) ==
  i \in EntriesOf(log, p) /\ \A j \in EntriesOf(log, p) : j <= i

LastScore(s, score) ==
  \E i \in DOMAIN store[s].phase_iterations :
     /\ IsLast(store[s].phase_iterations, Phase(s), i)
     /\ store[s].phase_iterations[i].confidence_score = score

Judged(s, outcome) ==
  \E score \in Scores :
     /\ LastScore(s, score)
     /\ Outcome(Phase(s), score,
                CountOf(store[s].phase_iterations, Phase(s))) = outcome

LastDecision(s, decision) ==
  \E i \in DOMAIN store[s].reviews :
     /\ IsLast(store[s].reviews, Phase(s), i)
     /\ store[s].reviews[i].decision = decision

\* Phase(s) is done with, and the graph leads on to q.
MayMove(s, q) ==
  \/ q \in OnComplete[Phase(s)] /\ Judged(s, "route")
  \/ q \in OnApprove[Phase(s)] /\ LastDecision(s, "APPROVE")
  \/ q \in CanRequestChangesFrom[Phase(s)] /\ LastDecision(s, "REQUEST_CHANGES")

\* Phase(s) is done with, and the graph ends there.
MayComplete(s) ==
  \/ /\ Phase(s) \in Executors
     /\ OnComplete[Phase(s)] = {}
     /\ Judged(s, "route")
  \/ /\ Phase(s) \in Reviews
     /\ OnApprove[Phase(s)] = {}
     /\ LastDecision(s, "APPROVE")

-------------------------------------------------------------------------------
Create(s) ==
  /\ store[s].status = "absent"
  /\ store' = [store EXCEPT ![s] = Initialized]

Start(s) ==
  /\ store[s].status = "initialized"
  /\ \E m \in Metadata :
       Becomes(s, [store[s] EXCEPT !.status = "in_progress",
                                   !.run_metadata = m])

Iterate(s) ==
  /\ Running(s)
  /\ Phase(s) \in Executors
  /\ \E score \in Scores, handoff \in BOOLEAN :
       Becomes(s, WithIteration(store[s], [confidence_score |-> score,
                                           handoff |-> handoff]))

Review(s) ==
  /\ Running(s)
  /\ Phase(s) \in Reviews \ Human
  /\ \E decision \in Decisions, target \in Choices :
       Becomes(s, WithDecision(store[s], decision, target))

\* A person is asked; the answer takes the place of the stub.
Ask(s) ==
  /\ Running(s)
  /\ Phase(s) \in Reviews \cap Human
  /\ Becomes(s, WithReview(store[s], "PENDING", NoPhase))

Answer(s) ==
  /\ Running(s)
  /\ \E i \in DOMAIN store[s].reviews, decision \in Decisions,
        target \in Choices :
       /\ store[s].reviews[i].decision = "PENDING"
       /\ Becomes(s, WithAnswer(store[s], i, decision, target))

Move(s) ==
  /\ Running(s)
  /\ \E q \in Phases :
       /\ MayMove(s, q)
       /\ Becomes(s, [store[s] EXCEPT !.current_phase = q])

Complete(s) ==
  /\ Running(s)
  /\ MayComplete(s)
  /\ Becomes(s, [store[s] EXCEPT !.status = "completed"])

Fail(s) ==
  /\ Running(s)
  /\ Phase(s) \in Executors
  /\ Judged(s, "fail")
  /\ Becomes(s, [store[s] EXCEPT !.status = "failed"])

\* A cancelled run, a feedback cap, a discovery without its handoff.
Abandon(s) ==
  /\ Running(s)
  /\ Becomes(s, [store[s] EXCEPT !.status = "abandoned"])

Next ==
  \E s \in Sessions :
     \/ Create(s) \/ Start(s) \/ Iterate(s) \/ Review(s) \/ Ask(s)
     \/ Answer(s) \/ Move(s) \/ Complete(s) \/ Fail(s) \/ Abandon(s)

Spec == Init /\ [][Next]_store

===============================================================================
