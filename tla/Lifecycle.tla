------------------------------ MODULE Lifecycle ------------------------------
(***************************************************************************)
(* The states a development can be in, the transitions the orchestrator    *)
(* allows between them, and where each gate leads.  Constant definitions   *)
(* only: Development, RunControl and their proofs are written over them.   *)
(***************************************************************************)

Working == {"backlog", "architecture", "design", "developing", "build_gate",
            "review", "qa", "devops", "reconcile"}

Gates == {"awaiting_backlog_approval", "awaiting_architecture_approval",
          "awaiting_design_approval", "awaiting_review_approval",
          "awaiting_test_approval", "awaiting_deploy_approval",
          "awaiting_reconcile_approval", "awaiting_decision"}

Terminal == {"done", "failed", "cancelled"}

JobState == Working \cup Gates \cup Terminal
              \cup {"created", "awaiting_builder", "paused"}

Redirectable == {"developing", "build_gate", "review", "awaiting_decision",
                 "awaiting_review_approval", "awaiting_builder",
                 "awaiting_design_approval"}

\* The states whose place in the plan a pull can change.
Building == {"design", "awaiting_design_approval", "developing", "build_gate",
             "review", "awaiting_review_approval", "awaiting_builder",
             "reconcile", "awaiting_reconcile_approval"}

Pausable == JobState \ (Terminal \cup {"paused", "created"})

\* What a step or an answer may lead to, before the edges every state shares.
Forward ==
  [ created |-> {"backlog"},
    backlog |-> {"awaiting_backlog_approval", "architecture"},
    awaiting_backlog_approval |-> {"backlog", "architecture"},
    architecture |-> {"awaiting_architecture_approval"},
    awaiting_architecture_approval |-> {"architecture", "design", "developing"},
    design |-> {"developing"},
    developing |-> {"build_gate", "awaiting_design_approval",
                    "awaiting_builder", "architecture"},
    awaiting_builder |-> {"developing", "build_gate", "architecture"},
    awaiting_design_approval |-> {"developing", "design", "architecture"},
    build_gate |-> {"developing", "review", "qa", "awaiting_builder",
                    "architecture", "done"},
    review |-> {"developing", "qa", "awaiting_review_approval", "architecture"},
    awaiting_review_approval |-> {"developing", "qa", "architecture"},
    qa |-> {"awaiting_test_approval"},
    awaiting_test_approval |-> {"qa", "devops"},
    devops |-> {"awaiting_deploy_approval", "done"},
    awaiting_deploy_approval |-> {"devops"},
    reconcile |-> {"awaiting_reconcile_approval"},
    awaiting_reconcile_approval |-> {"developing", "qa", "reconcile"},
    awaiting_decision |-> Working,
    paused |-> Pausable,
    done |-> {"build_gate", "qa", "devops"},
    failed |-> Working,
    cancelled |-> {} ]

Allowed(from) ==
  Forward[from]
    \cup (IF from \in Working THEN {"failed", "awaiting_decision"} ELSE {})
    \cup (IF from \in Terminal THEN {} ELSE {"cancelled"})
    \cup (IF from \in Pausable THEN {"paused"} ELSE {})

Legal(from, to) == to \in Allowed(from)

\* (state on approve, state on reject) of the gates that always lead to the
\* same place; the others are decided from the development's own data.
ApprovalEdge ==
  [ awaiting_backlog_approval      |-> <<"architecture", "backlog">>,
    awaiting_architecture_approval |-> <<"developing", "architecture">>,
    awaiting_design_approval       |-> <<"developing", "design">>,
    awaiting_review_approval       |-> <<"developing", "developing">>,
    awaiting_test_approval         |-> <<"devops", "qa">>,
    awaiting_deploy_approval       |-> <<"devops", "devops">>,
    awaiting_reconcile_approval    |-> <<"developing", "reconcile">> ]
==============================================================================
