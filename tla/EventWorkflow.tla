---------------------------- MODULE EventWorkflow ----------------------------
(***************************************************************************)
(* What the API promises of publishing, as if every request were decided   *)
(* in one step: an event is edited while it is a draft, leaves the drafts  *)
(* only when it is complete and its organizer has been vetted, skips the   *)
(* review only after enough other publications, keeps the moment of its    *)
(* first publication for good, and comes back as a draft.                  *)
(***************************************************************************)
EXTENDS Naturals, FiniteSets

CONSTANTS Events, Moments, Never,
          Unreviewed          \* publications after which no review is needed

VARIABLES stage,              \* draft, under_review or published
          complete,           \* the events that lack nothing
          vetted,             \* the organizer has once been eligible
          first               \* the moment of the first publication, or Never

flowVars == <<stage, complete, vetted, first>>

FlowInit ==
    /\ stage = [e \in Events |-> "draft"]
    /\ complete = {}
    /\ vetted = FALSE
    /\ first = [e \in Events |-> Never]

Vet ==
    /\ vetted' = TRUE
    /\ UNCHANGED <<stage, complete, first>>

Edit(e) ==
    /\ stage[e] = "draft"
    /\ complete' \in {complete \cup {e}, complete \ {e}}
    /\ UNCHANGED <<stage, vetted, first>>

(* Nobody passes without a complete event and a vetted organizer.          *)
Pass(e, from, to) ==
    /\ stage[e] = from
    /\ e \in complete /\ vetted
    /\ stage' = [stage EXCEPT ![e] = to]
    /\ UNCHANGED <<complete, vetted>>

Submit(e) == Pass(e, "draft", "under_review") /\ UNCHANGED first

Show(e) ==
    \E m \in Moments : first' = [first EXCEPT ![e] = IF @ = Never THEN m ELSE @]

PublishedBefore == {e \in Events : first[e] # Never}

PublishUnreviewed(e) ==
    /\ Cardinality(PublishedBefore) > Unreviewed
    /\ Pass(e, "draft", "published")
    /\ Show(e)

PublishReviewed(e) == Pass(e, "under_review", "published") /\ Show(e)

Return(e) ==
    /\ stage[e] \in {"under_review", "published"}
    /\ stage' = [stage EXCEPT ![e] = "draft"]
    /\ UNCHANGED <<complete, vetted, first>>

FlowNext ==
    \/ Vet
    \/ \E e \in Events : \/ Edit(e) \/ Submit(e) \/ Return(e)
                         \/ PublishUnreviewed(e) \/ PublishReviewed(e)

FlowSpec == FlowInit /\ [][FlowNext]_flowVars
=============================================================================
