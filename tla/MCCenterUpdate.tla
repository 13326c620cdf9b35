--------------------------- MODULE MCCenterUpdate ---------------------------
(* Two actions, a document and a subscription; the candidate may refuse one
   action and the subscription. *)
EXTENDS CenterUpdate

CONSTANTS a1, a2, d1, s1

MCTasks == {a1, a2, d1, s1}
MCKind == [t \in MCTasks |-> CASE t \in {a1, a2} -> "action" [] t = d1 -> "document"
                               [] t = s1 -> "subscribe"]
MCRefusable == {a1, s1}
=============================================================================
