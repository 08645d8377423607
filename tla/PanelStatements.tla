--------------------------- MODULE PanelStatements ---------------------------
(* What the repository says of the dispute instructions and the code does  *)
(* not keep, as properties.                                                *)
EXTENDS DisputePanel

(* What a tally counts that is shown accounts of votes cast and no other.  *)
Count(d, shown, verdict) == Cardinality({v \in shown : vote[d][v] = verdict})

(* tally_panel: "Count votes, resolve by majority" (README.md).  Even such *)
(* a tally never decides for the side with fewer of the votes cast.        *)
PanelMajority ==
  [][\A d \in Disputes :
       (\E shown \in SUBSET Verifiers :
          TallyPanel(d, Count(d, shown, 1), Count(d, shown, 2))) =>
         (Count(d, Verifiers, 1) > Count(d, Verifiers, 2)
            => dispute'[d].status = "AGENT_WINS")]_allVars

=============================================================================
