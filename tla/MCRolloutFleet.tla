--------------------------- MODULE MCRolloutFleet ---------------------------
(* Small instances of RolloutFleet.  EvidenceSteps makes every stage wait   *)
(* for samples; CommandSteps needs none, and an approval for its first     *)
(* stage.                                                                  *)
EXTENDS RolloutFleet

EvidenceSteps == << [duration |-> 1, min_requests |-> 1, approval |-> FALSE],
                    [duration |-> 0, min_requests |-> 2, approval |-> FALSE] >>

CommandSteps  == << [duration |-> 1, min_requests |-> 0, approval |-> TRUE],
                    [duration |-> 0, min_requests |-> 0, approval |-> FALSE] >>
=============================================================================
