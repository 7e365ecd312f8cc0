---------------------------- MODULE MCExperiment ----------------------------
(* The goroutines that issue commands during an experiment, and experiments of *)
(* two baseline attempts without ODA and of one with it, in either mode.        *)
EXTENDS Experiment

MCCallers == {"runner", "oda"}
MCExperiments ==
    {[runs |-> 2, oda |-> FALSE, dia |-> FALSE]} \cup [runs : {1}, oda : {TRUE}, dia : BOOLEAN]
MCTwoWithOda == {[runs |-> 2, oda |-> TRUE, dia |-> TRUE]}
MCOneWithOda == {[runs |-> 1, oda |-> TRUE, dia |-> TRUE]}
=============================================================================
