------------------------------ MODULE MCEgress ------------------------------
EXTENDS Egress, TLC

CONSTANT Second

ASSUME SecondAssumption == Second \in Egresses

\* The bound: the second recording is followed until it is spawned, with its
\* place taken, refused or leaked, while all of the first goes on.
SecondIsStarting ==
    handlerPc[Second] # "replied" /\ startPc[Second] \in {"idle", "calling"}
=============================================================================
