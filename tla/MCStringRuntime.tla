---------------------------- MODULE MCStringRuntime ----------------------------
EXTENDS StringRuntime

CONSTANT MaxRisks    \* bound: kinds of risky statement in one program

FewRisks == Cardinality(risks) <= MaxRisks
===============================================================================
