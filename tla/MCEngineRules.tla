---------------------------- MODULE MCEngineRules ----------------------------
\* Queries and terminals are model values of the configurations.
EXTENDS EngineRules

CONSTANTS q1, q2, terminal

=============================================================================
