--------------------------- MODULE MCEngineRecord ---------------------------
\* Three queries of this computer and one of a phone.
EXTENDS EngineRecord

CONSTANTS q1, q2, q3, phone

=============================================================================
