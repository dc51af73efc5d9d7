--------------------------- MODULE MCSecureLayer ---------------------------
EXTENDS SecureLayer
=============================================================================
