--------------------------- MODULE MCSecureFiles ---------------------------
EXTENDS SecureFiles
=============================================================================
