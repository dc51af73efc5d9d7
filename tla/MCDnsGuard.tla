----------------------------- MODULE MCDnsGuard -----------------------------
\* A cable and a Wi-Fi.
EXTENDS DnsGuard

CONSTANTS cable, wifi

=============================================================================
