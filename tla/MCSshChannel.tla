----------------------------- MODULE MCSshChannel -----------------------------
\* The configurations give every constant its value directly.
EXTENDS SshChannel
=============================================================================
