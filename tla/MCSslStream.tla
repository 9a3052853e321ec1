---------------------------- MODULE MCSslStream ----------------------------
EXTENDS SslStream
=============================================================================
