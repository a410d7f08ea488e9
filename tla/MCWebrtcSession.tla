-------------------------- MODULE MCWebrtcSession --------------------------
EXTENDS WebrtcSession
=============================================================================
