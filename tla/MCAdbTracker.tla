---------------------------- MODULE MCAdbTracker ----------------------------
EXTENDS AdbTracker
=============================================================================
