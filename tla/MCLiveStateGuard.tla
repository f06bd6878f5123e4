-------------------------- MODULE MCLiveStateGuard --------------------------
EXTENDS LiveStateGuard
=============================================================================
