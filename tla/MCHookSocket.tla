---------------------------- MODULE MCHookSocket ----------------------------
EXTENDS HookSocket
=============================================================================
