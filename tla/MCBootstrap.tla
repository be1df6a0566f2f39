------------------------------ MODULE MCBootstrap ------------------------------
EXTENDS Bootstrap
=============================================================================
