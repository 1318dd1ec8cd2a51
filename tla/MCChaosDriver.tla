----------------------------- MODULE MCChaosDriver -----------------------------
\* One driver and a few orchestrators; base_url leads to the first of them.
EXTENDS ChaosDriver
=============================================================================
