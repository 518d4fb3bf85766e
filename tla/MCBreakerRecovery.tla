-------------------------- MODULE MCBreakerRecovery -------------------------
\* Small instances of BreakerRecovery for TLC.
EXTENDS BreakerRecovery, TLC

=============================================================================
