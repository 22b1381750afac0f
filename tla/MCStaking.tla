----------------------------- MODULE MCStaking -----------------------------
EXTENDS Staking
CONSTANTS alice, bob
\* Two users, each with Supply tokens at first.
MCAccounts == {alice, bob}
=============================================================================
