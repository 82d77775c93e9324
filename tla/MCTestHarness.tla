--------------------------- MODULE MCTestHarness ---------------------------
(* TestHarness instantiated for TLC.                                       *)
EXTENDS TestHarness

CONSTANTS noenv

\* The one TEST() of the repository: db/version_edit_test.cc:38.
RegistrationsMC == {[cls |-> "VersionEditTest", m |-> "EncodeDecode"]}

\* What atoi returns for TEST_RANDOM_SEED: unset, INT_MIN (MSVC saturates
\* a too small value), a negative value, 0 (also any non-number), a small
\* seed, and INT_MAX (a too large value).
EnvValuesMC == {noenv, -2147483647 - 1, -5, 0, 7, 2147483647}
=============================================================================
