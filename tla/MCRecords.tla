----------------------------- MODULE MCRecords ------------------------------
\* The instance of Records for TLC.
EXTENDS Records, TLC

AnyConversation == Permutations(Conv)
=============================================================================
