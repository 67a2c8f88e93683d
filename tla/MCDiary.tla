------------------------------ MODULE MCDiary -------------------------------
\* Instances of Diary for TLC.
EXTENDS Diary, TLC

AnyConversation == Permutations(Conv)
=============================================================================
