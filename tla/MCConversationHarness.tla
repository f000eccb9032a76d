------------------------ MODULE MCConversationHarness ------------------------
EXTENDS ConversationHarness, TLC

CONSTANTS c1, b1

OneBinding == c1 :> b1

Symmetry == Permutations(Turns)

=============================================================================
