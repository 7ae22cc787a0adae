------------------------ MODULE MCConversationTrial ------------------------
(* ConversationTrial at the sizes of the .cfg files beside it.             *)
EXTENDS ConversationTrial
=============================================================================
