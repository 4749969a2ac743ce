SPECIFICATION Spec
CONSTANTS
  Chats = {"a", "b", "c"}
  ById <- MCById3
  Lengths = {1}
  ChatOf <- MCChatOf1
  MaxMade = 3
  MaxSent = 0
  TornStarts = TRUE
INVARIANTS
  AnnouncedChatsAreThere
\* What is after a failed assertion is not looked at.
CHECK_DEADLOCK FALSE
