SPECIFICATION LoopSpec
CONSTANTS
  Chats <- MCChats
  ById <- MCById
  Lengths = {1, 2}
  ChatOf <- MCChatOf
  MaxMade = 2
  MaxSent = 1
  TornStarts = FALSE
  Messages = {1, 2, 3, 4}
  Peers = {"u", "v", "c"}
  Printed = {"u", "v"}
  PeerOf <- MCPeerOf
  MaxList = 2
  MaxBatch = 2
  MaxKeys = 5
  MaxAsks = 2
  MaxOne = 1
  Totals = {1, 2}
  Names = {"stats", "user_info", "add_contact", "broadcast", "chat_add_user",
           "channel_set_about", "create_channel", "create_group_chat", "fwd", "help",
           "history", "msg_kbd", "reply_audio", "search", "send_photo", "set", "start_bot"}
  Lines <- MCLines
  Heads <- MCHeads
  MaxArgs = 12
INVARIANTS
  LoadsUnlessOutgrown
  StateNotAhead
  AckedNotSentAgain
  KeysGoWhereTyped
  MarksAddUp
  FittingLinesRun
  ArgumentsAreDeclared
PROPERTIES
  RestartRestores
\* Each part but the files comes to an end, and a failed assertion ends those.
CHECK_DEADLOCK FALSE
