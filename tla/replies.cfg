SPECIFICATION LiveSpec
CONSTANTS
  MaxReplies = 16
  Room = 4
  Unsendable = {3, 4, 9}
CHECK_DEADLOCK FALSE
INVARIANTS InOrder NothingForgotten ArmedWhileQueued
PROPERTIES EveryReplyLeaves
