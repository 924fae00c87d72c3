SPECIFICATION FairSpec
CONSTANTS
  Faults = {"write", "remove", "rename", "flush"}
  MaxJobs = 3
INVARIANTS
  TypeOK
  ResultIsTrue
  ChannelsAgree
PROPERTIES
  AnswerStands
  HelperEnds
CHECK_DEADLOCK FALSE
