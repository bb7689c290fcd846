SPECIFICATION FairSpec
CONSTANTS
  a = a
  b = b
  Subs = {s1, s2}
  Topics <- MCTopics
  TopicLists <- MCTopicLists
  BufferSize = 2
  MaxEvents = 4
INVARIANTS
  TypeOK
  LossIsAnnounced
  InOrderOnce
PROPERTY EverySettled
CHECK_DEADLOCK FALSE
