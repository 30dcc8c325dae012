SPECIFICATION FairSpec
CONSTANTS
  t1 = t1
  t2 = t2
  t3 = t3
  Threads <- MCThreads
  Calls <- AllCalls
INVARIANTS OneWriter
PROPERTIES SomeoneEnters
