CONSTANTS
  c1 = c1
  c2 = c2
  c3 = c3
  x = x
  y = y
  n = n
  Clients <- MCClients
  Flags <- MCFlags
  Counter = n
  Asked <- MCAsked
SPECIFICATION MCFairSpec
INVARIANTS TypeOK ToldIsTrue NoSkewWhenAsked ConflictIsRetried
PROPERTIES EveryoneFinishes
