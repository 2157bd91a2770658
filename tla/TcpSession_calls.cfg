CONSTANTS
  boss = boss
  guest = guest
  away = away
  secret = secret
  wrong = wrong
  Users <- Everyone
  NoUser = NoUser
  Passwords = {secret, wrong}
  Password <- OnePassword
  Words <- ThreeRights
  Remotes <- Homes
  Host <- Here
  MaxCommands = 3
  MaxEvents = 2
  MaxFaults = 1
  MaxDown = 1
SPECIFICATION FairSpec
CHECK_DEADLOCK FALSE
INVARIANTS TypeOK OwnAnswer EventsArrive
PROPERTIES CallReturns SessionEnds
