\* One server, two clients started for it by three tasks, two calls, one
\* connection lost.  The host may stop asking: no deadlock check.
SPECIFICATION FairSpec
CONSTANTS
  Clients = {1, 2}
  Calls = {1, 2}
  NoCall = 0
  MaxDeaths = 1
  Servers = {s1}
  NoServer = noserver
  NoClient = 0
  Tasks = {1, 2, 3}
INVARIANTS TypeOK TablesAgree
PROPERTIES SeveredForGood NothingHangs
CHECK_DEADLOCK FALSE
