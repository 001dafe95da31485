SPECIFICATION Spec
CONSTANTS
  r1 = r1
  r2 = r2
  r3 = r3
  r4 = r4
  office = office
  guest = guest
  other = other
  Requests = {r1, r2, r3}
  Workspaces <- MCWorkspaces
  Emails <- MCEmails
  Calls <- MCCalls
  Validity = 1
  MaxTime = 3
  MaxActive = 1
INVARIANT OneLiveInvitation
CHECK_DEADLOCK FALSE
