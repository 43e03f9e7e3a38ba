SPECIFICATION MCLiveSpec
CONSTANTS
  e1 = e1
  e2 = e2
  e3 = e3
  Entries <- ThreeEntries
  Nobody = nobody
  Passwords = {1, 2}
INVARIANTS CountIsExact PanelFollowsAccess BoundOnce ViewFollowsEntries ReauthIsDue
PROPERTIES EntryRecovers SetupGrants IssueSettles
CHECK_DEADLOCK FALSE
