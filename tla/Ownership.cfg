SPECIFICATION FairSpec
CONSTANTS
  u1 = u1
  u2 = u2
  app1 = app1
  app2 = app2
  org = org
  amd64 = amd64
  Units = {u1, u2}
  Creds = {app1, app2}
  Contested = {app1}
  Ents = {org}
  Arches = {amd64}
  Nothing = Nothing
  MaxEdits = 1
INVARIANTS AgentsServed
PROPERTIES AdminsKept SettlesForGood
