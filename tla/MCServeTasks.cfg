SPECIFICATION FairSpec
CONSTANTS
  Tasks = {t1, t2}
  t1 = t1
  t2 = t2
  build = build
  extra = extra
  n1 = n1
  n2 = n2
  Proxied = {build}
  Unknown = {extra}
  Skill <- SkillOf
  Names = {n1, n2}
  None = None
  Requests <- AllRequests
  MaxEdition = 2
  MaxStops = 1
INVARIANTS
  TypeOK
  OnlyAsAsked
  OwnFailureOnly
  NoLyingCard
PROPERTIES
  StartsWhenServed
  TasksAnswered
