SPECIFICATION FairSpec
CONSTANTS
  s1 = s1
  s2 = s2
  feature = feature
  nodeinfo = nodeinfo
  None = None
  Absent = Absent
  Servers <- MCServers
  Labels <- MCLabels
  NodeLabel = nodeinfo
  Values = {"true", "false"}
  Configs <- MCConfigs
  Healths <- MCHealths
INVARIANTS
  TypeOK
  OneTimer
  
  NoLabelLost
PROPERTIES
  
  LeavesWhenDisabled
