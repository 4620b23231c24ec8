SPECIFICATION FileSystemSpec
CONSTANTS
  Names = {"a", "b"}
  SymloopMax = 2
  StackMax = 6
  WalkMax = 12
  LinkTargets <- ToTheSide
  MaxSegments = 2
  MaxDentries = 6
  MaxMounts = 2
  Width = 8
  Processes <- McProcesses
INVARIANTS TreeSound PathnamesLeadBack ContentsSound
PROPERTIES OperationsExact DescriptorsKept
CHECK_DEADLOCK FALSE
