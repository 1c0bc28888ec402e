SPECIFICATION LaunchesSpec
CONSTANTS
  Paths = {launcher, target, other}
  Fingerprints <- Changes
  Launcher = launcher
  Inside = {target}
  MaxRecords = 3
  MaxChanges = 2
  None = None
CONSTRAINT FewRecords
INVARIANTS
  OneApprovalPerOperation
PROPERTIES
  LaunchesApproved
  NoStrictFallback
