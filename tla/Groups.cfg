SPECIFICATION GroupSpec
CONSTANTS
  Members <- MCMembers
  Rosters <- MCRosters
  LossyRosters <- MCLossyRosters
  None = None
  MaxSeats = 4
  MaxLost = 1
INVARIANTS GroupTypeOK NoGlare OnlyJoiners CameraInRoom
PROPERTIES MeshSettles
CHECK_DEADLOCK FALSE
