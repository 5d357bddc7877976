CONSTANTS
  l1 = l1
  l2 = l2
  l3 = l3
  pcl_data_type = pcl_data_type
  blind_spot_set = blind_spot_set
  Lidar <- MCLidar
  Key <- MCKey
  Files <- MCFileFar
  kMaxSourceLidar = 2
  MayRefuse = FALSE
  MaxInfo <- MCMaxInfoTwo
  MayRestart = {}
SPECIFICATION Spec
INVARIANT
  SetAsWritten
CHECK_DEADLOCK FALSE
