CONSTANTS
  bus = bus
  sync = sync
  boot = boot
  Clients <- MCClients
  Deserters <- MCDeserters
  Threshold = 2
  Cooldown = 2
SPECIFICATION ClientsFairSpec
INVARIANTS
  OneProbePerEpisode
PROPERTIES
  CooldownRespected
  PlaneRecovers
CHECK_DEADLOCK FALSE
