SPECIFICATION StartupSpec
CONSTANTS
  Normal <- MCNormal
  Numbers <- MCNumbers
  Urls <- MCUrls
  Sources <- MCSources
  Drafts <- MCDrafts
  JsonFiles <- MCJsonFiles
  YamlFiles <- MCYamlFiles
  Contents <- MCContents
  Absent = "absent"
  Documents <- MCDocuments
  Undecodable = {"latin1"}
  NotAMapping = "no mapping"
  DirectoryThere = {"here"}
  MaxEdits = 1
INVARIANTS
  WholeOrNothing
  
  BootLoads
CHECK_DEADLOCK FALSE
