SPECIFICATION LibrarySpec
CONSTANTS
  Part = {"heap"}
  TableKey = {1, 2, 3}
  hashId <- HashIds
  TableSize = 2
  Table = {h1, h2}
  TableVal = {7, 8}
  Reassign = FALSE
  Addr = {1, 2, 3, 4, 5, 6, 7, 8, 9, 10, 11, 12, 13, 14, 15, 16, 17, 18, 19, 20}
  Variable = {a, b}
  HashKey = {"j", "k"}
  Literal <- Literals_
  MaxSpent = 2
  Script <- Scripts
  UrlText <- UrlTexts
  SubName <- SubNames
  Place <- Locations
  Found <- FoundServices
  Ip <- Ips
  MaxPath = 6
  DataByte <- MidiBytes
  Channel = {0, 17}
  Raw <- RawMessages
  MidiType = {128, 144, 224, 248, 255}
SYMMETRY Names
INVARIANT MergedAsTold
CHECK_DEADLOCK FALSE
