CONSTANTS
  a = a
  b = b
  Source = {"cash"}
  Content <- MCContent
  Writer = {"loop"}
  NoContent = NoContent
  NoManifest = NoManifest
  MaxDay = 3
  DetailedDays = 1
  CompletedDays = 2
  RetentionExclusive = TRUE
  Crashes = TRUE
SPECIFICATION Spec
INVARIANTS
  TypeOK
  LastGoodReadable
  ManifestContentsReadable
  ManifestGenerationsAgree
