SPECIFICATION Spec
CONSTANTS
  Runs = {cron, hand}
  Cron = cron
  Creators = 2
  MaxVideos = 2
  Limit = 1
  Captioned <- MCCaptioned
  Large <- MCLarge
  Backend = "openai_api"
  Installed = TRUE
  ApiKey = TRUE
  Attempts = 2
  MaxFaults = 2
INVARIANTS
  TypeOK
  BlockedIsNeverEmpty
PROPERTIES
  ImplementsArchive
  EveryVideoIsSettled
