SPECIFICATION Spec
CONSTANTS
  Handlers = {"h1", "h2"}
  Paths = {"p", "default"}
  DefaultPath = "default"
  Flag = "p"
  EnvPath = None
  EnvCity = 7
  EnvASN = 0
  EnvWebhook = 3
  Documents <- MCDocuments
  MaxLoads = 2
  MaxEdits = 1
  None = None

PROPERTY CompressIsHonoured
CHECK_DEADLOCK FALSE
