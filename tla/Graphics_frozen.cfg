CONSTANTS
  MAX_REGISTERED_APPS = 3
  GraphicsPlatform = "wasm"
  MaxApps = 3
SPECIFICATION FairGraphicsSpec
PROPERTIES
  LastBecomesActive
CHECK_DEADLOCK FALSE
