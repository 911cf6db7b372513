\* One call of every tool.
SPECIFICATION Spec
CONSTANTS
  c1 = c1
  Calls = {c1}
  Bodies <- MCBodies
  UPLOAD_CHUNK_BYTES = 2
  maxBytes = 2
  MaxFrame = 2
  MaxPolls = 2
INVARIANT OneSignatureSuffices
CHECK_DEADLOCK FALSE
