\* Two calls of every tool for one consumer at one node.
\* Fairness of the server alone: no symmetry.
SPECIFICATION FairSpec
CONSTANTS
  c1 = c1
  c2 = c2
  Calls = {c1, c2}
  Bodies <- MCBodies
  UPLOAD_CHUNK_BYTES = 2
  maxBytes = 2
  MaxFrame = 2
  MaxPolls = 2
INVARIANTS
  TypeOK
  SerializedSignatureIsTaken
  BytesArriveWhole
PROPERTY EveryCallIsAnswered
\* Calls end, and some wait for good.
CHECK_DEADLOCK FALSE
