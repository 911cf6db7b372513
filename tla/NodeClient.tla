----------------------------- MODULE NodeClient -----------------------------
(***************************************************************************)
(* clients/nodeClient.ts: which of its methods give up in time, how a      *)
(* stream is collected and how an upload is cut into frames.  A method is  *)
(* one request: it forwards its arguments and returns the answer, or       *)
(* throws what went wrong under a name of its own.                         *)
(***************************************************************************)
EXTENDS Integers, Sequences

CONSTANTS
  UPLOAD_CHUNK_BYTES,   \* bytes of one upload frame
  maxBytes              \* cap of serviceLogs

ASSUME NodeClientAssumption ==
  /\ UPLOAD_CHUNK_BYTES \in Nat \ {0}
  /\ maxBytes \in Nat \ {0}

-----------------------------------------------------------------------------
(***************************************************************************)
(* Methods that pass AbortSignal.timeout(timeout) on.                      *)
(***************************************************************************)
MetadataMethods ==
  {"status", "findProviderForString", "getComputeEnvironments", "resolveDdo",
   "validateDdo", "getNodeJobs", "getNonce", "getFileInfo"}

ComputeMethods == {"initializeCompute", "computeStart", "freeComputeStart"}

JobMethods == {"computeStop", "computeStatus", "downloadNodeLogs"}

StorageMethods ==
  {"createPersistentStorageBucket", "getPersistentStorageBuckets",
   "listPersistentStorageFiles", "getPersistentStorageFileObject",
   "deletePersistentStorageFile"}

AccessMethods ==
  {"encryptBlob", "checkDidFiles", "createAuthTokenWithSigner",
   "policyServerPassthrough", "initializePolicyServerVerification"}

FeeMethods == {"getDownloadFees"}

NodeMethods ==
  {"findComputeProviders", "getNodeMetrics", "getNodeMetricsHistory",
   "isValidProvider"}

ByteMethods ==
  {"computeStreamableLogsBase64", "uploadPersistentStorageFile", "serviceLogs"}

ServiceMethods ==
  {"getServiceTemplates", "serviceStart", "getServiceStatus", "getServices",
   "serviceExtend", "serviceRestart", "serviceStop"}

AbortedMethods ==
  UNION {MetadataMethods, ComputeMethods, JobMethods, StorageMethods,
         AccessMethods, FeeMethods, NodeMethods, ByteMethods, ServiceMethods}

\* Methods that race the answer against a timer, withTimeout.
ConfigMethods == {"fetchNodeConfig", "pushNodeConfig"}

RacedMethods == {"downloadAssetFileBase64"} \cup ConfigMethods

\* Methods that wait for as long as it takes; getComputeResultBase64 has a
\* timeout it does not use.
WaitingMethods ==
  {"getComputeResultBase64", "resolvePeerMultiaddr", "listDiscoveredPeers",
   "cidFromRawString"}

\* Either kind of timer ends the wait and cancels nothing at the node.
Timed(method) == method \in AbortedMethods \cup RacedMethods

\* Methods whose answer is a stream, drained before they return.
Streamed(method) ==
  method \in {"computeStreamableLogsBase64", "getComputeResultBase64", "serviceLogs"}

-----------------------------------------------------------------------------
(***************************************************************************)
(* collectStream.  A body is a sequence of bytes; whether they are answered*)
(* as base64 or, by serviceLogs, as text if they are text, is left out.    *)
(***************************************************************************)
NothingCollected == [bytes |-> <<>>, totalRead |-> 0, truncated |-> FALSE]

FirstBytes(frame, n) == SubSeq(frame, 1, n)

\* Faulty variant: a body that ends exactly at the cap counts as cut.
CollectUpToTheCap(got, frame, capped) ==
  LET room == maxBytes - Len(got.bytes)
      cut == capped /\ Len(frame) >= room
  IN [bytes |-> got.bytes \o (IF cut THEN FirstBytes(frame, room) ELSE frame),
      totalRead |-> got.totalRead + Len(frame), truncated |-> cut]

\* Faulty variant: the frame that passes the cap is kept whole.
CollectWholeFrames(got, frame, capped) ==
  [bytes |-> got.bytes \o frame, totalRead |-> got.totalRead + Len(frame),
   truncated |-> capped /\ Len(got.bytes) + Len(frame) > maxBytes]

\* One frame: kept, or cut at the cap, where collection stops.
Collect(got, frame, capped) ==
  LET room == maxBytes - Len(got.bytes)
      cut == capped /\ (room = 0 \/ Len(frame) > room)
  IN [bytes |-> got.bytes \o (IF cut THEN FirstBytes(frame, room) ELSE frame),
      totalRead |-> got.totalRead + Len(frame), truncated |-> cut]

\* chunkedUint8: the frames of an upload, none for an empty file.
chunkedUint8(bytes) ==
  [n \in 1..((Len(bytes) + UPLOAD_CHUNK_BYTES - 1) \div UPLOAD_CHUNK_BYTES) |->
     LET off == (n - 1) * UPLOAD_CHUNK_BYTES
         end == off + UPLOAD_CHUNK_BYTES
     IN SubSeq(bytes, off + 1, IF end < Len(bytes) THEN end ELSE Len(bytes))]
=============================================================================
