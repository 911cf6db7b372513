----------------------------- MODULE NodeTools ------------------------------
(***************************************************************************)
(* The tools that talk to an ocean-node, tools/p2pProviderTools.ts and     *)
(* tools/serviceTools.ts: which method each one calls, how it authenticates*)
(* the caller and how often it sends.  Several calls for one consumer at   *)
(* one node overlap.  A secured request carries a token, or a signature    *)
(* over a nonce and the name of one command.                               *)
(*                                                                         *)
(* What a request is about is left out, and so is the verdict of the       *)
(* escrow gate, which PaidStart models; when a service settles is modelled *)
(* in ServiceStatus and here the node's choice.                            *)
(***************************************************************************)
EXTENDS NodeClient, SequencesExt

CONSTANTS
  Calls,      \* tool calls for one consumer at one node
  Bodies,     \* what a stream or an uploaded file may hold
  MaxFrame,   \* bound: bytes the node puts in a frame
  MaxPolls    \* bound: requests of one waiting serviceStatus

ASSUME NodeToolsAssumption ==
  /\ \A b \in Bodies : b \in Seq(Nat)
  /\ MaxFrame \in Nat \ {0} /\ MaxPolls \in Nat \ {0}

-----------------------------------------------------------------------------
(***************************************************************************)
(* Tools by the method they call, without authentication.                  *)
(***************************************************************************)
LookupTools ==
  [node_status |-> "status", find_compute_providers |-> "findComputeProviders",
   find_provider |-> "findProviderForString"]

EnvironmentTools ==
  [getComputeEnvironments |-> "getComputeEnvironments",
   get_node_metrics |-> "getNodeMetrics",
   get_node_metrics_history |-> "getNodeMetricsHistory", resolveDdo |-> "resolveDdo"]

NodeJobTools == [getNodeJobs |-> "getNodeJobs"]

QuoteTools == [getFileInfo |-> "getFileInfo", initializeCompute |-> "initializeCompute"]

FeeTools == [get_download_fees |-> "getDownloadFees"]

FileTools == [check_did_files |-> "checkDidFiles"]

PolicyTools ==
  [policy_server_passthrough |-> "policyServerPassthrough",
   policy_server_initialize_verification |-> "initializePolicyServerVerification"]

ConfigTools ==
  [fetch_node_config |-> "fetchNodeConfig", push_node_config |-> "pushNodeConfig",
   is_valid_provider |-> "isValidProvider"]

\* Of the server's own P2P stack.
PeerTools ==
  [resolve_peer_multiaddr |-> "resolvePeerMultiaddr",
   list_discovered_peers |-> "listDiscoveredPeers",
   cid_from_raw_string |-> "cidFromRawString"]

TemplateTools == [getServiceTemplates |-> "getServiceTemplates"]

PublicTools ==
  {LookupTools, EnvironmentTools, NodeJobTools, QuoteTools, FeeTools, FileTools,
   PolicyTools, ConfigTools, PeerTools, TemplateTools}

(***************************************************************************)
(* Tools that authenticate the caller.                                     *)
(***************************************************************************)
PaidTools == [computeStart |-> "computeStart", serviceStart |-> "serviceStart"]

JobTools ==
  [freeComputeStart |-> "freeComputeStart", computeStop |-> "computeStop",
   computeStatus |-> "computeStatus"]

ResultTools ==
  [getComputeResult |-> "getComputeResultBase64", downloadNodeLogs |-> "downloadNodeLogs"]

BucketTools ==
  [createPersistentStorageBucket |-> "createPersistentStorageBucket",
   getPersistentStorageBuckets |-> "getPersistentStorageBuckets",
   listPersistentStorageFiles |-> "listPersistentStorageFiles"]

BucketFileTools ==
  [getPersistentStorageFileObject |-> "getPersistentStorageFileObject",
   deletePersistentStorageFile |-> "deletePersistentStorageFile"]

DataTools ==
  [download_asset_file |-> "downloadAssetFileBase64", p2p_encrypt |-> "encryptBlob"]

DdoTools == [validateDdo |-> "validateDdo"]

ByteTools ==
  [compute_streamable_logs |-> "computeStreamableLogsBase64",
   upload_persistent_storage_file |-> "uploadPersistentStorageFile"]

ListTools == [getServices |-> "getServices"]

ServiceTools ==
  [serviceRestart |-> "serviceRestart", serviceStop |-> "serviceStop"]

LogTools == [serviceLogs |-> "serviceLogs"]

StatusTools == [serviceStatus |-> "getServiceStatus"]

ExtendTools == [serviceExtend |-> "serviceExtend"]

SecuredTools ==
  {PaidTools, JobTools, ResultTools, BucketTools, BucketFileTools, DataTools,
   DdoTools, ByteTools, ListTools, ServiceTools, LogTools, StatusTools, ExtendTools}

\* create_auth_token: a key signs, in the server.
MintTools == [create_auth_token |-> "createAuthTokenWithSigner"]

Tools == PublicTools \cup SecuredTools \cup {MintTools}

\* How a handler gets to its request: at once; after an escrow gate; after
\* asking the node about the service; or again and again until it settles.
Ways(t) ==
  IF t \in DOMAIN PaidTools THEN {"gated"}
  ELSE IF t \in DOMAIN ExtendTools THEN {"extend"}
  ELSE IF t \in DOMAIN StatusTools THEN {"single", "poll"}
  ELSE IF t \in DOMAIN MintTools THEN {"mint"}
  ELSE {"single"}

\* Tools that differ in none of these behave alike.
Kind(tools, t, way) ==
  [secured |-> tools \in SecuredTools, way |-> way, timed |-> Timed(tools[t]),
   streamed |-> Streamed(tools[t]), capped |-> t \in DOMAIN LogTools,
   uploads |-> t = "upload_persistent_storage_file"]

Kinds ==
  UNION {UNION {{Kind(tools, t, way) : way \in Ways(t)} : t \in DOMAIN tools} : tools \in Tools}

\* A consumer has a token or signs; for create_auth_token the server signs
\* with the consumer's key or a throwaway one.
Identities == {"token", "signature", "both", "neither", "key", "ephemeral"}

-----------------------------------------------------------------------------
VARIABLES
  nonce,      \* the consumer's nonce at the node
  pc,         \* where each call stands
  kind,       \* its kind of tool
  identity,   \* what it was given
  known,      \* the nonce its signature was made after
  step,       \* "lookup" or "main": which request is under way
  request,    \* where that request is
  polls,      \* requests sent so far
  body,       \* what the node streams, or the file uploaded
  sentTo,     \* bytes of the body the node has streamed
  got,        \* what has been collected, or stored by the node
  answer,     \* "ok", "error", "blocked" or "none"
  refused,    \* history: the node refused a request of the call
  overtaken   \* history: another signed request of the consumer was taken
              \* since the nonce was read

asked == <<kind, identity, body>>
stream == <<sentTo, got>>
history == <<refused, overtaken>>
vars == <<nonce, pc, asked, known, step, request, polls, stream, answer, history>>

PCs == {"idle", "read", "begun", "gating", "waiting", "streaming", "answered"}

Init ==
  /\ nonce = 0
  /\ pc = [c \in Calls |-> "idle"]
  /\ kind = [c \in Calls |-> Kind(LookupTools, "node_status", "single")]
  /\ identity = [c \in Calls |-> "neither"]
  /\ known = [c \in Calls |-> 0]
  /\ step = [c \in Calls |-> "main"]
  /\ request = [c \in Calls |-> "none"]
  /\ polls = [c \in Calls |-> 0]
  /\ body = [c \in Calls |-> <<>>]
  /\ sentTo = [c \in Calls |-> 0]
  /\ got = [c \in Calls |-> NothingCollected]
  /\ answer = [c \in Calls |-> "none"]
  /\ refused = [c \in Calls |-> FALSE]
  /\ overtaken = [c \in Calls |-> FALSE]

Move(c, from, to) == pc[c] = from /\ pc' = [pc EXCEPT ![c] = to]

Answers(c, from, what) ==
  Move(c, from, "answered") /\ answer' = [answer EXCEPT ![c] = what]

Sends(c, from, which) ==
  /\ Move(c, from, "waiting")
  /\ step' = [step EXCEPT ![c] = which]
  /\ request' = [request EXCEPT ![c] =
                   IF kind[c].way = "mint" THEN "fetching" ELSE "sent"]
  /\ polls' = [polls EXCEPT ![c] = @ + 1]

-----------------------------------------------------------------------------
(***************************************************************************)
(* A call.                                                                 *)
(***************************************************************************)
\* getNonce, whose answer the caller then signs.
ReadNonce(c) ==
  /\ Move(c, "idle", "read")
  /\ known' = [known EXCEPT ![c] = nonce]
  /\ overtaken' = [overtaken EXCEPT ![c] = FALSE]
  /\ UNCHANGED <<nonce, asked, step, request, polls, stream, answer, refused>>

Begin(c, k, i, b) ==
  /\ Move(c, IF i = "signature" THEN "read" ELSE "idle", "begun")
  /\ i \in (IF k.way = "mint" THEN {"key", "ephemeral"}
            ELSE {"token", "signature", "both", "neither"})
  /\ ~k.secured => i # "signature"
  /\ ~(k.streamed \/ k.uploads) => b = <<>>
  /\ kind' = [kind EXCEPT ![c] = k]
  /\ identity' = [identity EXCEPT ![c] = i]
  /\ body' = [body EXCEPT ![c] = b]
  /\ UNCHANGED <<nonce, known, step, request, polls, stream, answer, history>>

\* resolveAuth: exactly one of token and signature.
resolvesAuth(c) == kind[c].secured => identity[c] \in {"token", "signature"}

\* An address that does not parse, or arguments the handler refuses itself.
Reject(c) ==
  /\ Answers(c, "begun", "error")
  /\ UNCHANGED <<nonce, asked, known, step, request, polls, stream, history>>

Proceed(c) ==
  /\ resolvesAuth(c)
  /\ \/ /\ kind[c].way = "gated" /\ Move(c, "begun", "gating")
        /\ UNCHANGED <<step, request, polls>>
     \/ kind[c].way = "extend" /\ Sends(c, "begun", "lookup")
     \/ kind[c].way \notin {"gated", "extend"} /\ Sends(c, "begun", "main")
  /\ UNCHANGED <<nonce, asked, known, stream, answer, history>>

\* The gate needs no signature: it asks the node and the chain in public.
Gate(c) ==
  /\ \/ Sends(c, "gating", "main") /\ UNCHANGED answer
     \/ Answers(c, "gating", "blocked") /\ UNCHANGED <<step, request, polls>>
  /\ UNCHANGED <<nonce, asked, known, stream, history>>

-----------------------------------------------------------------------------
(***************************************************************************)
(* The node (external), and ocean.js where it signs.                       *)
(***************************************************************************)
\* Faulty variant: the guide has the nonce signed as it was read.
SignedNonceAsRead(c) == known[c]

\* The signing guide: one more than the nonce that was read.
SignedNonce(c) == known[c] + 1

Signs(c) == identity[c] \in {"signature", "key"} /\ (kind[c].secured \/ kind[c].way = "mint")

\* A signature is over one command, that of the tool, and a nonce is good once.
Accepts(c) == Signs(c) => step[c] = "main" /\ SignedNonce(c) > nonce

\* createAuthTokenWithSigner: ocean.js fetches the nonce.
FetchNonce(c) ==
  /\ pc[c] = "waiting" /\ request[c] = "fetching"
  /\ request' = [request EXCEPT ![c] = "sent"]
  /\ known' = [known EXCEPT ![c] = nonce]
  /\ overtaken' = [overtaken EXCEPT ![c] = FALSE]
  /\ UNCHANGED <<nonce, pc, asked, step, polls, stream, answer, refused>>

\* The request arrives, perhaps after the call gave up on it.
Take(c) ==
  /\ request[c] = "sent" /\ Accepts(c)
  /\ request' = [request EXCEPT ![c] = "taken"]
  /\ \/ /\ Signs(c)
        /\ nonce' = SignedNonce(c)
        /\ overtaken' = [d \in Calls |-> overtaken[d] \/ (d # c /\ pc[d] # "idle")]
     \/ ~Signs(c) /\ UNCHANGED <<nonce, overtaken>>
  /\ got' = [got EXCEPT ![c].bytes =
               IF kind[c].uploads THEN FlattenSeq(chunkedUint8(body[c])) ELSE @]
  /\ UNCHANGED <<pc, asked, known, step, polls, sentTo, answer, refused>>

Refuse(c) ==
  /\ request[c] = "sent" /\ ~Accepts(c)
  /\ request' = [request EXCEPT ![c] = "refused"]
  /\ refused' = [refused EXCEPT ![c] = TRUE]
  /\ UNCHANGED <<nonce, pc, asked, known, step, polls, stream, answer, overtaken>>

-----------------------------------------------------------------------------
\* serviceExtend: the stored job and its environment lead to the gate; without
\* them, or with any error, the request is sent ungated.
AfterLookup(c) ==
  \/ /\ request[c] = "taken" /\ Move(c, "waiting", "gating")
     /\ UNCHANGED <<step, request, polls>>
  \/ Sends(c, "waiting", "main")

Respond(c) ==
  /\ pc[c] = "waiting" /\ request[c] \in {"taken", "refused"}
  /\ \/ step[c] = "lookup" /\ AfterLookup(c) /\ UNCHANGED answer
     \/ /\ step[c] = "main" /\ request[c] = "refused"
        /\ Answers(c, "waiting", "error") /\ UNCHANGED <<step, request, polls>>
     \/ /\ step[c] = "main" /\ request[c] = "taken" /\ kind[c].streamed
        /\ Move(c, "waiting", "streaming") /\ UNCHANGED <<step, request, polls, answer>>
     \/ /\ step[c] = "main" /\ request[c] = "taken" /\ ~kind[c].streamed
        /\ Answers(c, "waiting", "ok") /\ UNCHANGED <<step, request, polls>>
     \/ /\ kind[c].way = "poll" /\ request[c] = "taken" /\ polls[c] < MaxPolls
        /\ Sends(c, "waiting", "main") /\ UNCHANGED answer
  /\ UNCHANGED <<nonce, asked, known, stream, history>>

\* Faulty variant: the timer stops when the stream opens.
ExpireBeforeTheStream(c) ==
  /\ kind[c].timed
  /\ \/ /\ pc[c] = "waiting" /\ step[c] = "main"
        /\ Answers(c, "waiting", "error") /\ UNCHANGED <<step, request, polls>>
     \/ step[c] = "lookup" /\ Sends(c, "waiting", "main") /\ UNCHANGED answer
  /\ UNCHANGED <<nonce, asked, known, stream, history>>

\* The timer fires.  What was sent stays on its way.
Expire(c) ==
  /\ kind[c].timed
  /\ \/ /\ pc[c] \in {"waiting", "streaming"} /\ step[c] = "main"
        /\ Answers(c, pc[c], "error") /\ UNCHANGED <<step, request, polls>>
     \/ step[c] = "lookup" /\ Sends(c, "waiting", "main") /\ UNCHANGED answer
  /\ UNCHANGED <<nonce, asked, known, stream, history>>

\* The node's next frame.  Collection ends where it is cut.
Frame(c, n) ==
  LET frame == SubSeq(body[c], sentTo[c] + 1, sentTo[c] + n)
      now == Collect(got[c], frame, kind[c].capped)
  IN /\ pc[c] = "streaming" /\ sentTo[c] + n <= Len(body[c])
     /\ sentTo' = [sentTo EXCEPT ![c] = @ + n]
     /\ got' = [got EXCEPT ![c] = now]
     /\ \/ now.truncated /\ Answers(c, "streaming", "ok")
        \/ ~now.truncated /\ UNCHANGED <<pc, answer>>
     /\ UNCHANGED <<nonce, asked, known, step, request, polls, history>>

EndOfStream(c) ==
  /\ sentTo[c] = Len(body[c]) /\ Answers(c, "streaming", "ok")
  /\ UNCHANGED <<nonce, asked, known, step, request, polls, stream, history>>

-----------------------------------------------------------------------------
\* The handler's own steps, which nothing outside can hold up.
Serve(c) == Reject(c) \/ Proceed(c) \/ Gate(c) \/ Respond(c) \/ Expire(c)

Next ==
  \E c \in Calls :
    \/ ReadNonce(c)
    \/ \E k \in Kinds, i \in Identities, b \in Bodies \cup {<<>>} : Begin(c, k, i, b)
    \/ Reject(c) \/ Proceed(c) \/ Gate(c)
    \/ FetchNonce(c) \/ Take(c) \/ Refuse(c)
    \/ Respond(c) \/ Expire(c)
    \/ \E n \in 1..MaxFrame : Frame(c, n)
    \/ EndOfStream(c)

Spec == Init /\ [][Next]_vars

FairSpec == Spec /\ \A c \in Calls : WF_vars(Serve(c))

-----------------------------------------------------------------------------
(***************************************************************************)
(* Properties.                                                             *)
(***************************************************************************)
\* Every variable holds a value of its kind, and a capped collection no more
\* than its cap.
TypeOK ==
  /\ nonce \in Nat
  /\ pc \in [Calls -> PCs]
  /\ kind \in [Calls -> Kinds]
  /\ identity \in [Calls -> Identities]
  /\ known \in [Calls -> Nat]
  /\ step \in [Calls -> {"lookup", "main"}]
  /\ request \in [Calls -> {"none", "fetching", "sent", "taken", "refused"}]
  /\ polls \in [Calls -> 0..MaxPolls + 1]
  /\ \A c \in Calls :
       /\ body[c] \in Bodies \cup {<<>>}
       /\ sentTo[c] \in 0..Len(body[c])
       /\ got[c].totalRead \in 0..Len(body[c])
       /\ kind[c].capped => Len(got[c].bytes) <= maxBytes
  /\ answer \in [Calls -> {"none", "ok", "error", "blocked"}]
  /\ refused \in [Calls -> BOOLEAN] /\ overtaken \in [Calls -> BOOLEAN]

\* "serialize the calls": where a signature serves one request, the node
\* refuses it only if another signed request of the consumer, maybe one whose
\* call has long timed out, was taken since the nonce was read.
SerializedSignatureIsTaken ==
  \A c \in Calls : refused[c] /\ kind[c].way \in {"single", "gated", "mint"} => overtaken[c]

\* A signature or a token is all a secured tool asks for: no call is refused
\* for a signature that nothing has overtaken.
OneSignatureSuffices == \A c \in Calls : refused[c] => overtaken[c]

\* What a stream or an upload carries comes out whole and in order; a cut
\* collection says so, stops at the cap, and knows of more.
BytesArriveWhole ==
  \A c \in Calls :
    answer[c] = "ok" /\ (kind[c].streamed \/ kind[c].uploads) =>
      /\ IsPrefix(got[c].bytes, body[c])
      /\ ~got[c].truncated => got[c].bytes = body[c]
      /\ got[c].truncated =>
           /\ kind[c].capped /\ Len(got[c].bytes) = maxBytes
           /\ maxBytes < Len(body[c]) /\ maxBytes < got[c].totalRead

\* Every call that began is answered, whatever the node and the network do,
\* but for the methods that wait without a timer.
EveryCallIsAnswered ==
  \A c \in Calls : pc[c] = "begun" /\ kind[c].timed ~> pc[c] = "answered"
=============================================================================
