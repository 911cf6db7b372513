-------------------------- MODULE NodeToolsProofs ---------------------------
(***************************************************************************)
(* For any number of calls of any tools: a signature that serves one       *)
(* request is refused only if another one overtook it, and what a stream   *)
(* or an upload carries arrives whole, for any body, chunk size and cap.   *)
(***************************************************************************)
EXTENDS NodeTools, SequenceTheorems, FiniteSetTheorems, TLAPS

\* A tool that sends one request under its signature.
Once(c) == kind[c].way \in {"single", "gated", "mint"}

\* The types the argument needs; a call that has not begun has the kind Init
\* gives it.
SignatureTypes ==
  /\ nonce \in Int
  /\ pc \in [Calls -> PCs]
  /\ kind \in [Calls -> Kinds \cup {Kind(LookupTools, "node_status", "single")}]
  /\ identity \in [Calls -> Identities]
  /\ known \in [Calls -> Int]
  /\ step \in [Calls -> {"lookup", "main"}]
  /\ request \in [Calls -> {"none", "fetching", "sent", "taken", "refused"}]
  /\ refused \in [Calls -> BOOLEAN]
  /\ overtaken \in [Calls -> BOOLEAN]

\* Keys are for minting, and only serviceExtend looks anything up.
WaysHold(c) ==
  /\ identity[c] = "key" => kind[c].way = "mint"
  /\ kind[c].way = "mint" => identity[c] \in {"key", "ephemeral"}
  /\ step[c] = "lookup" => kind[c].way = "extend"

\* Nothing is on its way before the call, or the gate, has sent it.
Unsent(c) ==
  /\ pc[c] \in {"idle", "read", "begun"} =>
       request[c] = "none" /\ step[c] = "main" /\ ~refused[c]
  /\ pc[c] = "gating" /\ kind[c].way # "extend" => request[c] = "none" /\ ~refused[c]
  /\ request[c] = "fetching" => kind[c].way = "mint"

\* A signature made, or one under way that serves no other request.
Fresh(c) ==
  \/ pc[c] = "read"
  \/ identity[c] = "signature" /\ request[c] = "none" /\ pc[c] \in {"begun", "gating"}
  \/ request[c] = "sent" /\ Signs(c) /\ Once(c)

\* The consumer's nonce is past a fresh signature only if another went first.
InTime(c) == Fresh(c) /\ ~overtaken[c] => nonce <= known[c]

RefusalExplained(c) == refused[c] /\ Once(c) => overtaken[c] /\ request[c] = "refused"

CallInv(c) == WaysHold(c) /\ Unsent(c) /\ InTime(c) /\ RefusalExplained(c)

SInv == SignatureTypes /\ \A c \in Calls : CallInv(c)

-----------------------------------------------------------------------------
\* No call, no signature.
LEMMA InitSInv == Init => SInv
<1> SUFFICES ASSUME Init PROVE SInv
  OBVIOUS
<1>1. SignatureTypes
  BY DEF Init, SignatureTypes, PCs, Identities
<1>2. ASSUME NEW c \in Calls PROVE CallInv(c)
  <2>1. kind[c].way = "single"
    BY DEF Init, Kind
  <2> QED
    BY <2>1 DEF Init, CallInv, WaysHold, Unsent, InTime, Fresh, RefusalExplained
<1> QED
  BY <1>1, <1>2 DEF SInv

\* A call that nothing happens to keeps its part of the invariant.
LEMMA OthersKeep ==
  ASSUME NEW d \in Calls, CallInv(d), nonce' = nonce,
         pc'[d] = pc[d], kind'[d] = kind[d], identity'[d] = identity[d],
         known'[d] = known[d], step'[d] = step[d], request'[d] = request[d],
         refused'[d] = refused[d], overtaken'[d] = overtaken[d]
  PROVE  CallInv(d)'
BY DEF CallInv, WaysHold, Unsent, InTime, Fresh, Signs, Once, RefusalExplained

\* The caller's own steps before a request.
LEMMA BeforeTheRequest ==
  ASSUME SInv, NEW c \in Calls,
         \/ ReadNonce(c) \/ Reject(c)
         \/ \E k \in Kinds, i \in Identities, b \in Bodies \cup {<<>>} : Begin(c, k, i, b)
  PROVE  SInv'
<1> USE DEF SInv
<1>1. CASE ReadNonce(c)
  <2> USE <1>1 DEF ReadNonce, Move, asked, stream
  <2>1. SignatureTypes'
    BY DEF SignatureTypes, PCs
  <2>2. CallInv(c)'
    BY DEF SignatureTypes, CallInv, WaysHold, Unsent, InTime, Fresh, Signs, Once,
           RefusalExplained
  <2>3. ASSUME NEW d \in Calls, d # c PROVE CallInv(d)'
    BY <2>3, OthersKeep DEF SignatureTypes
  <2> QED
    BY <2>1, <2>2, <2>3
<1>2. CASE Reject(c)
  <2> USE <1>2 DEF Reject, Answers, Move, asked, stream, history
  <2>1. SignatureTypes'
    BY DEF SignatureTypes, PCs
  <2>2. CallInv(c)'
    BY DEF SignatureTypes, CallInv, WaysHold, Unsent, InTime, Fresh, Signs, Once,
           RefusalExplained
  <2>3. ASSUME NEW d \in Calls, d # c PROVE CallInv(d)'
    BY <2>3, OthersKeep DEF SignatureTypes
  <2> QED
    BY <2>1, <2>2, <2>3
<1>3. ASSUME NEW k \in Kinds, NEW i \in Identities, NEW b \in Bodies \cup {<<>>},
             Begin(c, k, i, b)
      PROVE  SInv'
  <2> USE <1>3 DEF Begin, Move, stream, history
  <2>1. SignatureTypes'
    BY DEF SignatureTypes, PCs
  <2>2. CallInv(c)'
    BY DEF SignatureTypes, CallInv, WaysHold, Unsent, InTime, Fresh, Signs, Once,
           RefusalExplained
  <2>3. ASSUME NEW d \in Calls, d # c PROVE CallInv(d)'
    BY <2>3, OthersKeep DEF SignatureTypes
  <2> QED
    BY <2>1, <2>2, <2>3
<1> QED
  BY <1>1, <1>2, <1>3

\* A request leaves, from where the call may send one.
LEMMA SendingKeeps ==
  ASSUME SInv, NEW c \in Calls, NEW from, NEW which \in {"lookup", "main"},
         Sends(c, from, which),
         which = "lookup" => kind[c].way = "extend",
         \/ from = "begun"
         \/ from = "gating"
         \/ from = "waiting" /\ ~Once(c) /\ kind[c].way # "mint",
         UNCHANGED <<nonce, kind, identity, known, refused, overtaken>>
  PROVE  SInv'
<1> USE DEF SInv, Sends, Move
<1>1. SignatureTypes'
  BY DEF SignatureTypes, PCs
<1>2. CallInv(c)'
  BY DEF SignatureTypes, CallInv, WaysHold, Unsent, InTime, Fresh, Signs, Once,
         RefusalExplained
<1>3. ASSUME NEW d \in Calls, d # c PROVE CallInv(d)'
  BY <1>3, OthersKeep DEF SignatureTypes
<1> QED
  BY <1>1, <1>2, <1>3

\* A call moves on without sending, or ends.
LEMMA MovingKeeps ==
  ASSUME SInv, NEW c \in Calls, NEW from, NEW to \in {"gating", "streaming", "answered"},
         Move(c, from, to), from \notin {"idle", "read"},
         to = "gating" =>
           from = "begun" \/ (kind[c].way = "extend" /\ request[c] = "taken"),
         UNCHANGED <<nonce, kind, identity, known, step, request, refused, overtaken>>
  PROVE  SInv'
<1> USE DEF SInv, Move
<1>1. SignatureTypes'
  BY DEF SignatureTypes, PCs
<1>2. CallInv(c)'
  BY DEF SignatureTypes, CallInv, WaysHold, Unsent, InTime, Fresh, Signs, Once,
         RefusalExplained
<1>3. ASSUME NEW d \in Calls, d # c PROVE CallInv(d)'
  BY <1>3, OthersKeep DEF SignatureTypes
<1> QED
  BY <1>1, <1>2, <1>3

-----------------------------------------------------------------------------
\* From the verdict on the arguments to the last answer.
LEMMA TheHandlerKeeps ==
  ASSUME SInv, NEW c \in Calls, Proceed(c) \/ Gate(c) \/ Respond(c) \/ Expire(c)
  PROVE  SInv'
<1> USE DEF stream, asked, history
<1>1. CASE Proceed(c)
  <2>1. \/ Move(c, "begun", "gating") /\ UNCHANGED <<step, request>>
        \/ kind[c].way = "extend" /\ Sends(c, "begun", "lookup")
        \/ Sends(c, "begun", "main")
    BY <1>1 DEF Proceed
  <2> QED
    BY <1>1, <2>1, MovingKeeps, SendingKeeps DEF Proceed
<1>2. CASE Gate(c)
  <2>1. \/ Sends(c, "gating", "main")
        \/ Move(c, "gating", "answered") /\ UNCHANGED <<step, request>>
    BY <1>2 DEF Gate, Answers
  <2> QED
    BY <1>2, <2>1, MovingKeeps, SendingKeeps DEF Gate
<1>3. CASE Respond(c)
  <2>1. \/ /\ step[c] = "lookup" /\ request[c] = "taken"
           /\ Move(c, "waiting", "gating") /\ UNCHANGED <<step, request>>
        \/ step[c] = "lookup" /\ Sends(c, "waiting", "main")
        \/ /\ Move(c, "waiting", "answered") \/ Move(c, "waiting", "streaming")
           /\ UNCHANGED <<step, request>>
        \/ kind[c].way = "poll" /\ Sends(c, "waiting", "main")
    BY <1>3 DEF Respond, AfterLookup, Answers
  <2>2. step[c] = "lookup" => kind[c].way = "extend"
    BY DEF SInv, CallInv, WaysHold
  <2> QED
    BY <1>3, <2>1, <2>2, MovingKeeps, SendingKeeps DEF Respond, Once
<1>4. CASE Expire(c)
  <2>1. \/ /\ Move(c, "waiting", "answered") \/ Move(c, "streaming", "answered")
           /\ UNCHANGED <<step, request>>
        \/ step[c] = "lookup" /\ Sends(c, "waiting", "main")
    BY <1>4 DEF Expire, Answers
  <2>2. step[c] = "lookup" => kind[c].way = "extend"
    BY DEF SInv, CallInv, WaysHold
  <2> QED
    BY <1>4, <2>1, <2>2, MovingKeeps, SendingKeeps DEF Expire, Once
<1> QED
  BY <1>1, <1>2, <1>3, <1>4

\* The node takes a request, or refuses it: where nothing overtook a fresh
\* signature it has no reason to.
LEMMA TheNodeKeeps ==
  ASSUME SInv, NEW c \in Calls, FetchNonce(c) \/ Take(c) \/ Refuse(c)
  PROVE  SInv'
<1> USE DEF SInv, asked, stream, history
<1>1. CASE FetchNonce(c)
  <2> USE <1>1 DEF FetchNonce
  <2>1. SignatureTypes'
    BY DEF SignatureTypes
  <2>2. CallInv(c)'
    BY DEF SignatureTypes, CallInv, WaysHold, Unsent, InTime, Fresh, Signs, Once,
           RefusalExplained
  <2>3. ASSUME NEW d \in Calls, d # c PROVE CallInv(d)'
    BY <2>3, OthersKeep DEF SignatureTypes
  <2> QED
    BY <2>1, <2>2, <2>3
<1>2. CASE Take(c)
  <2> USE <1>2 DEF Take
  <2>1. SignatureTypes'
    <3>1. nonce' \in Int
      BY DEF SignatureTypes, SignedNonce
    <3>2. overtaken' \in [Calls -> BOOLEAN]
      <4>1. CASE UNCHANGED overtaken
        BY <4>1 DEF SignatureTypes
      <4>2. CASE overtaken' = [d \in Calls |-> overtaken[d] \/ (d # c /\ pc[d] # "idle")]
        BY <4>2, Zenon
      <4> QED
        BY <4>1, <4>2
    <3> QED
      BY <3>1, <3>2 DEF SignatureTypes
  <2>2. CallInv(c)'
    BY DEF SignatureTypes, CallInv, WaysHold, Unsent, InTime, Fresh, Signs, Once,
           RefusalExplained
  <2>3. ASSUME NEW d \in Calls, d # c, Signs(c) PROVE CallInv(d)'
    BY <2>3 DEF SignatureTypes, CallInv, WaysHold, Unsent, InTime, Fresh, Signs, Once,
                RefusalExplained
  <2>4. ASSUME NEW d \in Calls, d # c, ~Signs(c) PROVE CallInv(d)'
    BY <2>4, OthersKeep DEF SignatureTypes
  <2> QED
    BY <2>1, <2>2, <2>3, <2>4
<1>3. CASE Refuse(c)
  <2> USE <1>3 DEF Refuse
  <2>1. SignatureTypes'
    BY DEF SignatureTypes
  <2>2. Once(c) => overtaken[c]
    BY DEF SignatureTypes, CallInv, WaysHold, InTime, Fresh, Accepts, SignedNonce, Once
  <2>3. CallInv(c)'
    BY <2>2 DEF SignatureTypes, CallInv, WaysHold, Unsent, InTime, Fresh, Signs, Once,
           RefusalExplained
  <2>4. ASSUME NEW d \in Calls, d # c PROVE CallInv(d)'
    BY <2>4, OthersKeep DEF SignatureTypes
  <2> QED
    BY <2>1, <2>3, <2>4
<1> QED
  BY <1>1, <1>2, <1>3

\* Frames change no more than where the call stands.
LEMMA StreamsKeep ==
  ASSUME SInv, NEW c \in Calls,
         EndOfStream(c) \/ \E n \in 1..MaxFrame : Frame(c, n)
  PROVE  SInv'
<1> USE DEF asked, history
<1>1. /\ UNCHANGED <<nonce, kind, identity, known, step, request, refused, overtaken>>
      /\ Move(c, "streaming", "answered") \/ UNCHANGED pc
  BY DEF EndOfStream, Frame, Answers
<1>2. CASE UNCHANGED pc
  BY <1>1, <1>2, OthersKeep DEF SInv, SignatureTypes
<1>3. CASE Move(c, "streaming", "answered")
  BY <1>1, <1>3, MovingKeeps
<1> QED
  BY <1>1, <1>2, <1>3

\* Every step keeps the invariant of the signatures.
LEMMA NextKeepsSInv == SInv /\ [Next]_vars => SInv'
<1> SUFFICES ASSUME SInv, [Next]_vars PROVE SInv'
  OBVIOUS
<1>1. CASE UNCHANGED vars
  BY <1>1, OthersKeep DEF vars, asked, stream, history, SInv, SignatureTypes
<1>2. CASE Next
  <2>1. PICK c \in Calls :
          \/ ReadNonce(c)
          \/ \E k \in Kinds, i \in Identities, b \in Bodies \cup {<<>>} : Begin(c, k, i, b)
          \/ Reject(c) \/ Proceed(c) \/ Gate(c)
          \/ FetchNonce(c) \/ Take(c) \/ Refuse(c)
          \/ Respond(c) \/ Expire(c)
          \/ \E n \in 1..MaxFrame : Frame(c, n)
          \/ EndOfStream(c)
    BY <1>2 DEF Next
  <2> QED
    BY <2>1, BeforeTheRequest, TheHandlerKeeps, TheNodeKeeps, StreamsKeep
<1> QED
  BY <1>1, <1>2

-----------------------------------------------------------------------------
\* The signing guide works: where a signature serves one request, whoever
\* reads the nonce, signs one more and is not overtaken is never refused,
\* however many calls there are and however late their requests arrive.
THEOREM SerializedSignaturesAreTaken == Spec => []SerializedSignatureIsTaken
<1>1. SInv => SerializedSignatureIsTaken
  BY DEF SInv, CallInv, RefusalExplained, Once, SerializedSignatureIsTaken
<1> QED
  BY <1>1, InitSInv, NextKeepsSInv, PTL DEF Spec

-----------------------------------------------------------------------------
(***************************************************************************)
(* Frames of an upload.                                                    *)
(***************************************************************************)
\* Induction over the natural numbers, for sets.
LEMMA NatInductionOfSets ==
  ASSUME NEW S, 0 \in S, \A n \in Nat : n \in S => n + 1 \in S
  PROVE  Nat \subseteq S
<1> SUFFICES ASSUME NEW m \in Nat, m \notin S PROVE FALSE
  OBVIOUS
<1> DEFINE T == {0..n : n \in Nat \ S}
<1>1. T \subseteq FiniteSubsetsOf(Nat) /\ T # {}
  <2>1. \A n \in Nat : 0..n \in SUBSET Nat /\ IsFiniteSet(0..n)
    BY FS_Interval
  <2> QED
    BY <2>1 DEF FiniteSubsetsOf
<1>2. PICK x \in T : \A y \in T : ~(<<y, x>> \in StrictSubsetOrdering(Nat))
  <2> HIDE DEF T
  <2> QED
    BY <1>1, FS_StrictSubsetOrderingWellFounded, WFMin
<1>3. PICK n \in Nat : n \notin S /\ x = 0..n
  BY DEF T
<1>4. n - 1 \in Nat /\ n - 1 \notin S
  BY <1>3
<1>5. 0..(n - 1) \in T
  BY <1>4
<1>6. 0..(n - 1) \subseteq Nat /\ 0..(n - 1) \subseteq x /\ x # 0..(n - 1) /\ x \subseteq Nat
  BY <1>3, <1>4
<1>7. <<0..(n - 1), x>> \in StrictSubsetOrdering(Nat)
  BY <1>6 DEF StrictSubsetOrdering
<1> QED
  BY <1>2, <1>5, <1>7

\* The frames of an upload, by number and end.
Frames(b) == (Len(b) + UPLOAD_CHUNK_BYTES - 1) \div UPLOAD_CHUNK_BYTES
FrameEnd(b, i) ==
  IF i * UPLOAD_CHUNK_BYTES < Len(b) THEN i * UPLOAD_CHUNK_BYTES ELSE Len(b)

\* l bytes in chunks of c: every chunk but the last is full.
LEMMA Ceiling ==
  ASSUME NEW l \in Nat, NEW c \in Nat \ {0}
  PROVE  LET n == (l + c - 1) \div c
         IN /\ n \in Nat /\ l <= n * c
            /\ \A i \in 1..n : (i - 1) * c < l /\ (i - 1) * c \in Nat /\ i * c = (i - 1) * c + c
            /\ n = 0 <=> l = 0
<1> DEFINE n == (l + c - 1) \div c
<1>1. n \in Nat
  OBVIOUS
<1>2. n * c <= l + c - 1 /\ l + c - 1 < (n + 1) * c
  OBVIOUS
<1> QED
  OBVIOUS
\* The frames lie end to end, from the first byte to the last.
LEMMA FrameEnds ==
  ASSUME NEW b \in Seq(Nat)
  PROVE  /\ Frames(b) \in Nat /\ (Frames(b) = 0 <=> Len(b) = 0)
         /\ \A i \in 0..Frames(b) : FrameEnd(b, i) \in 0..Len(b)
         /\ \A i \in 1..Frames(b) :
              /\ FrameEnd(b, i - 1) = (i - 1) * UPLOAD_CHUNK_BYTES
              /\ FrameEnd(b, i - 1) <= FrameEnd(b, i)
              /\ chunkedUint8(b)[i] = SubSeq(b, FrameEnd(b, i - 1) + 1, FrameEnd(b, i))
         /\ FrameEnd(b, 0) = 0 /\ FrameEnd(b, Frames(b)) = Len(b)
<1> DEFINE l == Len(b)
           c == UPLOAD_CHUNK_BYTES
           n == Frames(b)
<1>1. l \in Nat /\ c \in Nat \ {0} /\ n = (l + c - 1) \div c
  BY NodeClientAssumption DEF Frames
<1> HIDE DEF l, n, c
<1>2. /\ n \in Nat /\ l <= n * c /\ (n = 0 <=> l = 0)
      /\ \A i \in 1..n : (i - 1) * c < l /\ (i - 1) * c \in Nat /\ i * c = (i - 1) * c + c
  BY <1>1, Ceiling
<1>3. \A i : FrameEnd(b, i) = IF i * c < l THEN i * c ELSE l
  BY DEF FrameEnd, l, c
<1>4. \A i \in 1..n : chunkedUint8(b)[i] =
        SubSeq(b, (i - 1) * c + 1, IF (i - 1) * c + c < l THEN (i - 1) * c + c ELSE l)
  <2>1. n = (Len(b) + UPLOAD_CHUNK_BYTES - 1) \div UPLOAD_CHUNK_BYTES
    BY DEF n, Frames
  <2> QED
    BY <2>1 DEF chunkedUint8, l, c
<1>5. FrameEnd(b, 0) = 0
  BY <1>1, <1>3
<1>6. FrameEnd(b, n) = l
  BY <1>1, <1>2, <1>3
<1>7. \A i \in 1..n : /\ FrameEnd(b, i - 1) = (i - 1) * c
                      /\ FrameEnd(b, i) = IF (i - 1) * c + c < l THEN (i - 1) * c + c ELSE l
  BY <1>1, <1>2, <1>3
<1>8. \A i \in 1..n : FrameEnd(b, i) \in 0..l /\ FrameEnd(b, i - 1) <= FrameEnd(b, i)
  <2> SUFFICES ASSUME NEW i \in 1..n
               PROVE  FrameEnd(b, i) \in 0..l /\ FrameEnd(b, i - 1) <= FrameEnd(b, i)
    OBVIOUS
  <2> DEFINE m == (i - 1) * c
  <2>1. m \in Nat /\ m < l
    BY <1>2
  <2>2. FrameEnd(b, i - 1) = m /\ FrameEnd(b, i) = IF m + c < l THEN m + c ELSE l
    BY <1>7
  <2> HIDE DEF m
  <2> QED
    BY <1>1, <2>1, <2>2
<1>9. \A i \in 0..n : FrameEnd(b, i) \in 0..l
  BY <1>1, <1>2, <1>5, <1>8
<1>10. \A i \in 1..n : chunkedUint8(b)[i] = SubSeq(b, FrameEnd(b, i - 1) + 1, FrameEnd(b, i))
  BY <1>4, <1>7
<1> QED
  BY <1>2, <1>5, <1>6, <1>7, <1>8, <1>9, <1>10 DEF l, n, c

\* uploadPersistentStorageFile: the frames chunkedUint8 cuts a file into make the
\* file again, in order and without a byte more or less, whatever its length.
THEOREM FramesAreWhole ==
  ASSUME NEW b \in Seq(Nat)
  PROVE  FlattenSeq(chunkedUint8(b)) = b
<1> DEFINE s == chunkedUint8(b)
           n == Frames(b)
           Joins(f) == f = [i \in 1..n |-> IF i = 1 THEN s[i] ELSE f[i - 1] \o s[i]]
           w == [i \in 1..n |-> SubSeq(b, 1, FrameEnd(b, i))]
           f == CHOOSE g : Joins(g)
<1>1. /\ n \in Nat /\ (n = 0 <=> Len(b) = 0)
      /\ \A i \in 1..n : s[i] = SubSeq(b, FrameEnd(b, i - 1) + 1, FrameEnd(b, i))
  BY FrameEnds
<1>2. s \in Seq(Seq(Nat)) /\ Len(s) = n
  <2>1. s = [i \in 1..n |-> s[i]]
    BY DEF chunkedUint8, Frames
  <2> HIDE DEF s, n
  <2>2. \A i \in 1..n : s[i] \in Seq(Nat)
    <3> SUFFICES ASSUME NEW i \in 1..n PROVE s[i] \in Seq(Nat)
      OBVIOUS
    <3> DEFINE p == FrameEnd(b, i - 1)
               q == FrameEnd(b, i)
    <3>1. p \in 0..Len(b) /\ q \in 0..Len(b) /\ s[i] = SubSeq(b, p + 1, q)
      BY <1>1, FrameEnds DEF n
    <3> HIDE DEF p, q
    <3>2. \A j \in (p + 1)..q : b[j] \in Nat
      BY <3>1, ElementOfSeq
    <3> QED
      BY <3>1, <3>2, SubSeqProperties
  <2> QED
    BY <1>1, <2>1, <2>2
<1> HIDE DEF s
<1>3. CASE n = 0
  <2>1. s = <<>> /\ b = <<>>
    BY <1>1, <1>2, <1>3, EmptySeq
  <2> QED
    BY <1>2, <1>3, <2>1 DEF FlattenSeq, s
<1>4. CASE n # 0
  <2>1. FlattenSeq(s) = f[n]
    BY <1>2, <1>4 DEF FlattenSeq
  <2>2. \A i \in 1..n : i # 1 => SubSeq(b, 1, FrameEnd(b, i - 1)) \o s[i] = SubSeq(b, 1, FrameEnd(b, i))
    <3> SUFFICES ASSUME NEW i \in 1..n, i # 1
                 PROVE  SubSeq(b, 1, FrameEnd(b, i - 1)) \o s[i] = SubSeq(b, 1, FrameEnd(b, i))
      OBVIOUS
    <3> DEFINE p == FrameEnd(b, i - 1)
               q == FrameEnd(b, i)
    <3>1. p \in 0..Len(b) /\ q \in p..Len(b)
      BY <1>1, FrameEnds
    <3>2. s[i] = SubSeq(b, p + 1, q)
      BY <1>1
    <3> HIDE DEF p, q
    <3>3. SubSeq(b, 1, p) \o SubSeq(b, p + 1, q) = SubSeq(b, 1, q)
      BY <3>1, ConcatAdjacentSubSeq
    <3> QED
      BY <3>2, <3>3 DEF p, q
  <2>3. Joins(w)
    <3> HIDE DEF n
    <3>1. \A i \in 1..n : w[i] = SubSeq(b, 1, FrameEnd(b, i))
      OBVIOUS
    <3>2. 1 \in 1..n /\ w[1] = s[1]
      <4>1. s[1] = SubSeq(b, FrameEnd(b, 0) + 1, FrameEnd(b, 1)) /\ FrameEnd(b, 0) = 0 /\ 1 \in 1..n
        BY <1>1, <1>4, FrameEnds
      <4>2. FrameEnd(b, 0) + 1 = 1
        BY <4>1
      <4> QED
        BY <3>1, <4>1, <4>2
    <3>3. \A i \in 1..n : i # 1 => i - 1 \in 1..n
      BY <1>1
    <3>4. \A i \in 1..n : w[i] = IF i = 1 THEN s[i] ELSE w[i - 1] \o s[i]
      BY <2>2, <3>1, <3>2, <3>3
    <3> HIDE DEF w
    <3>5. w = [i \in 1..n |-> w[i]]
      BY DEF w
    <3> QED
      BY <3>4, <3>5
  <2>4. Joins(f)
    BY <2>3
  <2> HIDE DEF f, s, n
  <2>5. /\ f[1] = s[1]
        /\ \A i \in Nat : i \in 1..n /\ i + 1 \in 1..n => f[i + 1] = f[i] \o s[i + 1]
    <3>1. \A i \in 1..n : f[i] = IF i = 1 THEN s[i] ELSE f[i - 1] \o s[i]
      BY <2>4
    <3>2. \A i \in Nat : (i + 1) - 1 = i /\ (i \in 1..n => i + 1 # 1)
      OBVIOUS
    <3>3. 1 \in 1..n
      BY <1>1, <1>4
    <3> QED
      BY <3>1, <3>2, <3>3
  <2> DEFINE S == {i \in Nat : i \in 1..n => f[i] = SubSeq(b, 1, FrameEnd(b, i))}
  <2>6. 0 \in S
    OBVIOUS
  <2>7. \A i \in Nat : i \in S => i + 1 \in S
    <3> SUFFICES ASSUME NEW i \in Nat, i \in S, i + 1 \in 1..n
                 PROVE  f[i + 1] = SubSeq(b, 1, FrameEnd(b, i + 1))
      OBVIOUS
    <3>1. CASE i = 0
      <4>1. FrameEnd(b, 0) + 1 = 1 /\ i + 1 = 1
        BY <3>1, FrameEnds
      <4>2. s[1] = SubSeq(b, FrameEnd(b, 1 - 1) + 1, FrameEnd(b, 1)) /\ 1 - 1 = 0
        BY <1>1, <4>1
      <4> QED
        BY <2>5, <4>1, <4>2
    <3>2. CASE i # 0
      <4>1. i \in 1..n /\ f[i] = SubSeq(b, 1, FrameEnd(b, i)) /\ (i + 1) - 1 = i
        BY <1>1, <3>2
      <4>2. f[i + 1] = f[i] \o s[i + 1]
        BY <2>5, <4>1
      <4> DEFINE j == i + 1
      <4>3. j \in 1..n /\ j # 1 /\ j - 1 = i
        BY <3>2, <4>1
      <4> HIDE DEF j
      <4>4. SubSeq(b, 1, FrameEnd(b, j - 1)) \o s[j] = SubSeq(b, 1, FrameEnd(b, j))
        BY <2>2, <4>3
      <4>5. SubSeq(b, 1, FrameEnd(b, i)) \o s[j] = SubSeq(b, 1, FrameEnd(b, j))
        BY <4>3, <4>4
      <4> USE DEF j
      <4> QED
        BY <4>1, <4>2, <4>5
    <3> QED
      BY <3>1, <3>2
  <2>8. n \in S
    <3> HIDE DEF S
    <3> QED
      BY <1>1, <2>6, <2>7, NatInductionOfSets
  <2>9. f[n] = SubSeq(b, 1, Len(b))
    BY <1>1, <1>4, <2>8, FrameEnds DEF n
  <2> QED
    BY <2>1, <2>9, SubSeqFull DEF s
<1> QED
  BY <1>3, <1>4

-----------------------------------------------------------------------------
(***************************************************************************)
(* Kinds of tools.                                                         *)
(***************************************************************************)
\* The upload is neither a stream nor cut short.
LEMMA KindsDiffer ==
  ASSUME NEW k \in Kinds
  PROVE  /\ k.uploads => ~k.streamed /\ ~k.capped /\ k.way = "single"
         /\ k.capped \in BOOLEAN
<1>1. PICK tools \in Tools : \E t \in DOMAIN tools : \E way \in Ways(t) : k = Kind(tools, t, way)
  BY DEF Kinds
<1>2. PICK t \in DOMAIN tools : \E way \in Ways(t) : k = Kind(tools, t, way)
  BY <1>1
<1>3. PICK way \in Ways(t) : k = Kind(tools, t, way)
  BY <1>2
<1>4. /\ k.uploads <=> t = "upload_persistent_storage_file"
      /\ k.streamed <=> Streamed(tools[t])
      /\ k.capped <=> t \in DOMAIN LogTools
      /\ k.way = way
  BY <1>3, Zenon DEF Kind
<1>8. k.capped \in BOOLEAN
  <2>1. k.capped = (t \in DOMAIN LogTools)
    BY <1>3 DEF Kind
  <2> QED
    BY <2>1
<1>5. SUFFICES ASSUME t = "upload_persistent_storage_file"
               PROVE  ~Streamed(tools[t]) /\ t \notin DOMAIN LogTools /\ Ways(t) = {"single"}
  BY <1>3, <1>4, <1>8
<1>6. tools[t] = "uploadPersistentStorageFile"
  <2>1. tools \notin PublicTools
    <3>1. tools \notin {LookupTools, EnvironmentTools, NodeJobTools, QuoteTools, FeeTools}
      BY <1>5 DEF LookupTools, EnvironmentTools, NodeJobTools, QuoteTools, FeeTools
    <3>2. tools \notin {FileTools, PolicyTools, ConfigTools, PeerTools, TemplateTools}
      BY <1>5 DEF FileTools, PolicyTools, ConfigTools, PeerTools, TemplateTools
    <3> QED
      BY <3>1, <3>2 DEF PublicTools
  <2>2. tools \notin {PaidTools, JobTools, ResultTools, BucketTools, BucketFileTools, DataTools}
    BY <1>5 DEF PaidTools, JobTools, ResultTools, BucketTools, BucketFileTools, DataTools
  <2>3. tools \notin {DdoTools, ListTools, ServiceTools, LogTools, StatusTools, ExtendTools, MintTools}
    BY <1>5 DEF DdoTools, ListTools, ServiceTools, LogTools, StatusTools, ExtendTools, MintTools
  <2>4. tools = ByteTools
    BY <2>1, <2>2, <2>3 DEF Tools, SecuredTools
  <2> QED
    BY <1>5, <2>4 DEF ByteTools
<1>7. Ways(t) = {"single"} /\ t \notin DOMAIN LogTools
  BY <1>5 DEF Ways, PaidTools, ExtendTools, StatusTools, MintTools, LogTools
<1> QED
  BY <1>6, <1>7 DEF Streamed

\* What a call is taken for before it begins.
LEMMA FirstKind ==
  LET k == Kind(LookupTools, "node_status", "single")
  IN k \in Kinds /\ ~k.streamed /\ ~k.uploads /\ k.way = "single"
<1>1. LookupTools \in Tools /\ "node_status" \in DOMAIN LookupTools
  BY DEF Tools, PublicTools, LookupTools
<1>2. "single" \in Ways("node_status")
  BY DEF Ways, PaidTools, ExtendTools, StatusTools, MintTools
<1>3. LookupTools["node_status"] = "status"
  BY DEF LookupTools
<1> DEFINE k == Kind(LookupTools, "node_status", "single")
           ways == {Kind(LookupTools, "node_status", way) : way \in Ways("node_status")}
           tables == {{Kind(LookupTools, t, way) : way \in Ways(t)} : t \in DOMAIN LookupTools}
<1>4. k \in ways /\ ways \in tables
  BY <1>1, <1>2
<1>5. UNION tables \subseteq Kinds
  BY <1>1 DEF Kinds
<1>6. ~k.streamed /\ ~k.uploads /\ k.way = "single"
  BY <1>3 DEF Kind, Streamed
<1> QED
  BY <1>4, <1>5, <1>6
-----------------------------------------------------------------------------
(***************************************************************************)
(* What a call has sent and collected.                                     *)
(***************************************************************************)
Collected == [bytes : Seq(Nat), totalRead : Nat, truncated : BOOLEAN]

CallTypes ==
  /\ nonce \in Nat
  /\ kind \in [Calls -> Kinds]
  /\ known \in [Calls -> Nat]
  /\ polls \in [Calls -> Nat]
  /\ body \in [Calls -> Bodies \cup {<<>>}]
  /\ sentTo \in [Calls -> Nat]
  /\ got \in [Calls -> Collected]
  /\ answer \in [Calls -> {"none", "ok", "error", "blocked"}]

\* A call sends once, twice after a look-up, or as often as it may poll.
PollsCounted(c) ==
  /\ polls[c] <= MaxPolls + 1
  /\ pc[c] \in {"idle", "read", "begun"} => polls[c] = 0
  /\ pc[c] = "gating" => polls[c] <= 1
  /\ pc[c] = "waiting" /\ step[c] = "lookup" => polls[c] <= 1

\* An upload is at the node, whole, or not yet.
Uploaded(c) ==
  /\ sentTo[c] = 0 /\ got[c].totalRead = 0 /\ ~got[c].truncated
  /\ got[c].bytes = <<>> \/ got[c].bytes = body[c]
  /\ request[c] = "taken" => got[c].bytes = body[c]

\* What was streamed is collected, up to the cap.
Drained(c) ==
  /\ sentTo[c] <= Len(body[c]) /\ got[c].totalRead = sentTo[c]
  /\ ~got[c].truncated =>
       /\ got[c].bytes = SubSeq(body[c], 1, sentTo[c])
       /\ kind[c].capped => sentTo[c] <= maxBytes
  /\ got[c].truncated =>
       /\ kind[c].capped /\ maxBytes < sentTo[c]
       /\ got[c].bytes = SubSeq(body[c], 1, maxBytes)

\* Where the call stands says what it has, and "ok" that it has it all.
BytesKept(c) ==
  /\ pc[c] # "answered" => answer[c] = "none"
  /\ pc[c] \in {"idle", "read", "begun"} => got[c] = NothingCollected
  /\ pc[c] \in {"idle", "read", "begun", "gating", "waiting"} => sentTo[c] = 0
  /\ pc[c] = "streaming" => kind[c].streamed /\ ~got[c].truncated
  /\ IF kind[c].uploads THEN Uploaded(c) ELSE Drained(c)
  /\ answer[c] = "ok" /\ kind[c].uploads => request[c] = "taken"
  /\ answer[c] = "ok" /\ kind[c].streamed => got[c].truncated \/ sentTo[c] = Len(body[c])

Kept(c) == PollsCounted(c) /\ BytesKept(c)

BInv == SInv /\ CallTypes /\ \A c \in Calls : Kept(c)


-----------------------------------------------------------------------------
\* What the frames up to byte n of b leave: all of it, or its first maxBytes.
Holds(now, b, n, capped) ==
  /\ now \in Collected /\ now.totalRead = n
  /\ ~now.truncated => now.bytes = SubSeq(b, 1, n) /\ (capped => n <= maxBytes)
  /\ now.truncated => capped /\ maxBytes < n /\ now.bytes = SubSeq(b, 1, maxBytes)

\* Every frame of a stream continues what is collected, and the one that passes
\* the cap is cut there.
LEMMA CollectKeeps ==
  ASSUME NEW b \in Seq(Nat), NEW m \in Nat, NEW n \in Nat \ {0}, m + n <= Len(b),
         NEW capped \in BOOLEAN, capped => m <= maxBytes,
         NEW g \in Collected, g.bytes = SubSeq(b, 1, m), g.totalRead = m
  PROVE  Holds(Collect(g, SubSeq(b, m + 1, m + n), capped), b, m + n, capped)
<1> DEFINE frame == SubSeq(b, m + 1, m + n)
           room == maxBytes - Len(g.bytes)
           cut == capped /\ (room = 0 \/ Len(frame) > room)
           now == Collect(g, frame, capped)
<1>1. \A i \in 1..Len(b) : b[i] \in Nat
  BY ElementOfSeq
<1>7. \A x \in Seq(Nat), y \in Nat, z \in BOOLEAN :
        [bytes |-> x, totalRead |-> y, truncated |-> z] \in Collected
  BY DEF Collected
<1>2. \A i \in 0..Len(b) : \A j \in 0..i :
        /\ SubSeq(b, j + 1, i) \in Seq(Nat) /\ Len(SubSeq(b, j + 1, i)) = i - j
        /\ SubSeq(b, 1, j) \o SubSeq(b, j + 1, i) = SubSeq(b, 1, i)
  <2> SUFFICES ASSUME NEW i \in 0..Len(b), NEW j \in 0..i
               PROVE  /\ SubSeq(b, j + 1, i) \in Seq(Nat) /\ Len(SubSeq(b, j + 1, i)) = i - j
                      /\ SubSeq(b, 1, j) \o SubSeq(b, j + 1, i) = SubSeq(b, 1, i)
    OBVIOUS
  <2>1. /\ SubSeq(b, j + 1, i) \in Seq(Nat)
        /\ Len(SubSeq(b, j + 1, i)) = IF j + 1 <= i THEN i - (j + 1) + 1 ELSE 0
    <3>1. \A x \in (j + 1)..i : b[x] \in Nat
      BY <1>1
    <3> QED
      BY <3>1, SubSeqProperties
  <2>2. SubSeq(b, 1, j) \o SubSeq(b, j + 1, i) = SubSeq(b, 1, i)
    BY ConcatAdjacentSubSeq
  <2> QED
    BY <2>1, <2>2
<1>3. /\ frame \in Seq(Nat) /\ Len(frame) = n /\ g.bytes \o frame = SubSeq(b, 1, m + n)
      /\ Len(g.bytes) = m /\ room = maxBytes - m
  <2>1. Len(SubSeq(b, 0 + 1, m)) = m - 0
    BY <1>2
  <2> QED
    BY <1>2, <2>1
<1>4. /\ now.bytes = g.bytes \o (IF cut THEN FirstBytes(frame, room) ELSE frame)
      /\ now.totalRead = m + n /\ now.truncated = cut
      /\ now = [bytes |-> now.bytes, totalRead |-> now.totalRead, truncated |-> now.truncated]
  BY <1>3 DEF Collect
<1> HIDE DEF frame, now
<1>5. CASE ~cut
  <2>1. now.bytes = SubSeq(b, 1, m + n) /\ ~now.truncated /\ now.truncated \in BOOLEAN
    BY <1>3, <1>4, <1>5
  <2>2. SubSeq(b, 0 + 1, m + n) \in Seq(Nat)
    BY <1>2
  <2>3. now \in Collected
    <3>1. now.bytes \in Seq(Nat)
      BY <2>1, <2>2
    <3>2. now.totalRead \in Nat
      BY <1>4
    <3> QED
      BY <1>4, <1>7, <2>1, <3>1, <3>2
  <2>4. capped => m + n <= maxBytes
    BY <1>3, <1>5, NodeClientAssumption
  <2> QED
    BY <1>4, <2>1, <2>3, <2>4 DEF now, frame, Holds
<1>6. CASE cut
  <2>1. room \in Nat /\ room <= n /\ maxBytes = m + room /\ maxBytes < m + n /\ capped
    BY <1>3, <1>6, NodeClientAssumption
  <2>2. FirstBytes(frame, room) = SubSeq(b, m + 1, maxBytes)
    <3>1. CASE room = 0
      BY <2>1, <3>1, SubSeqEmpty DEF FirstBytes
    <3>2. CASE room # 0
      <4> DEFINE i == m + 1
                 j == m + n
      <4>1. i \in 1..Len(b) /\ j \in 1..Len(b) /\ 1 \in 1..(j - i + 1) /\ room \in 1..(j - i + 1)
        BY <2>1, <3>2
      <4> HIDE DEF i, j, room
      <4>2. SubSeq(SubSeq(b, i, j), 1, room) = SubSeq(b, i + 1 - 1, i + room - 1)
        BY <4>1, SubSeqOfSubSeq
      <4> USE DEF i, j
      <4>3. (m + 1) + 1 - 1 = m + 1 /\ (m + 1) + room - 1 = maxBytes
        BY <2>1
      <4> QED
        BY <4>2, <4>3 DEF FirstBytes, frame
    <3> QED
      BY <3>1, <3>2
  <2>3. g.bytes \o SubSeq(b, m + 1, maxBytes) = SubSeq(b, 1, maxBytes)
    BY <1>2, <2>1, NodeClientAssumption
  <2>4. SubSeq(b, 0 + 1, maxBytes) \in Seq(Nat)
    BY <1>2, <2>1, NodeClientAssumption
  <2>5. now.bytes = SubSeq(b, 1, maxBytes) /\ now.truncated /\ now.truncated \in BOOLEAN
    BY <1>4, <1>6, <2>2, <2>3
  <2>6. now \in Collected
    <3>1. now.bytes \in Seq(Nat)
      BY <2>4, <2>5
    <3>2. now.totalRead \in Nat
      BY <1>4
    <3> QED
      BY <1>4, <1>7, <2>5, <3>1, <3>2
  <2> QED
    BY <1>4, <2>1, <2>5, <2>6 DEF now, frame, Holds
<1> QED
  BY <1>5, <1>6
-----------------------------------------------------------------------------
(***************************************************************************)
(* Each call keeps what it has.                                            *)
(***************************************************************************)
LEMMA InitBInv == Init => BInv
<1> SUFFICES ASSUME Init PROVE BInv
  OBVIOUS
<1>1. CallTypes
  BY FirstKind DEF Init, CallTypes, Collected, NothingCollected
<1>2. ASSUME NEW c \in Calls PROVE Kept(c)
  <2>1. SubSeq(<<>>, 1, 0) = <<>> /\ Len(<<>>) = 0
    BY SubSeqEmpty
  <2>2. /\ kind[c] = Kind(LookupTools, "node_status", "single") /\ body[c] = <<>>
        /\ sentTo[c] = 0 /\ got[c] = NothingCollected
    BY DEF Init
  <2>3. Drained(c)
    BY <2>1, <2>2, NodeClientAssumption DEF Drained, NothingCollected
  <2>4. ~kind[c].uploads /\ ~kind[c].streamed
    BY <2>2, FirstKind
  <2> QED
    BY <2>3, <2>4, NodeToolsAssumption DEF Init, Kept, PollsCounted, BytesKept
<1> QED
  BY <1>1, <1>2, InitSInv DEF BInv

\* A body is bytes.
LEMMA BodyBytes ==
  ASSUME CallTypes, NEW c \in Calls
  PROVE  /\ body[c] \in Seq(Nat) /\ Len(body[c]) \in Nat /\ kind[c] \in Kinds
         /\ sentTo[c] \in Nat /\ polls[c] \in Nat /\ got[c] \in Collected
         /\ SubSeq(body[c], 1, 0) = <<>>
<1>1. body[c] \in Bodies \cup {<<>>}
  BY DEF CallTypes
<1>2. body[c] \in Seq(Nat) /\ Len(body[c]) \in Nat
  <2>1. body[c] \in Seq(Nat)
    BY <1>1, NodeToolsAssumption, EmptySeq
  <2> QED
    BY <2>1, LenProperties
<1>3. SubSeq(body[c], 1, 0) = <<>>
  BY SubSeqEmpty
<1> QED
  BY <1>2, <1>3 DEF CallTypes

\* A call that nothing happens to keeps what it has.
LEMMA OthersKeepTheirs ==
  ASSUME NEW d \in Calls, Kept(d),
         pc'[d] = pc[d], kind'[d] = kind[d], step'[d] = step[d], request'[d] = request[d],
         polls'[d] = polls[d], body'[d] = body[d], sentTo'[d] = sentTo[d],
         got'[d] = got[d], answer'[d] = answer[d]
  PROVE  Kept(d)'
BY DEF Kept, PollsCounted, BytesKept, Uploaded, Drained

\* The caller reads the nonce, and begins or is rejected.
LEMMA BeginningKeeps ==
  ASSUME BInv, NEW c \in Calls,
         \/ ReadNonce(c) \/ Reject(c)
         \/ \E k \in Kinds, i \in Identities, b \in Bodies \cup {<<>>} : Begin(c, k, i, b)
  PROVE  CallTypes' /\ \A d \in Calls : Kept(d)'
<1> USE DEF BInv, SInv, SignatureTypes
<1>1. CASE ReadNonce(c)
  <2> USE <1>1 DEF ReadNonce, Move, asked, stream
  <2>1. CallTypes'
    BY DEF CallTypes
  <2>2. Kept(c)'
    BY DEF Kept, PollsCounted, BytesKept, Uploaded, Drained
  <2>3. ASSUME NEW d \in Calls, d # c PROVE Kept(d)'
    BY <2>3, OthersKeepTheirs
  <2> QED
    BY <2>1, <2>2, <2>3
<1>2. CASE Reject(c)
  <2> USE <1>2 DEF Reject, Answers, Move, asked, stream
  <2>1. CallTypes'
    BY DEF CallTypes
  <2>2. Kept(c)'
    <3>1. sentTo'[c] = sentTo[c] /\ answer'[c] = "error" /\ pc'[c] = "answered"
      BY DEF CallTypes
    <3> QED
      BY <3>1 DEF Kept, PollsCounted, BytesKept, Uploaded, Drained
  <2>3. ASSUME NEW d \in Calls, d # c PROVE Kept(d)'
    BY <2>3, OthersKeepTheirs DEF CallTypes
  <2> QED
    BY <2>1, <2>2, <2>3
<1>3. ASSUME NEW k \in Kinds, NEW i \in Identities, NEW b \in Bodies \cup {<<>>},
             Begin(c, k, i, b)
      PROVE  CallTypes' /\ \A d \in Calls : Kept(d)'
  <2> USE <1>3 DEF Begin, Move, stream
  <2>1. CallTypes'
    BY DEF CallTypes
  <2>2. Kept(c)'
    <3>1. /\ pc[c] \in {"idle", "read"} /\ pc'[c] = "begun" /\ kind'[c] = k /\ body'[c] = b
          /\ UNCHANGED <<step, request, polls, sentTo, got, answer>>
      BY DEF CallTypes
    <3>2. got[c] = NothingCollected /\ sentTo[c] = 0 /\ polls[c] = 0 /\ answer[c] = "none"
      BY <3>1 DEF Kept, BytesKept, PollsCounted
    <3>3. request[c] = "none"
      BY <3>1 DEF CallInv, Unsent
    <3>4. SubSeq(b, 1, 0) = <<>> /\ Len(b) \in Nat
      BY SubSeqEmpty, NodeToolsAssumption
    <3>5. Uploaded(c)' /\ Drained(c)'
      BY <3>1, <3>2, <3>3, <3>4, NodeClientAssumption DEF Uploaded, Drained, NothingCollected
    <3>6. BytesKept(c)'
      BY <3>1, <3>2, <3>5 DEF BytesKept
    <3> QED
      BY <3>1, <3>2, <3>6 DEF Kept, PollsCounted
  <2>3. ASSUME NEW d \in Calls, d # c PROVE Kept(d)'
    BY <2>3, OthersKeepTheirs DEF CallTypes
  <2> QED
    BY <2>1, <2>2, <2>3
<1> QED
  BY <1>1, <1>2, <1>3
\* A request leaves.
LEMMA SendingKeepsTheirs ==
  ASSUME BInv, NEW c \in Calls, NEW from, NEW which \in {"lookup", "main"},
         Sends(c, from, which), which = "lookup" => from = "begun",
         \/ from \in {"begun", "gating"}
         \/ from = "waiting" /\ (step[c] = "lookup" \/ polls[c] < MaxPolls),
         UNCHANGED <<nonce, asked, known, stream, answer>>
  PROVE  CallTypes' /\ \A d \in Calls : Kept(d)'
<1> USE DEF BInv, SInv, SignatureTypes, Sends, Move, asked, stream
<1>1. CallTypes'
  BY DEF CallTypes
<1>2. Kept(c)'
  <2>1. /\ pc[c] = from /\ pc'[c] = "waiting" /\ step'[c] = which /\ request'[c] # "taken"
        /\ polls'[c] = polls[c] + 1 /\ polls[c] \in Nat
    BY DEF CallTypes
  <2>2. polls[c] <= (IF which = "lookup" THEN 0 ELSE MaxPolls)
    BY <2>1, NodeToolsAssumption DEF Kept, PollsCounted
  <2>3. PollsCounted(c)'
    BY <2>1, <2>2, NodeToolsAssumption DEF PollsCounted
  <2> QED
    BY <2>1, <2>3 DEF Kept, BytesKept, Uploaded, Drained
<1>3. ASSUME NEW d \in Calls, d # c PROVE Kept(d)'
  BY <1>3, OthersKeepTheirs DEF CallTypes
<1> QED
  BY <1>1, <1>2, <1>3

\* A call moves on to the gate, or to a stream.
LEMMA MovingKeepsTheirs ==
  ASSUME BInv, NEW c \in Calls, NEW from, NEW to,
         Move(c, from, to),
         \/ to = "gating" /\ from \in {"begun", "waiting"} /\ (from = "waiting" => step[c] = "lookup")
         \/ to = "streaming" /\ from = "waiting" /\ kind[c].streamed,
         UNCHANGED <<nonce, asked, known, step, request, polls, stream, answer>>
  PROVE  CallTypes' /\ \A d \in Calls : Kept(d)'
<1> USE DEF BInv, SInv, SignatureTypes, Move, asked, stream
<1>1. CallTypes'
  BY DEF CallTypes
<1>2. Kept(c)'
  <2>1. pc[c] = from /\ pc'[c] = to /\ sentTo[c] = 0 /\ answer[c] = "none"
    BY DEF Kept, BytesKept
  <2>2. ~got[c].truncated
    BY <2>1, NodeClientAssumption DEF Kept, BytesKept, Uploaded, Drained
  <2> QED
    BY <2>1, <2>2 DEF Kept, PollsCounted, BytesKept, Uploaded, Drained
<1>3. ASSUME NEW d \in Calls, d # c PROVE Kept(d)'
  BY <1>3, OthersKeepTheirs DEF CallTypes
<1> QED
  BY <1>1, <1>2, <1>3

\* A call is answered, with "ok" if it has what it asked for.
LEMMA AnsweringKeepsTheirs ==
  ASSUME BInv, NEW c \in Calls, NEW from, NEW what \in {"ok", "error", "blocked"},
         Answers(c, from, what),
         what = "ok" => /\ kind[c].uploads => request[c] = "taken"
                        /\ kind[c].streamed => sentTo[c] = Len(body[c]),
         from \notin {"idle", "read", "begun"} \/ what = "error",
         UNCHANGED <<nonce, asked, known, step, request, polls, stream>>
  PROVE  CallTypes' /\ \A d \in Calls : Kept(d)'
<1> USE DEF BInv, SInv, SignatureTypes, Answers, Move, asked, stream
<1>1. CallTypes'
  BY DEF CallTypes
<1>2. Kept(c)'
  <2>1. pc'[c] = "answered" /\ answer'[c] = what
    BY DEF CallTypes
  <2> QED
    BY <2>1 DEF Kept, PollsCounted, BytesKept, Uploaded, Drained
<1>3. ASSUME NEW d \in Calls, d # c PROVE Kept(d)'
  BY <1>3, OthersKeepTheirs DEF CallTypes
<1> QED
  BY <1>1, <1>2, <1>3

\* From the verdict on the arguments to the last answer.
LEMMA TheHandlerKeepsTheirs ==
  ASSUME BInv, NEW c \in Calls, Proceed(c) \/ Gate(c) \/ Respond(c) \/ Expire(c)
  PROVE  CallTypes' /\ \A d \in Calls : Kept(d)'
<1> USE DEF stream, asked, history
<1>1. CASE Proceed(c)
  <2>1. \/ Move(c, "begun", "gating") /\ UNCHANGED <<step, request, polls>>
        \/ Sends(c, "begun", "lookup")
        \/ Sends(c, "begun", "main")
    BY <1>1 DEF Proceed
  <2> QED
    BY <1>1, <2>1, MovingKeepsTheirs, SendingKeepsTheirs DEF Proceed
<1>2. CASE Gate(c)
  <2>1. \/ Sends(c, "gating", "main") /\ UNCHANGED answer
        \/ Answers(c, "gating", "blocked") /\ UNCHANGED <<step, request, polls>>
    BY <1>2 DEF Gate
  <2> QED
    BY <1>2, <2>1, AnsweringKeepsTheirs, SendingKeepsTheirs DEF Gate
<1>3. CASE Respond(c)
  <2>1. \/ /\ step[c] = "lookup" /\ Move(c, "waiting", "gating")
           /\ UNCHANGED <<step, request, polls, answer>>
        \/ step[c] = "lookup" /\ Sends(c, "waiting", "main") /\ UNCHANGED answer
        \/ polls[c] < MaxPolls /\ Sends(c, "waiting", "main") /\ UNCHANGED answer
        \/ Answers(c, "waiting", "error") /\ UNCHANGED <<step, request, polls>>
        \/ /\ Answers(c, "waiting", "ok") /\ UNCHANGED <<step, request, polls>>
           /\ request[c] = "taken" /\ ~kind[c].streamed
        \/ /\ Move(c, "waiting", "streaming") /\ kind[c].streamed
           /\ UNCHANGED <<step, request, polls, answer>>
    BY <1>3 DEF Respond, AfterLookup
  <2> QED
    BY <1>3, <2>1, MovingKeepsTheirs, SendingKeepsTheirs, AnsweringKeepsTheirs DEF Respond
<1>4. CASE Expire(c)
  <2>1. \/ /\ Answers(c, "waiting", "error") \/ Answers(c, "streaming", "error")
           /\ UNCHANGED <<step, request, polls>>
        \/ step[c] = "lookup" /\ Sends(c, "waiting", "main") /\ UNCHANGED answer
    BY <1>4 DEF Expire
  <2> QED
    BY <1>4, <2>1, SendingKeepsTheirs, AnsweringKeepsTheirs DEF Expire
<1> QED
  BY <1>1, <1>2, <1>3, <1>4
\* The node takes a request, with the upload it carries, or refuses it.
LEMMA TheNodeKeepsTheirs ==
  ASSUME BInv, NEW c \in Calls, FetchNonce(c) \/ Take(c) \/ Refuse(c)
  PROVE  CallTypes' /\ \A d \in Calls : Kept(d)'
<1> USE DEF BInv, SInv, SignatureTypes, asked, stream
<1>1. pc[c] \notin {"idle", "read", "begun"} /\ request[c] \in {"fetching", "sent"}
  BY DEF CallInv, Unsent, FetchNonce, Take, Refuse
<1>2. CASE FetchNonce(c) \/ Refuse(c)
  <2>1. /\ UNCHANGED <<nonce, pc, asked, step, polls, stream, answer>>
        /\ known' \in [Calls -> Nat]
        /\ \A d \in Calls : d # c => request'[d] = request[d]
        /\ request'[c] # "taken"
    <3>1. CASE FetchNonce(c)
      BY <3>1 DEF FetchNonce, CallTypes
    <3>2. CASE Refuse(c)
      BY <3>2 DEF Refuse, CallTypes
    <3> QED
      BY <1>2, <3>1, <3>2
  <2>2. CallTypes'
    BY <2>1 DEF CallTypes
  <2>3. Kept(c)'
    BY <1>1, <2>1 DEF Kept, PollsCounted, BytesKept, Uploaded, Drained
  <2>4. ASSUME NEW d \in Calls, d # c PROVE Kept(d)'
    BY <2>1, <2>4, OthersKeepTheirs
  <2> QED
    BY <2>2, <2>3, <2>4
<1>3. CASE Take(c)
  <2> DEFINE bytes == IF kind[c].uploads THEN FlattenSeq(chunkedUint8(body[c])) ELSE got[c].bytes
  <2>1. bytes = (IF kind[c].uploads THEN body[c] ELSE got[c].bytes) /\ bytes \in Seq(Nat)
    BY BodyBytes, FramesAreWhole DEF Collected
  <2> HIDE DEF bytes
  <2>2. /\ got' = [got EXCEPT ![c].bytes = bytes]
        /\ UNCHANGED <<pc, asked, known, step, polls, sentTo, answer>>
        /\ request' = [request EXCEPT ![c] = "taken"]
        /\ nonce' \in {nonce, known[c] + 1}
    BY <1>3 DEF Take, bytes, SignedNonce
  <2>3. /\ got'[c].bytes = bytes /\ got'[c].totalRead = got[c].totalRead
        /\ got'[c].truncated = got[c].truncated
        /\ \A d \in Calls : d # c => got'[d] = got[d]
        /\ got' \in [Calls -> Collected]
    <3> DEFINE e == [got[c] EXCEPT !.bytes = bytes]
    <3>1. got \in [Calls -> Collected] /\ got[c] \in Collected
      BY DEF CallTypes
    <3>2. /\ e \in Collected /\ e.bytes = bytes
          /\ e.totalRead = got[c].totalRead /\ e.truncated = got[c].truncated
      BY <2>1, <3>1 DEF Collected
    <3>3. got' = [got EXCEPT ![c] = e]
      BY <2>2
    <3> HIDE DEF e
    <3> QED
      BY <3>1, <3>2, <3>3
  <2>4. CallTypes'
    BY <2>2, <2>3 DEF CallTypes
  <2>5. request'[c] = "taken" /\ \A d \in Calls : d # c => request'[d] = request[d]
    BY <2>2
  <2>6. Kept(c)'
    BY <1>1, <2>1, <2>2, <2>3, <2>5 DEF Kept, PollsCounted, BytesKept, Uploaded, Drained
  <2>7. ASSUME NEW d \in Calls, d # c PROVE Kept(d)'
    BY <2>2, <2>3, <2>5, <2>7, OthersKeepTheirs
  <2> QED
    BY <2>4, <2>6, <2>7
<1> QED
  BY <1>2, <1>3

\* A frame arrives, or there are no more.
LEMMA StreamsKeepTheirs ==
  ASSUME BInv, NEW c \in Calls,
         EndOfStream(c) \/ \E n \in 1..MaxFrame : Frame(c, n)
  PROVE  CallTypes' /\ \A d \in Calls : Kept(d)'
<1> USE DEF BInv
<1>1. CASE EndOfStream(c)
  <2>1. /\ sentTo[c] = Len(body[c]) /\ pc[c] = "streaming" /\ Answers(c, "streaming", "ok")
        /\ UNCHANGED <<nonce, asked, known, step, request, polls, stream>>
    BY <1>1 DEF EndOfStream, Answers, Move
  <2>2. ~kind[c].uploads
    <3>1. kind[c].streamed /\ kind[c] \in Kinds
      BY <2>1, BodyBytes DEF Kept, BytesKept
    <3> QED
      BY <3>1, KindsDiffer
  <2> QED
    BY <2>1, <2>2, AnsweringKeepsTheirs
<1>2. ASSUME NEW n \in 1..MaxFrame, Frame(c, n)
      PROVE  CallTypes' /\ \A d \in Calls : Kept(d)'
  <2> DEFINE b == body[c]
             m == sentTo[c]
             now == Collect(got[c], SubSeq(b, m + 1, m + n), kind[c].capped)
  <2>1. /\ pc[c] = "streaming" /\ m + n <= Len(b)
        /\ sentTo' = [sentTo EXCEPT ![c] = m + n] /\ got' = [got EXCEPT ![c] = now]
        /\ UNCHANGED <<nonce, asked, known, step, request, polls>>
        /\ \/ now.truncated /\ Answers(c, "streaming", "ok")
           \/ ~now.truncated /\ UNCHANGED <<pc, answer>>
    BY <1>2 DEF Frame
  <2>2. /\ kind[c] \in Kinds /\ b \in Seq(Nat) /\ m \in Nat /\ n \in Nat \ {0}
        /\ got[c] \in Collected
    BY BodyBytes, NodeToolsAssumption
  <2>3. kind[c].streamed /\ ~got[c].truncated /\ ~kind[c].uploads /\ kind[c].capped \in BOOLEAN
    <3>1. kind[c].streamed /\ ~got[c].truncated
      BY <2>1 DEF Kept, BytesKept
    <3> QED
      BY <2>2, <3>1, KindsDiffer
  <2>4. /\ got[c].bytes = SubSeq(b, 1, m) /\ got[c].totalRead = m
        /\ kind[c].capped => m <= maxBytes
    BY <2>3 DEF Kept, BytesKept, Drained
  <2>5. /\ now \in Collected /\ now.totalRead = m + n
        /\ ~now.truncated =>
             now.bytes = SubSeq(b, 1, m + n) /\ (kind[c].capped => m + n <= maxBytes)
        /\ now.truncated =>
             kind[c].capped /\ maxBytes < m + n /\ now.bytes = SubSeq(b, 1, maxBytes)
    <3>1. Holds(now, b, m + n, kind[c].capped)
      <4> DEFINE g == got[c]
                 capped == kind[c].capped
      <4> HIDE DEF b, m, g, capped
      <4>1. /\ b \in Seq(Nat) /\ m \in Nat /\ n \in Nat \ {0} /\ m + n <= Len(b)
            /\ capped \in BOOLEAN /\ (capped => m <= maxBytes)
            /\ g \in Collected /\ g.bytes = SubSeq(b, 1, m) /\ g.totalRead = m
        BY <2>1, <2>2, <2>3, <2>4 DEF g, capped
      <4>2. now = Collect(g, SubSeq(b, m + 1, m + n), capped)
        BY DEF g, capped
      <4> HIDE DEF now
      <4> QED
        BY <4>1, <4>2, CollectKeeps DEF capped
    <3> QED
      BY <3>1 DEF Holds
  <2> HIDE DEF now
  <2>6. /\ sentTo'[c] = m + n /\ got'[c] = now /\ UNCHANGED <<kind, body>>
        /\ \A d \in Calls : d # c => sentTo'[d] = sentTo[d] /\ got'[d] = got[d]
    BY <2>1 DEF CallTypes, asked
  <2>7. Drained(c)'
    BY <2>1, <2>5, <2>6 DEF Drained
  <2>8. /\ pc'[c] = (IF now.truncated THEN "answered" ELSE "streaming")
        /\ answer'[c] = (IF now.truncated THEN "ok" ELSE answer[c])
        /\ \A d \in Calls : d # c => pc'[d] = pc[d] /\ answer'[d] = answer[d]
        /\ answer' \in [Calls -> {"none", "ok", "error", "blocked"}]
    BY <2>1 DEF Answers, Move, CallTypes, SInv, SignatureTypes
  <2>9. answer[c] = "none"
    BY <2>1 DEF Kept, BytesKept
  <2>10. BytesKept(c)'
    BY <2>1, <2>3, <2>6, <2>7, <2>8, <2>9 DEF BytesKept
  <2>11. Kept(c)'
    BY <2>1, <2>8, <2>10 DEF Kept, PollsCounted
  <2>12. CallTypes'
    <3>1. sentTo' \in [Calls -> Nat] /\ got' \in [Calls -> Collected]
      BY <2>1, <2>2, <2>5 DEF CallTypes
    <3> QED
      BY <2>1, <2>8, <3>1 DEF CallTypes, asked
  <2>13. ASSUME NEW d \in Calls, d # c PROVE Kept(d)'
    BY <2>1, <2>6, <2>8, <2>13, OthersKeepTheirs DEF asked
  <2> QED
    BY <2>11, <2>12, <2>13
<1> QED
  BY <1>1, <1>2

\* Every step keeps the invariant of the streams.
LEMMA NextKeepsBInv == BInv /\ [Next]_vars => BInv'
<1> SUFFICES ASSUME BInv, [Next]_vars PROVE BInv'
  OBVIOUS
<1>1. SInv'
  BY NextKeepsSInv DEF BInv
<1>2. CASE UNCHANGED vars
  <2>1. CallTypes' /\ \A d \in Calls : Kept(d)'
    BY <1>2, OthersKeepTheirs DEF vars, asked, stream, history, BInv, CallTypes
  <2> QED
    BY <1>1, <2>1 DEF BInv
<1>3. CASE Next
  <2>1. PICK c \in Calls :
          \/ ReadNonce(c)
          \/ \E k \in Kinds, i \in Identities, b \in Bodies \cup {<<>>} : Begin(c, k, i, b)
          \/ Reject(c) \/ Proceed(c) \/ Gate(c)
          \/ FetchNonce(c) \/ Take(c) \/ Refuse(c)
          \/ Respond(c) \/ Expire(c)
          \/ \E n \in 1..MaxFrame : Frame(c, n)
          \/ EndOfStream(c)
    BY <1>3 DEF Next
  <2>2. CallTypes' /\ \A d \in Calls : Kept(d)'
    BY <2>1, BeginningKeeps, TheHandlerKeepsTheirs, TheNodeKeepsTheirs, StreamsKeepTheirs
  <2> QED
    BY <1>1, <2>2 DEF BInv
<1> QED
  BY <1>2, <1>3

\* So it holds always.
LEMMA BInvHolds == Spec => []BInv
<1>1. Init => BInv
  BY InitBInv
<1>2. BInv /\ [Next]_vars => BInv'
  BY NextKeepsBInv
<1> QED
  BY <1>1, <1>2, PTL DEF Spec

\* How long what is collected is.
LEMMA CollectedLength ==
  ASSUME BInv, NEW c \in Calls, ~kind[c].uploads
  PROVE  /\ Len(got[c].bytes) = (IF got[c].truncated THEN maxBytes ELSE sentTo[c])
         /\ got[c].bytes = SubSeq(body[c], 1, Len(got[c].bytes))
         /\ sentTo[c] <= Len(body[c])
<1>1. body[c] \in Seq(Nat) /\ sentTo[c] \in Nat /\ Len(body[c]) \in Nat
  BY BodyBytes DEF BInv
<1>2. Drained(c)
  BY DEF BInv, Kept, BytesKept
<1>3. ASSUME NEW n \in Nat, n <= Len(body[c]) PROVE Len(SubSeq(body[c], 1, n)) = n
  <2>1. \A i \in 1..n : body[c][i] \in Nat
    BY <1>1, <1>3, ElementOfSeq
  <2>2. Len(SubSeq(body[c], 1, n)) = IF 1 <= n THEN n - 1 + 1 ELSE 0
    BY <2>1, SubSeqProperties
  <2> QED
    BY <2>2
<1> QED
  BY <1>1, <1>2, <1>3, NodeClientAssumption DEF Drained

\* Every variable holds a value of its kind, no call sends more often than it
\* may poll, and a capped collection never holds more than its cap.
THEOREM NodeToolsTypeCorrect == Spec => []TypeOK
<1>1. BInv => TypeOK
  <2> SUFFICES ASSUME BInv PROVE TypeOK
    OBVIOUS
  <2>1. ASSUME NEW c \in Calls
        PROVE  /\ body[c] \in Bodies \cup {<<>>}
               /\ sentTo[c] \in 0..Len(body[c])
               /\ got[c].totalRead \in 0..Len(body[c])
               /\ kind[c].capped => Len(got[c].bytes) <= maxBytes
    <3>1. /\ body[c] \in Bodies \cup {<<>>} /\ sentTo[c] \in Nat /\ Len(body[c]) \in Nat
          /\ kind[c] \in Kinds
      BY BodyBytes DEF BInv, CallTypes
    <3>2. CASE kind[c].uploads
      BY <3>1, <3>2, KindsDiffer DEF BInv, Kept, BytesKept, Uploaded
    <3>3. CASE ~kind[c].uploads
      BY <3>1, <3>3, CollectedLength, NodeClientAssumption DEF BInv, Kept, BytesKept, Drained
    <3> QED
      BY <3>2, <3>3
  <2>2. polls \in [Calls -> 0..(MaxPolls + 1)]
    <3>1. \A c \in Calls : polls[c] \in 0..(MaxPolls + 1)
      BY NodeToolsAssumption DEF BInv, CallTypes, Kept, PollsCounted
    <3> QED
      BY <3>1 DEF BInv, CallTypes
  <2> QED
    BY <2>1, <2>2 DEF TypeOK, BInv, CallTypes, SInv, SignatureTypes
<1> QED
  BY <1>1, BInvHolds, PTL

\* An answer "ok" has every byte of the stream or the file, in order, and
\* nothing else; or it says that it was cut, stops at the cap and knows of more.
THEOREM BytesArrive == Spec => []BytesArriveWhole
<1>1. BInv => BytesArriveWhole
  <2> SUFFICES ASSUME BInv, NEW c \in Calls, answer[c] = "ok",
                      kind[c].streamed \/ kind[c].uploads
               PROVE  /\ IsPrefix(got[c].bytes, body[c])
                      /\ ~got[c].truncated => got[c].bytes = body[c]
                      /\ got[c].truncated =>
                           /\ kind[c].capped /\ Len(got[c].bytes) = maxBytes
                           /\ maxBytes < Len(body[c]) /\ maxBytes < got[c].totalRead
    BY DEF BytesArriveWhole
  <2>1. body[c] \in Seq(Nat) /\ Len(body[c]) \in Nat /\ SubSeq(body[c], 1, Len(body[c])) = body[c]
    BY BodyBytes, SubSeqFull DEF BInv
  <2>2. CASE kind[c].uploads
    <3>1. got[c].bytes = body[c] /\ ~got[c].truncated
      BY <2>2 DEF BInv, Kept, BytesKept, Uploaded
    <3> QED
      BY <2>1, <3>1 DEF IsPrefix
  <2>3. CASE ~kind[c].uploads
    <3>1. Drained(c) /\ (got[c].truncated \/ sentTo[c] = Len(body[c]))
      BY <2>3 DEF BInv, Kept, BytesKept
    <3>2. /\ Len(got[c].bytes) = (IF got[c].truncated THEN maxBytes ELSE sentTo[c])
          /\ got[c].bytes = SubSeq(body[c], 1, Len(got[c].bytes))
          /\ sentTo[c] <= Len(body[c]) /\ sentTo[c] \in Nat
      BY <2>3, CollectedLength, BodyBytes DEF BInv
    <3>3. IsPrefix(got[c].bytes, body[c])
      <4> DEFINE n == Len(got[c].bytes)
      <4>1. n <= Len(body[c]) /\ n \in Nat
        BY <2>1, <3>1, <3>2, NodeClientAssumption DEF Drained
      <4>2. SubSeq(got[c].bytes, 1, n) = got[c].bytes
        BY BodyBytes, SubSeqFull DEF BInv, Collected
      <4> QED
        BY <3>2, <4>1, <4>2 DEF IsPrefix
    <3>4. CASE got[c].truncated
      BY <2>1, <3>1, <3>2, <3>3, <3>4, NodeClientAssumption DEF Drained
    <3>5. CASE ~got[c].truncated
      BY <2>1, <3>1, <3>2, <3>3, <3>5
    <3> QED
      BY <3>4, <3>5
  <2> QED
    BY <2>2, <2>3
<1> QED
  BY <1>1, BInvHolds, PTL
=============================================================================
