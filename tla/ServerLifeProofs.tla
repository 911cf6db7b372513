-------------------------- MODULE ServerLifeProofs --------------------------
(***************************************************************************)
(* The session metrics never drift, the tracker never passes its cap, the  *)
(* user windows show the users of the window, and an exit loses nothing:   *)
(* for any number of sessions and requests, any cap, and any calendar.     *)
(***************************************************************************)
EXTENDS ServerLife, TLAPS, FiniteSetTheorems

(***************************************************************************)
(* The Map's keys, as a sequence without repetition.                       *)
(***************************************************************************)
Holds(s, i) == \E n \in DOMAIN s : s[n] = i

Keys(s) == s \in Seq(SessionIds) /\ \A m, n \in DOMAIN s : s[m] = s[n] => m = n

\* A key that is not there is inserted last.
LEMMA AppendKeys ==
  ASSUME NEW s, Keys(s), NEW i \in SessionIds, ~Holds(s, i)
  PROVE  /\ Keys(Append(s, i)) /\ Len(Append(s, i)) = Len(s) + 1
         /\ \A j \in SessionIds : Holds(Append(s, i), j) <=> Holds(s, j) \/ j = i
<1> DEFINE t == Append(s, i)
<1>1. /\ t \in Seq(SessionIds) /\ Len(t) = Len(s) + 1 /\ Len(s) \in Nat
      /\ DOMAIN t = 1..(Len(s) + 1) /\ DOMAIN s = 1..Len(s)
      /\ t[Len(s) + 1] = i /\ \A n \in 1..Len(s) : t[n] = s[n]
  BY DEF Keys
<1> HIDE DEF t
<1>2. Keys(t)
  BY <1>1 DEF Keys, Holds
<1>3. \A j \in SessionIds : Holds(t, j) <=> Holds(s, j) \/ j = i
  BY <1>1 DEF Holds
<1> QED
  BY <1>1, <1>2, <1>3 DEF t

\* A key is taken out, and the others keep their order.
LEMMA RemoveKeys ==
  ASSUME NEW s, Keys(s), NEW p \in DOMAIN s
  PROVE  /\ Keys(RemoveAt(s, p)) /\ Len(RemoveAt(s, p)) = Len(s) - 1
         /\ \A j \in SessionIds : Holds(RemoveAt(s, p), j) <=> Holds(s, j) /\ j # s[p]
<1> DEFINE t == RemoveAt(s, p)
           a == SubSeq(s, 1, p - 1)
           b == SubSeq(s, p + 1, Len(s))
<1>1. /\ Len(s) \in Nat /\ DOMAIN s = 1..Len(s) /\ p \in 1..Len(s)
      /\ \A n \in 1..Len(s) : s[n] \in SessionIds
  BY DEF Keys
<1>2. /\ a \in Seq(SessionIds) /\ Len(a) = p - 1 /\ \A n \in 1..(p - 1) : a[n] = s[n]
  BY <1>1 DEF Keys
<1>3. /\ b \in Seq(SessionIds) /\ Len(b) = Len(s) - p
      /\ \A n \in 1..(Len(s) - p) : b[n] = s[n + p]
  BY <1>1 DEF Keys
<1> HIDE DEF a, b
<1>4. t = a \o b
  BY DEF t, a, b, RemoveAt
<1>5. /\ t \in Seq(SessionIds) /\ Len(t) = Len(s) - 1 /\ DOMAIN t = 1..(Len(s) - 1)
      /\ \A n \in 1..(Len(s) - 1) : t[n] = IF n < p THEN s[n] ELSE s[n + 1]
  <2>1. /\ t \in Seq(SessionIds) /\ Len(t) = Len(a) + Len(b) /\ DOMAIN t = 1..(Len(a) + Len(b))
        /\ \A n \in 1..(Len(a) + Len(b)) : t[n] = IF n <= Len(a) THEN a[n] ELSE b[n - Len(a)]
    BY <1>2, <1>3, <1>4
  <2>2. Len(t) = Len(s) - 1 /\ DOMAIN t = 1..(Len(s) - 1)
    BY <1>1, <1>2, <1>3, <2>1
  <2>3. ASSUME NEW n \in 1..(Len(s) - 1)
        PROVE  t[n] = IF n < p THEN s[n] ELSE s[n + 1]
    <3>1. CASE n < p
      BY <1>1, <1>2, <1>3, <2>1, <3>1
    <3>2. CASE n >= p
      <4>1. t[n] = b[n - (p - 1)] /\ n - (p - 1) \in 1..(Len(s) - p)
        BY <1>1, <1>2, <1>3, <2>1, <3>2
      <4>2. b[n - (p - 1)] = s[n - (p - 1) + p]
        BY <1>3, <4>1
      <4> QED
        BY <1>1, <3>2, <4>1, <4>2
    <3> QED
      BY <1>1, <3>1, <3>2
  <2> QED
    BY <2>1, <2>2, <2>3
<1> HIDE DEF t
<1>6. Keys(t)
  BY <1>1, <1>5 DEF Keys
<1>7. ASSUME NEW j \in SessionIds PROVE Holds(t, j) <=> Holds(s, j) /\ j # s[p]
  <2>1. ASSUME Holds(t, j) PROVE Holds(s, j) /\ j # s[p]
    BY <1>1, <1>5, <2>1 DEF Holds, Keys
  <2>2. ASSUME Holds(s, j), j # s[p] PROVE Holds(t, j)
    <3>1. PICK n \in 1..Len(s) : s[n] = j
      BY <1>1, <2>2 DEF Holds
    <3>2. CASE n < p
      BY <1>1, <1>5, <3>1, <3>2 DEF Holds
    <3>3. CASE n > p
      <4>1. n - 1 \in 1..(Len(s) - 1) /\ t[n - 1] = s[n]
        BY <1>1, <1>5, <3>1, <3>3
      <4> QED
        BY <1>5, <3>1, <4>1 DEF Holds
    <3> QED
      BY <1>1, <2>2, <3>1, <3>2, <3>3
  <2> QED
    BY <2>1, <2>2
<1> QED
  BY <1>5, <1>6, <1>7 DEF t

\* Both, as the tracker uses them.
LEMMA WithoutKeys ==
  ASSUME Keys(sessions), NEW i, Tracked(i)
  PROVE  /\ Keys(Without(i)) /\ Len(Without(i)) = Len(sessions) - 1
         /\ \A j \in SessionIds : Holds(Without(i), j) <=> Tracked(j) /\ j # i
<1> DEFINE p == CHOOSE n \in DOMAIN sessions : sessions[n] = i
<1>1. p \in DOMAIN sessions /\ sessions[p] = i
  BY DEF Tracked
<1> HIDE DEF p
<1>2. Without(i) = RemoveAt(sessions, p)
  BY DEF Without, p
<1> QED
  BY <1>1, <1>2, RemoveKeys DEF Tracked, Holds
-----------------------------------------------------------------------------
(***************************************************************************)
(* The books, for a set T of tracked ids.                                  *)
(***************************************************************************)
Of(T, k) == {i \in T : client[i] = k}
BusyOf(T, calls, k) == {i \in Of(T, k) : calls[i] > 0}

Balanced(T, calls, m, e) ==
  \A k \in Clients :
    /\ m["active"][k] = Cardinality(Of(T, k))
    /\ m["started"][k] =
         Cardinality(Of(T, k)) + m["duration"][k] + e["busy"][k] + e["idle"][k]
    /\ m["empty"][k] + m["firstCall"][k] =
         m["duration"][k] + Cardinality(BusyOf(T, calls, k)) + e["busy"][k]

Metrics == [Instruments -> [Clients -> Int]]
Evictions == [Fates -> [Clients -> Int]]

\* The instruments by name.
LEMMA Names == /\ "active" \in Instruments /\ "started" \in Instruments
               /\ "duration" \in Instruments /\ "empty" \in Instruments
               /\ "firstCall" \in Instruments
BY DEF Instruments

\* An instrument moves under one client's name.
LEMMA AddIs ==
  ASSUME NEW m \in Metrics, NEW x \in Instruments, NEW i, client[i] \in Clients,
         NEW n \in Int
  PROVE  /\ Add(m, x, i, n) \in Metrics
         /\ \A y \in Instruments, k \in Clients :
              Add(m, x, i, n)[y][k] = IF y = x /\ k = client[i] THEN m[y][k] + n ELSE m[y][k]
BY DEF Add, Metrics

\* The instruments and the dropped sessions of a client are counted in integers.
LEMMA Counts ==
  ASSUME NEW m \in Metrics, NEW e \in Evictions, NEW k \in Clients
  PROVE  /\ \A x \in Instruments : m[x][k] \in Int
         /\ e["busy"][k] \in Int /\ e["idle"][k] \in Int
BY DEF Metrics, Evictions, Fates

\* Sets of sessions are finite.
LEMMA Finite ==
  ASSUME NEW T \in SUBSET SessionIds, NEW calls, NEW k
  PROVE  /\ IsFiniteSet(Of(T, k)) /\ Cardinality(Of(T, k)) \in Nat
         /\ IsFiniteSet(BusyOf(T, calls, k)) /\ Cardinality(BusyOf(T, calls, k)) \in Nat
<1>1. IsFiniteSet(SessionIds)
  BY FS_Interval, SessionsAssumption DEF SessionIds
<1>2. Of(T, k) \in SUBSET SessionIds /\ BusyOf(T, calls, k) \in SUBSET SessionIds
  BY DEF Of, BusyOf
<1> QED
  BY <1>1, <1>2, FS_Subset, FS_CardinalityType

\* What taking an element out does to a finite set.
LEMMA OneLess ==
  ASSUME NEW S, IsFiniteSet(S), NEW i
  PROVE  Cardinality(S \ {i}) = IF i \in S THEN Cardinality(S) - 1 ELSE Cardinality(S)
<1>1. CASE i \in S
  BY <1>1, FS_RemoveElement
<1>2. CASE i \notin S
  <2>1. S \ {i} = S
    BY <1>2
  <2> QED
    BY <1>2, <2>1
<1> QED
  BY <1>1, <1>2

\* A new session starts without calls.
LEMMA InsertBalances ==
  ASSUME NEW T \in SUBSET SessionIds, NEW i \in SessionIds \ T, client[i] \in Clients,
         NEW calls \in [SessionIds -> Nat], NEW m \in Metrics, NEW e \in Evictions,
         Balanced(T, calls, m, e)
  PROVE  LET n == Add(Add(m, "active", i, 1), "started", i, 1)
         IN  n \in Metrics /\ Balanced(T \cup {i}, [calls EXCEPT ![i] = 0], n, e)
<1> DEFINE a == Add(m, "active", i, 1)
           n == Add(a, "started", i, 1)
           U == T \cup {i}
           new == [calls EXCEPT ![i] = 0]
<1>1. /\ a \in Metrics /\ \A y \in Instruments, k \in Clients :
           a[y][k] = IF y = "active" /\ k = client[i] THEN m[y][k] + 1 ELSE m[y][k]
  BY AddIs, Names
<1> HIDE DEF a
<1>2. /\ n \in Metrics /\ \A y \in Instruments, k \in Clients :
           n[y][k] = IF y = "started" /\ k = client[i] THEN a[y][k] + 1 ELSE a[y][k]
  BY <1>1, AddIs, Names
<1>3. ASSUME NEW k \in Clients
      PROVE  /\ Of(U, k) = IF client[i] = k THEN Of(T, k) \cup {i} ELSE Of(T, k)
             /\ i \notin Of(T, k)
             /\ BusyOf(U, new, k) = BusyOf(T, calls, k)
  BY DEF Of, BusyOf
<1>4. ASSUME NEW k \in Clients
      PROVE  Cardinality(Of(U, k)) =
               IF client[i] = k THEN Cardinality(Of(T, k)) + 1 ELSE Cardinality(Of(T, k))
  <2>1. IsFiniteSet(Of(T, k))
    BY Finite
  <2>2. Cardinality(Of(T, k) \cup {i}) = Cardinality(Of(T, k)) + 1
    BY <1>3, <2>1, FS_AddElement
  <2> QED
    BY <1>3, <2>2
<1>5. \A k \in Clients : /\ Cardinality(Of(T, k)) \in Nat
                         /\ Cardinality(BusyOf(T, calls, k)) \in Nat
  BY Finite
<1> HIDE DEF n, U, new
<1>6. ASSUME NEW k \in Clients
      PROVE  /\ n["active"][k] = IF k = client[i] THEN m["active"][k] + 1 ELSE m["active"][k]
             /\ n["started"][k] = IF k = client[i] THEN m["started"][k] + 1 ELSE m["started"][k]
             /\ n["duration"][k] = m["duration"][k]
             /\ n["empty"][k] = m["empty"][k] /\ n["firstCall"][k] = m["firstCall"][k]
  BY <1>1, <1>2, Names
<1>7. Balanced(U, new, n, e)
  BY <1>3, <1>4, <1>5, <1>6, Counts, Names DEF Balanced
<1> QED
  BY <1>2, <1>7 DEF a, n, U, new

\* A session dropped at the cap leaves the gauge and enters no histogram.
LEMMA EvictBalances ==
  ASSUME NEW T \in SUBSET SessionIds, NEW i \in T, client[i] \in Clients,
         NEW calls \in [SessionIds -> Nat], NEW m \in Metrics, NEW e \in Evictions,
         Balanced(T, calls, m, e)
  PROVE  LET n == Add(m, "active", i, -1)
             f == [e EXCEPT ![IF calls[i] > 0 THEN "busy" ELSE "idle"][client[i]] = @ + 1]
         IN  n \in Metrics /\ f \in Evictions /\ Balanced(T \ {i}, calls, n, f)
<1> DEFINE n == Add(m, "active", i, -1)
           f == [e EXCEPT ![IF calls[i] > 0 THEN "busy" ELSE "idle"][client[i]] = @ + 1]
           U == T \ {i}
<1>1. /\ n \in Metrics /\ \A y \in Instruments, k \in Clients :
           n[y][k] = IF y = "active" /\ k = client[i] THEN m[y][k] + (-1) ELSE m[y][k]
  BY AddIs, Names
<1>2. /\ f \in Evictions
      /\ \A k \in Clients :
           /\ f["busy"][k] = IF calls[i] > 0 /\ k = client[i] THEN e["busy"][k] + 1 ELSE e["busy"][k]
           /\ f["idle"][k] = IF ~(calls[i] > 0) /\ k = client[i] THEN e["idle"][k] + 1
                            ELSE e["idle"][k]
  <2>1. CASE calls[i] > 0
    <3>1. f = [e EXCEPT !["busy"][client[i]] = @ + 1]
      BY <2>1
    <3> QED
      BY <2>1, <3>1 DEF Evictions, Fates
  <2>2. CASE ~(calls[i] > 0)
    <3>1. f = [e EXCEPT !["idle"][client[i]] = @ + 1]
      BY <2>2
    <3> QED
      BY <2>2, <3>1 DEF Evictions, Fates
  <2> QED
    BY <2>1, <2>2
<1>3. ASSUME NEW k \in Clients
      PROVE  /\ Of(U, k) = Of(T, k) \ {i}
             /\ i \in Of(T, k) <=> client[i] = k
             /\ BusyOf(U, calls, k) = BusyOf(T, calls, k) \ {i}
             /\ i \in BusyOf(T, calls, k) <=> client[i] = k /\ calls[i] > 0
  BY DEF Of, BusyOf
<1>4. ASSUME NEW k \in Clients
      PROVE  /\ Cardinality(Of(U, k)) =
                  IF client[i] = k THEN Cardinality(Of(T, k)) - 1 ELSE Cardinality(Of(T, k))
             /\ Cardinality(BusyOf(U, calls, k)) =
                  IF client[i] = k /\ calls[i] > 0 THEN Cardinality(BusyOf(T, calls, k)) - 1
                  ELSE Cardinality(BusyOf(T, calls, k))
  <2>1. IsFiniteSet(Of(T, k)) /\ IsFiniteSet(BusyOf(T, calls, k))
    BY Finite
  <2>2. /\ Cardinality(Of(U, k)) = Cardinality(Of(T, k) \ {i})
        /\ Cardinality(BusyOf(U, calls, k)) = Cardinality(BusyOf(T, calls, k) \ {i})
    BY <1>3
  <2> HIDE DEF U
  <2> QED
    BY <1>3, <2>1, <2>2, OneLess
<1>5. \A k \in Clients : /\ Cardinality(Of(T, k)) \in Nat
                         /\ Cardinality(BusyOf(T, calls, k)) \in Nat
  BY Finite
<1> HIDE DEF n, f, U
<1>6. ASSUME NEW k \in Clients
      PROVE  /\ n["active"][k] = IF k = client[i] THEN m["active"][k] + (-1) ELSE m["active"][k]
             /\ n["started"][k] = m["started"][k] /\ n["duration"][k] = m["duration"][k]
             /\ n["empty"][k] = m["empty"][k] /\ n["firstCall"][k] = m["firstCall"][k]
  BY <1>1, Names
<1>7. Balanced(U, calls, n, f)
  BY <1>2, <1>4, <1>5, <1>6, Counts, Names DEF Balanced
<1> QED
  BY <1>1, <1>2, <1>7 DEF n, f, U

\* A session that ends is in the duration histogram, and is empty or not.
LEMMA EndBalances ==
  ASSUME NEW T \in SUBSET SessionIds, NEW i \in T, client[i] \in Clients,
         NEW calls \in [SessionIds -> Nat], NEW m \in Metrics, NEW e \in Evictions,
         Balanced(T, calls, m, e)
  PROVE  LET n == Add(Add(Add(m, "active", i, -1), "duration", i, 1),
                      "empty", i, IF calls[i] = 0 THEN 1 ELSE 0)
         IN  n \in Metrics /\ Balanced(T \ {i}, calls, n, e)
<1>7. PICK c \in Int : c = IF calls[i] = 0 THEN 1 ELSE 0
  OBVIOUS
<1> DEFINE a == Add(m, "active", i, -1)
           b == Add(a, "duration", i, 1)
           n == Add(b, "empty", i, c)
           U == T \ {i}
<1>0. calls[i] \in Nat
  OBVIOUS
<1>1. /\ a \in Metrics /\ \A y \in Instruments, k \in Clients :
           a[y][k] = IF y = "active" /\ k = client[i] THEN m[y][k] + (-1) ELSE m[y][k]
  BY AddIs, Names
<1> HIDE DEF a
<1>2. /\ b \in Metrics /\ \A y \in Instruments, k \in Clients :
           b[y][k] = IF y = "duration" /\ k = client[i] THEN a[y][k] + 1 ELSE a[y][k]
  BY <1>1, AddIs, Names
<1> HIDE DEF b
<1>3. /\ n \in Metrics /\ \A y \in Instruments, k \in Clients :
           n[y][k] = IF y = "empty" /\ k = client[i] THEN b[y][k] + c ELSE b[y][k]
  BY <1>2, AddIs, Names
<1>4. ASSUME NEW k \in Clients
      PROVE  /\ Of(U, k) = Of(T, k) \ {i}
             /\ i \in Of(T, k) <=> client[i] = k
             /\ BusyOf(U, calls, k) = BusyOf(T, calls, k) \ {i}
             /\ i \in BusyOf(T, calls, k) <=> client[i] = k /\ calls[i] > 0
  BY DEF Of, BusyOf
<1>5. ASSUME NEW k \in Clients
      PROVE  /\ Cardinality(Of(U, k)) =
                  IF client[i] = k THEN Cardinality(Of(T, k)) - 1 ELSE Cardinality(Of(T, k))
             /\ Cardinality(BusyOf(U, calls, k)) =
                  IF client[i] = k /\ calls[i] > 0 THEN Cardinality(BusyOf(T, calls, k)) - 1
                  ELSE Cardinality(BusyOf(T, calls, k))
  <2>1. IsFiniteSet(Of(T, k)) /\ IsFiniteSet(BusyOf(T, calls, k))
    BY Finite
  <2>2. /\ Cardinality(Of(U, k)) = Cardinality(Of(T, k) \ {i})
        /\ Cardinality(BusyOf(U, calls, k)) = Cardinality(BusyOf(T, calls, k) \ {i})
    BY <1>4
  <2> HIDE DEF U
  <2> QED
    BY <1>4, <2>1, <2>2, OneLess
<1>6. \A k \in Clients : /\ Cardinality(Of(T, k)) \in Nat
                         /\ Cardinality(BusyOf(T, calls, k)) \in Nat
  BY Finite
<1> HIDE DEF n, U
<1>8. ASSUME NEW k \in Clients
      PROVE  /\ n["active"][k] = IF k = client[i] THEN m["active"][k] + (-1) ELSE m["active"][k]
             /\ n["duration"][k] = IF k = client[i] THEN m["duration"][k] + 1 ELSE m["duration"][k]
             /\ n["empty"][k] = IF k = client[i] THEN m["empty"][k] + c ELSE m["empty"][k]
             /\ n["started"][k] = m["started"][k] /\ n["firstCall"][k] = m["firstCall"][k]
  BY <1>1, <1>2, <1>3, Names
<1>9. Balanced(U, calls, n, e)
  BY <1>0, <1>5, <1>6, <1>7, <1>8, Counts, Names DEF Balanced
<1> QED
  BY <1>3, <1>7, <1>9 DEF a, b, n, U

\* The first call of a session, and no other, is in the latency histogram.
LEMMA CallBalances ==
  ASSUME NEW T \in SUBSET SessionIds, NEW i \in T, client[i] \in Clients,
         NEW calls \in [SessionIds -> Nat], NEW m \in Metrics, NEW e \in Evictions,
         Balanced(T, calls, m, e)
  PROVE  LET n == Add(m, "firstCall", i, IF calls[i] = 0 THEN 1 ELSE 0)
         IN  n \in Metrics /\ Balanced(T, [calls EXCEPT ![i] = @ + 1], n, e)
<1>6. PICK c \in Int : c = IF calls[i] = 0 THEN 1 ELSE 0
  OBVIOUS
<1> DEFINE n == Add(m, "firstCall", i, c)
           new == [calls EXCEPT ![i] = @ + 1]
<1>0. calls[i] \in Nat
  OBVIOUS
<1>1. /\ n \in Metrics /\ \A y \in Instruments, k \in Clients :
           n[y][k] = IF y = "firstCall" /\ k = client[i] THEN m[y][k] + c ELSE m[y][k]
  BY AddIs, Names
<1>2. ASSUME NEW k \in Clients
      PROVE  /\ BusyOf(T, new, k) = IF client[i] = k THEN BusyOf(T, calls, k) \cup {i}
                                    ELSE BusyOf(T, calls, k)
             /\ client[i] = k => (i \in BusyOf(T, calls, k) <=> calls[i] # 0)
  BY DEF Of, BusyOf
<1>3. ASSUME NEW k \in Clients
      PROVE  Cardinality(BusyOf(T, new, k)) =
               IF client[i] = k /\ calls[i] = 0 THEN Cardinality(BusyOf(T, calls, k)) + 1
               ELSE Cardinality(BusyOf(T, calls, k))
  <2>1. IsFiniteSet(BusyOf(T, calls, k))
    BY Finite
  <2>2. CASE client[i] = k /\ calls[i] = 0
    <3>1. BusyOf(T, new, k) = BusyOf(T, calls, k) \cup {i} /\ i \notin BusyOf(T, calls, k)
      BY <1>2, <2>2
    <3>2. Cardinality(BusyOf(T, calls, k) \cup {i}) = Cardinality(BusyOf(T, calls, k)) + 1
      BY <2>1, <3>1, FS_AddElement
    <3> QED
      BY <2>2, <3>1, <3>2
  <2>3. CASE client[i] = k /\ calls[i] # 0
    <3>1. BusyOf(T, calls, k) \cup {i} = BusyOf(T, calls, k)
      BY <1>2, <2>3
    <3> QED
      BY <1>2, <2>3, <3>1
  <2>4. CASE client[i] # k
    BY <1>2, <2>4
  <2> QED
    BY <2>2, <2>3, <2>4
<1>4. \A k \in Clients : Cardinality(BusyOf(T, calls, k)) \in Nat
  BY Finite
<1>5. \A k \in Clients : Cardinality(Of(T, k)) \in Nat
  BY Finite
<1> HIDE DEF n, new
<1>7. ASSUME NEW k \in Clients
      PROVE  /\ n["firstCall"][k] = IF k = client[i] THEN m["firstCall"][k] + c
                                    ELSE m["firstCall"][k]
             /\ n["active"][k] = m["active"][k] /\ n["started"][k] = m["started"][k]
             /\ n["duration"][k] = m["duration"][k] /\ n["empty"][k] = m["empty"][k]
  BY <1>1, Names
<1>8. Balanced(T, new, n, e)
  BY <1>0, <1>3, <1>4, <1>5, <1>6, <1>7, Counts, Names DEF Balanced
<1> QED
  BY <1>1, <1>6, <1>8 DEF n, new-----------------------------------------------------------------------------
(***************************************************************************)
(* The tracker.  A pending request names a session with a client, and so   *)
(* does a tracked id: without that an instrument could move under no name. *)
(***************************************************************************)
Ids == {i \in SessionIds : Tracked(i)}

TrackInv ==
  /\ client \in [SessionIds -> Clients \cup {NoClient}]
  /\ pending \in [SessionIds -> SUBSET Requests]
  /\ \A i \in SessionIds : pending[i] # {} \/ Tracked(i) => client[i] \in Clients
  /\ Keys(sessions) /\ CapHolds
  /\ toolCalls \in [SessionIds -> Nat]
  /\ metrics \in Metrics /\ evicted \in Evictions
  /\ Balanced(Ids, toolCalls, metrics, evicted)

\* Balanced books add up.
LEMMA BalancedAddsUp == ASSUME TrackInv PROVE SessionsAddUp
<1>1. ASSUME NEW k
      PROVE  TrackedOf(k) = Of(Ids, k) /\ CallersOf(k) = BusyOf(Ids, toolCalls, k)
  BY DEF TrackedOf, CallersOf, Of, BusyOf, Ids
<1> QED
  BY <1>1 DEF TrackInv, Balanced, SessionsAddUp, GaugeIsTracked, StartedIsAccountedFor,
              EmptyOrActivated

\* Nothing is tracked at first.
LEMMA TrackInit == Init => TrackInv
<1> SUFFICES ASSUME Init PROVE TrackInv
  OBVIOUS
<1>1. sessions = <<>> /\ Keys(sessions) /\ Len(sessions) = 0 /\ ~\E i : Tracked(i)
  BY DEF Init, Keys, Tracked
<1>2. /\ client \in [SessionIds -> Clients \cup {NoClient}]
      /\ pending \in [SessionIds -> SUBSET Requests]
      /\ \A i \in SessionIds : pending[i] = {}
      /\ toolCalls \in [SessionIds -> Nat]
      /\ metrics \in Metrics /\ evicted \in Evictions
  BY DEF Init, Metrics, Evictions
<1>3. CapHolds
  BY <1>1, SessionsAssumption DEF CapHolds
<1>4. Balanced(Ids, toolCalls, metrics, evicted)
  <2>1. \A k : Of(Ids, k) = {} /\ BusyOf(Ids, toolCalls, k) = {}
    <3>1. Ids = {}
      BY <1>1 DEF Ids
    <3> QED
      BY <3>1 DEF Of, BusyOf
  <2>2. /\ \A x \in Instruments, k \in Clients : metrics[x][k] = 0
        /\ \A k \in Clients : evicted["busy"][k] = 0 /\ evicted["idle"][k] = 0
    BY DEF Init, Fates
  <2>3. Cardinality({}) = 0
    BY FS_EmptySet
  <2>4. ASSUME NEW k \in Clients
        PROVE  /\ metrics["active"][k] = 0 /\ metrics["started"][k] = 0
               /\ metrics["duration"][k] = 0 /\ metrics["empty"][k] = 0
               /\ metrics["firstCall"][k] = 0
               /\ Cardinality(Of(Ids, k)) = 0 /\ Cardinality(BusyOf(Ids, toolCalls, k)) = 0
    BY <2>1, <2>2, <2>3, Names
  <2> QED
    BY <2>2, <2>4 DEF Balanced
<1> QED
  BY <1>1, <1>2, <1>3, <1>4 DEF TrackInv

\* The books are about the variables: they stay balanced when those do.
LEMMA StayBalanced ==
  ASSUME NEW T, NEW calls, NEW m, NEW e, Balanced(T, calls, m, e), client' = client,
         Ids' = T, toolCalls' = calls, metrics' = m, evicted' = e
  PROVE  Balanced(Ids, toolCalls, metrics, evicted)'
BY DEF Balanced, Of, BusyOf

\* What is left to show of a step that draws no id.
LEMMA TrackStep ==
  ASSUME TrackInv, client' = client,
         pending' \in [SessionIds -> SUBSET Requests],
         \A i \in SessionIds : pending'[i] # {} => client[i] \in Clients,
         Keys(sessions'), Len(sessions') <= MAX_TRACKED_SESSIONS,
         \A i \in SessionIds : Holds(sessions', i) => client[i] \in Clients,
         toolCalls' \in [SessionIds -> Nat],
         metrics' \in Metrics, evicted' \in Evictions,
         NEW T, \A i \in SessionIds : Holds(sessions', i) <=> i \in T, T \subseteq SessionIds,
         Balanced(T, toolCalls', metrics', evicted')
  PROVE  TrackInv'
<1>1. \A i \in SessionIds : Tracked(i)' <=> Holds(sessions', i)
  BY DEF Tracked, Holds
<1>2. Ids' = T
  BY <1>1 DEF Ids
<1>3. Balanced(Ids, toolCalls, metrics, evicted)'
  BY <1>2, StayBalanced
<1>4. Keys(sessions)' /\ CapHolds'
  BY DEF Keys, CapHolds, SessionIds
<1> QED
  BY <1>1, <1>3, <1>4 DEF TrackInv, SessionIds, Requests, Metrics, Evictions, Instruments, Fates

\* A dispatched request was pending.
LEMMA Dispatched ==
  ASSUME TrackInv, NEW i \in SessionIds, NEW r, Dispatch(i, r)
  PROVE  /\ client[i] \in Clients /\ client' = client
         /\ pending' \in [SessionIds -> SUBSET Requests]
         /\ \A j \in SessionIds : pending'[j] # {} => client[j] \in Clients
BY DEF TrackInv, Dispatch

\* The tracked ids, as the lemmas about the books want them.
LEMMA IdsAre ==
  ASSUME TrackInv
  PROVE  /\ Ids \in SUBSET SessionIds
         /\ \A i \in SessionIds : i \in Ids <=> Holds(sessions, i)
         /\ \A i \in Ids : client[i] \in Clients
BY DEF Ids, TrackInv, Tracked, Holds

\* initialize: the id that gets a client is not tracked, and has nothing pending.
LEMMA InitializeStep ==
  ASSUME TrackInv, NEW i \in SessionIds, NEW k \in ClientsOf[i], Initialize(i, k)
  PROVE  TrackInv'
<1>1. k \in Clients
  BY SessionsAssumption DEF SessionIds
<1>2. /\ client[i] = NoClient /\ client' = [client EXCEPT ![i] = k]
      /\ UNCHANGED <<pending, sessions, toolCalls, metrics, evicted>>
  BY DEF Initialize, tracker
<1>3. client[i] \notin Clients
  BY <1>2, SessionsAssumption
<1>4. ~Tracked(i)
  BY <1>3 DEF TrackInv
<1>5. client' \in [SessionIds -> Clients \cup {NoClient}]
      /\ \A j \in SessionIds : j # i => client'[j] = client[j]
  BY <1>1, <1>2 DEF TrackInv
<1>6. /\ \A j : Tracked(j)' <=> Tracked(j)
      /\ Ids' = Ids
  BY <1>2 DEF Tracked, Ids, SessionIds
<1>7. \A l : (Of(Ids, l))' = Of(Ids, l) /\ (BusyOf(Ids, toolCalls, l))' = BusyOf(Ids, toolCalls, l)
  BY <1>2, <1>4, <1>5, <1>6 DEF Of, BusyOf, Ids
<1>8. Balanced(Ids, toolCalls, metrics, evicted)'
  BY <1>2, <1>7 DEF Balanced, TrackInv
<1>9. \A j \in SessionIds : pending'[j] # {} \/ Tracked(j)' => client'[j] \in Clients
  BY <1>1, <1>2, <1>5, <1>6 DEF TrackInv
<1> QED
  BY <1>2, <1>5, <1>8, <1>9
     DEF TrackInv, Keys, CapHolds, SessionIds, Requests, Metrics, Evictions, Instruments, Fates

\* The tracker's variables, when a request leaves them alone.
LEMMA TrackerStays ==
  ASSUME TrackInv, UNCHANGED <<client, tracker, evicted>>,
         pending' \in [SessionIds -> SUBSET Requests],
         \A i \in SessionIds : pending'[i] # {} => client[i] \in Clients
  PROVE  TrackInv'
<1>1. UNCHANGED <<sessions, toolCalls, metrics, evicted, client>>
  BY DEF tracker
<1> QED
  BY <1>1, IdsAre, TrackStep DEF TrackInv, CapHolds

\* A request with a session id is admitted for a session that has a client.
LEMMA AdmitStep ==
  ASSUME TrackInv, NEW i \in SessionIds, NEW r \in Requests, Admit(i, r)
  PROVE  TrackInv'
<1>1. client[i] \in Clients
  BY DEF Admit, TrackInv
<1>2. \/ pending' = [pending EXCEPT ![i] = @ \cup {r}]
      \/ pending' = pending
  BY DEF Admit
<1>3. /\ pending' \in [SessionIds -> SUBSET Requests]
      /\ \A j \in SessionIds : pending'[j] # {} => client[j] \in Clients
  BY <1>1, <1>2 DEF TrackInv
<1>4. UNCHANGED <<client, tracker, evicted>>
  BY DEF Admit
<1> QED
  BY <1>3, <1>4, TrackerStays

\* A call is recorded in a session that is tracked when it is dispatched.
LEMMA ToolCallStep ==
  ASSUME TrackInv, NEW i \in SessionIds, ToolCall(i)
  PROVE  TrackInv'
<1>1. /\ Dispatch(i, "call") /\ RecordToolUse(i) /\ UNCHANGED evicted
  BY DEF ToolCall
<1>2. CASE ~Tracked(i)
  <2>1. UNCHANGED tracker
    BY <1>1, <1>2 DEF RecordToolUse
  <2> QED
    BY <1>1, <2>1, Dispatched, TrackerStays
<1>3. CASE Tracked(i)
  <2>1. /\ toolCalls' = [toolCalls EXCEPT ![i] = @ + 1]
        /\ metrics' = Add(metrics, "firstCall", i, IF toolCalls[i] = 0 THEN 1 ELSE 0)
        /\ sessions' = sessions
    BY <1>1, <1>3 DEF RecordToolUse
  <2>2. i \in Ids
    BY <1>3 DEF Ids
  <2>3. metrics' \in Metrics /\ Balanced(Ids, toolCalls', metrics', evicted)
    BY <2>1, <2>2, IdsAre, CallBalances DEF TrackInv
  <2>4. toolCalls' \in [SessionIds -> Nat]
    BY <2>1 DEF TrackInv
  <2> QED
    BY <1>1, <2>1, <2>3, <2>4, Dispatched, IdsAre, TrackStep DEF TrackInv, CapHolds
<1> QED
  BY <1>2, <1>3

\* A session that is tracked when its transport closes ends, once.
LEMMA OnCloseStep ==
  ASSUME TrackInv, NEW i \in SessionIds, OnClose(i)
  PROVE  TrackInv'
<1>1. /\ Dispatch(i, "delete") /\ EndSession(i) /\ UNCHANGED evicted
  BY DEF OnClose
<1>2. CASE ~Tracked(i)
  <2>1. UNCHANGED tracker
    BY <1>1, <1>2 DEF EndSession
  <2> QED
    BY <1>1, <2>1, Dispatched, TrackerStays
<1>3. CASE Tracked(i)
  <2>1. /\ sessions' = Without(i)
        /\ metrics' = Add(Add(Add(metrics, "active", i, -1), "duration", i, 1),
                          "empty", i, IF toolCalls[i] = 0 THEN 1 ELSE 0)
        /\ toolCalls' = toolCalls
    BY <1>1, <1>3 DEF EndSession
  <2>2. i \in Ids
    BY <1>3 DEF Ids
  <2>3. metrics' \in Metrics /\ Balanced(Ids \ {i}, toolCalls', metrics', evicted)
    BY <2>1, <2>2, IdsAre, EndBalances DEF TrackInv
  <2>4. /\ Keys(sessions') /\ Len(sessions') <= MAX_TRACKED_SESSIONS
        /\ \A j \in SessionIds : Holds(sessions', j) <=> j \in Ids \ {i}
    <3>1. /\ Keys(sessions') /\ Len(sessions') = Len(sessions) - 1
          /\ \A j \in SessionIds : Holds(sessions', j) <=> Tracked(j) /\ j # i
      BY <1>3, <2>1, WithoutKeys DEF TrackInv
    <3>2. Len(sessions) \in Nat /\ Len(sessions) <= MAX_TRACKED_SESSIONS
      BY DEF TrackInv, Keys, CapHolds
    <3>3. MAX_TRACKED_SESSIONS \in Nat
      BY SessionsAssumption
    <3> QED
      BY <3>1, <3>2, <3>3 DEF Ids
  <2> QED
    BY <1>1, <2>1, <2>3, <2>4, Dispatched, IdsAre, TrackStep DEF TrackInv
<1> QED
  BY <1>2, <1>3
\* A new id is tracked, beside the others: all of the tracked, or all but the
\* oldest.
LEMMA TrackKeeps ==
  ASSUME TrackInv, NEW i \in SessionIds, Dispatch(i, "initialized"),
         NEW T \in SUBSET SessionIds, i \notin T, T \subseteq Ids,
         NEW others, Keys(others), Len(others) < MAX_TRACKED_SESSIONS,
         \A j \in SessionIds : Holds(others, j) <=> j \in T,
         NEW m \in Metrics, evicted' \in Evictions, Balanced(T, toolCalls, m, evicted'),
         Track(i, others, m)
  PROVE  TrackInv'
<1>1. /\ sessions' = Append(others, i)
      /\ toolCalls' = [toolCalls EXCEPT ![i] = 0]
      /\ metrics' = Add(Add(m, "active", i, 1), "started", i, 1)
  BY DEF Track
<1>2. client[i] \in Clients
  BY Dispatched
<1>3. /\ Keys(sessions') /\ Len(sessions') = Len(others) + 1
      /\ \A j \in SessionIds : Holds(sessions', j) <=> j \in T \cup {i}
  BY <1>1, AppendKeys
<1>4. Len(sessions') <= MAX_TRACKED_SESSIONS
  <2>1. Len(others) \in Nat /\ MAX_TRACKED_SESSIONS \in Nat
    BY SessionsAssumption DEF Keys
  <2> QED
    BY <1>3, <2>1
<1>5. toolCalls \in [SessionIds -> Nat] /\ toolCalls' \in [SessionIds -> Nat]
  BY <1>1 DEF TrackInv
<1>6. metrics' \in Metrics /\ Balanced(T \cup {i}, toolCalls', metrics', evicted')
  <2>1. i \in SessionIds \ T
    OBVIOUS
  <2>2. LET n == Add(Add(m, "active", i, 1), "started", i, 1)
        IN  n \in Metrics /\ Balanced(T \cup {i}, [toolCalls EXCEPT ![i] = 0], n, evicted')
    BY <1>2, <1>5, <2>1, InsertBalances
  <2> QED
    BY <1>1, <2>2
<1>7. \A j \in SessionIds : Holds(sessions', j) => client[j] \in Clients
  BY <1>2, <1>3, IdsAre
<1>8. T \cup {i} \subseteq SessionIds
  OBVIOUS
<1> QED
  BY <1>3, <1>4, <1>5, <1>6, <1>7, <1>8, Dispatched, TrackStep

\* The notification that opens a session: it is there already, there is room,
\* or the oldest makes room.
LEMMA OnInitializedStep ==
  ASSUME TrackInv, NEW i \in SessionIds, OnInitialized(i)
  PROVE  TrackInv'
<1>1. Dispatch(i, "initialized") /\ StartSession(i)
  BY DEF OnInitialized
<1>2. /\ Keys(sessions) /\ Len(sessions) \in Nat /\ Len(sessions) <= MAX_TRACKED_SESSIONS
      /\ MAX_TRACKED_SESSIONS \in Nat /\ MAX_TRACKED_SESSIONS > 0
      /\ metrics \in Metrics /\ evicted \in Evictions /\ toolCalls \in [SessionIds -> Nat]
      /\ Balanced(Ids, toolCalls, metrics, evicted)
  BY SessionsAssumption DEF TrackInv, Keys, CapHolds
<1>3. CASE Tracked(i)
  <2>1. UNCHANGED <<tracker, evicted>>
    BY <1>1, <1>3 DEF StartSession
  <2> QED
    BY <1>1, <2>1, Dispatched, TrackerStays
<1>4. CASE ~Tracked(i) /\ ~Full
  <2>1. Track(i, sessions, metrics) /\ evicted' = evicted
    BY <1>1, <1>4 DEF StartSession
  <2>2. Len(sessions) < MAX_TRACKED_SESSIONS /\ i \notin Ids
    BY <1>2, <1>4 DEF Full, Ids
  <2> QED
    BY <1>1, <1>2, <2>1, <2>2, IdsAre, TrackKeeps
<1>5. CASE ~Tracked(i) /\ Full
  <2>1. /\ Track(i, Without(Oldest), Drop(Oldest))
        /\ evicted' = [evicted EXCEPT ![Fate(Oldest)][client[Oldest]] = @ + 1]
    BY <1>1, <1>5 DEF StartSession
  <2>2. /\ Oldest \in Ids /\ Tracked(Oldest) /\ i \notin Ids
        /\ Len(sessions) = MAX_TRACKED_SESSIONS
    <3>1. Len(sessions) = MAX_TRACKED_SESSIONS /\ 1 \in DOMAIN sessions
      BY <1>2, <1>5 DEF Full, Keys
    <3>2. Oldest = sessions[1] /\ sessions[1] \in SessionIds
      BY <1>2, <3>1 DEF Oldest, Keys
    <3> QED
      BY <1>5, <3>1, <3>2 DEF Ids, Tracked
  <2> DEFINE o == Oldest
             T == Ids \ {o}
  <2>3. /\ Keys(Without(o)) /\ Len(Without(o)) < MAX_TRACKED_SESSIONS
        /\ \A j \in SessionIds : Holds(Without(o), j) <=> j \in T
    <3>1. /\ Keys(Without(o)) /\ Len(Without(o)) = Len(sessions) - 1
          /\ \A j \in SessionIds : Holds(Without(o), j) <=> Tracked(j) /\ j # o
      BY <1>2, <2>2, WithoutKeys
    <3> QED
      BY <1>2, <2>2, <3>1 DEF Ids
  <2>4. /\ Drop(o) \in Metrics /\ evicted' \in Evictions
        /\ Balanced(T, toolCalls, Drop(o), evicted')
    <3>1. o \in Ids /\ client[o] \in Clients /\ Ids \in SUBSET SessionIds
      BY <2>2, IdsAre
    <3>2. LET n == Add(metrics, "active", o, -1)
              f == [evicted EXCEPT ![IF toolCalls[o] > 0 THEN "busy" ELSE "idle"][client[o]]
                                     = @ + 1]
          IN  n \in Metrics /\ f \in Evictions /\ Balanced(Ids \ {o}, toolCalls, n, f)
      BY <1>2, <3>1, EvictBalances
    <3> QED
      BY <2>1, <3>2 DEF Drop, Fate
  <2>5. T \in SUBSET SessionIds /\ i \notin T /\ T \subseteq Ids
    BY <2>2 DEF Ids
  <2> HIDE DEF T, o
  <2> QED
    BY <1>1, <2>1, <2>3, <2>4, <2>5, TrackKeeps DEF o
<1> QED
  BY <1>3, <1>4, <1>5

\* Every step keeps the tracker's invariant.
LEMMA TrackNext ==
  ASSUME TrackInv, Next \/ UNCHANGED <<web, tracker, evicted>>
  PROVE  TrackInv'
<1>1. CASE UNCHANGED <<web, tracker, evicted>>
  BY <1>1, TrackerStays DEF web, TrackInv
<1>2. CASE Next
  <2>1. PICK i \in SessionIds :
          \/ \E k \in ClientsOf[i] : Initialize(i, k)
          \/ \E r \in Requests : Admit(i, r)
          \/ OnInitialized(i) \/ ToolCall(i) \/ OnClose(i)
    BY <1>2 DEF Next
  <2> QED
    BY <2>1, InitializeStep, AdmitStep, OnInitializedStep, ToolCallStep, OnCloseStep
<1> QED
  BY <1>1, <1>2-----------------------------------------------------------------------------
(***************************************************************************)
(* The user windows.  A sketch's key never runs ahead of today's bucket    *)
(* nor behind that of anybody seen, so that when a sketch is begun anew,   *)
(* nobody seen belongs to the new bucket yet.                              *)
(***************************************************************************)
SketchInv(w) ==
  /\ sketches[w].key \in Int /\ sketches[w].key <= bucketKey(w, today)
  /\ \A s \in seen : bucketKey(w, s[2]) <= sketches[w].key
  /\ sketches[w].users = {u \in Users : \E d \in Days :
                            <<u, d>> \in seen /\ bucketKey(w, d) = sketches[w].key}

WindowsInv ==
  /\ today \in Days
  /\ seen \subseteq Users \X Days
  /\ DOMAIN sketches = WINDOWS
  /\ \A w \in WINDOWS : sketches[w] = [key |-> sketches[w].key, users |-> sketches[w].users]
  /\ \A w \in WINDOWS : SketchInv(w)

\* Buckets are numbered in the order of the days.
LEMMA BucketsGrow ==
  ASSUME NEW w \in WINDOWS
  PROVE  /\ \A d \in Days : bucketKey(w, d) \in Nat
         /\ \A d, e \in Days : d <= e => bucketKey(w, d) <= bucketKey(w, e)
<1>1. \A d \in Days : d \in Nat /\ MonthOf[d] \in Nat
  BY UserWindowsAssumption
<1>2. \A d \in Nat : d \div 7 \in Nat
  OBVIOUS
<1>3. \A d, e \in Nat : d <= e => d \div 7 <= e \div 7
  OBVIOUS
<1>4. CASE w = "day"
  BY <1>1, <1>4 DEF bucketKey
<1>5. CASE w = "week"
  BY <1>1, <1>2, <1>3, <1>5 DEF bucketKey
<1>6. CASE w = "month"
  BY <1>1, <1>6, UserWindowsAssumption DEF bucketKey
<1> QED
  BY <1>4, <1>5, <1>6 DEF WINDOWS

\* The sketch in use is of today's bucket, and holds who was seen in it.
LEMMA SketchInUse ==
  ASSUME WindowsInv, NEW w \in WINDOWS
  PROVE  sketchFor(w) = [key |-> bucketKey(w, today),
                         users |-> {u \in Users : \E d \in Days :
                           <<u, d>> \in seen /\ bucketKey(w, d) = bucketKey(w, today)}]
<1>1. SketchInv(w) /\ sketches[w] = [key |-> sketches[w].key, users |-> sketches[w].users]
  BY DEF WindowsInv
<1>2. CASE sketches[w].key = bucketKey(w, today)
  BY <1>1, <1>2 DEF sketchFor, SketchInv
<1>3. CASE sketches[w].key # bucketKey(w, today)
  <2>1. bucketKey(w, today) \in Nat /\ \A d \in Days : bucketKey(w, d) \in Nat
    BY BucketsGrow DEF WindowsInv
  <2>2. ASSUME NEW u \in Users, NEW d \in Days, <<u, d>> \in seen
        PROVE  bucketKey(w, d) # bucketKey(w, today)
    <3>1. bucketKey(w, d) <= sketches[w].key
      BY <1>1, <2>2 DEF SketchInv
    <3> QED
      BY <1>1, <1>3, <2>1, <3>1 DEF SketchInv
  <2>3. sketchFor(w) = [key |-> bucketKey(w, today), users |-> {}]
    BY <1>3 DEF sketchFor
  <2> QED
    BY <2>2, <2>3
<1> QED
  BY <1>2, <1>3

\* The gauge is the size of the window.
LEMMA WindowsHold == ASSUME WindowsInv PROVE UsersOfTheWindow
BY SketchInUse DEF UsersOfTheWindow

\* No bucket has begun before the first day.
LEMMA WindowsStart == WindowsInit => WindowsInv
<1> SUFFICES ASSUME WindowsInit PROVE WindowsInv
  OBVIOUS
<1>1. today \in Days /\ seen = {} /\ sketches = [w \in WINDOWS |-> [key |-> -1, users |-> {}]]
  BY DEF WindowsInit, NoKey
<1>2. ASSUME NEW w \in WINDOWS PROVE SketchInv(w)
  <2>1. bucketKey(w, today) \in Nat
    BY <1>1, BucketsGrow
  <2> QED
    BY <1>1, <2>1 DEF SketchInv
<1> QED
  BY <1>1, <1>2 DEF WindowsInv

\* Whoever is recorded is seen in the bucket of today, in each window.
LEMMA RecordStep ==
  ASSUME WindowsInv, NEW user \in Users \cup {NoUser}, recordUser(user)
  PROVE  WindowsInv'
<1>1. CASE user = NoUser
  <2>1. UNCHANGED <<today, sketches, seen>>
    BY <1>1 DEF recordUser
  <2> QED
    BY <2>1 DEF WindowsInv, SketchInv, bucketKey, WINDOWS
<1>2. CASE user # NoUser
  <2>1. /\ sketches' = [w \in WINDOWS |-> [sketchFor(w) EXCEPT !.users = @ \cup {user}]]
        /\ seen' = seen \cup {<<user, today>>} /\ today' = today
        /\ user \in Users /\ today \in Days /\ seen \subseteq Users \X Days
    BY <1>2 DEF recordUser, WindowsInv
  <2>2. ASSUME NEW w \in WINDOWS
        PROVE  /\ sketches'[w] = [key |-> sketches'[w].key, users |-> sketches'[w].users]
               /\ SketchInv(w)'
    <3> DEFINE of == {u \in Users : \E d \in Days :
                        <<u, d>> \in seen /\ bucketKey(w, d) = bucketKey(w, today)}
    <3>1. sketches'[w] = [key |-> bucketKey(w, today), users |-> of \cup {user}]
      <4>1. sketchFor(w) = [key |-> bucketKey(w, today), users |-> of]
        BY SketchInUse
      <4>2. sketches'[w] = [sketchFor(w) EXCEPT !.users = sketchFor(w).users \cup {user}]
        BY <2>1
      <4> HIDE DEF of
      <4> QED
        BY <4>1, <4>2
    <3>2. bucketKey(w, today) \in Nat /\ \A d \in Days : bucketKey(w, d) \in Nat
      BY <2>1, BucketsGrow
    <3>3. \A d : bucketKey(w, d)' = bucketKey(w, d)
      BY DEF bucketKey
    <3>4. bucketKey(w, today)' = bucketKey(w, today)
      BY <2>1 DEF bucketKey
    <3>5. \A s \in seen' : bucketKey(w, s[2]) <= bucketKey(w, today)
      <4>1. \A s \in seen : s[2] \in Days /\ bucketKey(w, s[2]) <= sketches[w].key
        BY <2>1 DEF WindowsInv, SketchInv
      <4>2. sketches[w].key \in Int /\ sketches[w].key <= bucketKey(w, today)
        BY DEF WindowsInv, SketchInv
      <4>3. \A s \in seen : bucketKey(w, s[2]) <= bucketKey(w, today)
        BY <3>2, <4>1, <4>2
      <4> QED
        BY <2>1, <3>2, <4>3
    <3>6. of \cup {user} = {u \in Users : \E d \in Days :
                              <<u, d>> \in seen' /\ bucketKey(w, d) = bucketKey(w, today)}
      <4>1. ASSUME NEW u \in Users
            PROVE  u \in of \cup {user} <=>
                     \E d \in Days : <<u, d>> \in seen' /\ bucketKey(w, d) = bucketKey(w, today)
        <5>1. CASE u = user
          BY <2>1, <5>1
        <5>2. CASE u # user
          <6>1. \A d \in Days : <<u, d>> \in seen' <=> <<u, d>> \in seen
            BY <2>1, <5>2
          <6> QED
            BY <5>2, <6>1
        <5> QED
          BY <5>1, <5>2
      <4> QED
        BY <2>1, <4>1
    <3> HIDE DEF of
    <3> QED
      BY <3>1, <3>2, <3>3, <3>4, <3>5, <3>6 DEF SketchInv
  <2>3. seen' \subseteq Users \X Days /\ DOMAIN sketches' = WINDOWS
    BY <2>1
  <2> QED
    BY <2>1, <2>2, <2>3 DEF WindowsInv, WINDOWS
<1> QED
  BY <1>1, <1>2

\* A collection begins what is due, and nobody is recorded.
LEMMA ObserveStep ==
  ASSUME WindowsInv, observeGauge
  PROVE  WindowsInv'
<1>1. /\ sketches' = [w \in WINDOWS |-> sketchFor(w)]
      /\ today' = today /\ seen' = seen /\ today \in Days /\ seen \subseteq Users \X Days
  BY DEF observeGauge, WindowsInv
<1>2. ASSUME NEW w \in WINDOWS
      PROVE  /\ sketches'[w] = [key |-> sketches'[w].key, users |-> sketches'[w].users]
             /\ SketchInv(w)'
  <2>1. sketches'[w] = [key |-> bucketKey(w, today),
                        users |-> {u \in Users : \E d \in Days :
                          <<u, d>> \in seen /\ bucketKey(w, d) = bucketKey(w, today)}]
    BY <1>1, SketchInUse
  <2>2. bucketKey(w, today) \in Nat /\ \A d \in Days : bucketKey(w, d) \in Nat
    BY <1>1, BucketsGrow
  <2>3. \A d : bucketKey(w, d)' = bucketKey(w, d)
    BY DEF bucketKey
  <2>4. bucketKey(w, today)' = bucketKey(w, today)
    BY <1>1 DEF bucketKey
  <2>5. \A s \in seen : bucketKey(w, s[2]) <= bucketKey(w, today)
    <3>1. \A s \in seen : s[2] \in Days /\ bucketKey(w, s[2]) <= sketches[w].key
      BY <1>1 DEF WindowsInv, SketchInv
    <3>2. sketches[w].key \in Int /\ sketches[w].key <= bucketKey(w, today)
      BY DEF WindowsInv, SketchInv
    <3> QED
      BY <2>2, <3>1, <3>2
  <2> QED
    BY <1>1, <2>1, <2>2, <2>3, <2>4, <2>5 DEF SketchInv
<1> QED
  BY <1>1, <1>2 DEF WindowsInv, WINDOWS

\* At midnight today's bucket grows, and the sketches wait.
LEMMA MidnightStep ==
  ASSUME WindowsInv, Midnight
  PROVE  WindowsInv'
<1>1. /\ today \in Days /\ today' \in Days /\ today' = today + 1
      /\ sketches' = sketches /\ seen' = seen
  BY DEF Midnight, WindowsInv
<1>2. today \in Nat
  BY <1>1, UserWindowsAssumption
<1>3. ASSUME NEW w \in WINDOWS PROVE SketchInv(w)'
  <2>1. SketchInv(w)
    BY DEF WindowsInv
  <2>2. bucketKey(w, today) <= bucketKey(w, today')
    BY <1>1, <1>2, BucketsGrow
  <2>3. bucketKey(w, today) \in Nat /\ bucketKey(w, today') \in Nat
    BY <1>1, BucketsGrow
  <2>4. bucketKey(w, today)' = bucketKey(w, today') /\ \A d : bucketKey(w, d)' = bucketKey(w, d)
    BY DEF bucketKey
  <2> QED
    BY <1>1, <2>1, <2>2, <2>3, <2>4 DEF SketchInv
<1> QED
  BY <1>1, <1>3 DEF WindowsInv, WINDOWS
\* A step of the sessions records a user, or leaves the windows alone.
LEMMA SessionsStep ==
  ASSUME WindowsInv, TrackInv, Next
  PROVE  WindowsInv'
<1>1. ASSUME UNCHANGED windows PROVE WindowsInv'
  BY <1>1 DEF windows, WindowsInv, SketchInv, bucketKey, WINDOWS
<1>2. PICK i \in SessionIds :
        \/ \E k \in ClientsOf[i] : Initialize(i, k)
        \/ \E r \in Requests : Admit(i, r)
        \/ OnInitialized(i) \/ ToolCall(i) \/ OnClose(i)
  BY DEF Next
<1>3. CASE OnInitialized(i)
  <2>1. client[i] \in Clients
    BY <1>3, Dispatched DEF OnInitialized
  <2>2. UserOf[client[i]] \in Users \cup {NoUser}
    BY <2>1, SessionsAssumption
  <2>3. UNCHANGED windows \/ recordUser(UserOf[client[i]])
    BY <1>3 DEF OnInitialized, StartSession, Track
  <2> QED
    BY <1>1, <2>2, <2>3, RecordStep
<1>4. CASE ~OnInitialized(i)
  BY <1>1, <1>2, <1>4 DEF Initialize, Admit, ToolCall, OnClose
<1> QED
  BY <1>3, <1>4

-----------------------------------------------------------------------------
(***************************************************************************)
(* Exits.  Before it serves, the server has nothing to lose; and past the  *)
(* flush nothing of before the signal is owed, unless the flush failed.    *)
(***************************************************************************)
ExitInv ==
  /\ main # "serving" => transports = {} /\ ~unexported
  /\ exitCode = 1 => main = "failed"
  /\ exitCode = 0 => shutdown = "done"
  /\ shutdown \in {"destroying", "done"} /\ ~flushFailed => ~owed

\* The invariant implies the property.
LEMMA ExitHolds == ASSUME ExitInv PROVE ExitLosesNothing
BY DEF ExitInv, ExitLosesNothing

\* At first nothing is owed.
LEMMA ExitInit == LifeInit => ExitInv
BY DEF LifeInit, Init, ExitInv

\* Every step keeps it.
LEMMA ExitStep ==
  ASSUME ExitInv, [LifeNext]_lifeVars
  PROVE  ExitInv'
<1>1. CASE UNCHANGED lifeVars
  BY <1>1 DEF lifeVars, vars, web, process, export, ExitInv
<1>2. CASE MainAdvances
  BY <1>2 DEF MainAdvances, After, Running, vars, web, export, ExitInv
<1>3. CASE MainFails
  BY <1>3 DEF MainFails, After, Running, vars, web, export, ExitInv
<1>4. CASE Serve
  BY <1>4 DEF Serve, Running, process, ExitInv
<1>5. CASE DayPasses
  BY <1>5 DEF DayPasses, web, process, export, ExitInv
<1>6. CASE PeriodicExport
  BY <1>6 DEF PeriodicExport, web, process, ExitInv
<1>7. CASE Signal
  BY <1>7 DEF Signal, Running, vars, web, ExitInv
<1>8. CASE Flush
  BY <1>8 DEF Flush, Running, web, ExitInv
<1>9. CASE Destroy
  BY <1>9 DEF Destroy, Running, vars, web, export, ExitInv
<1> QED
  BY <1>1, <1>2, <1>3, <1>4, <1>5, <1>6, <1>7, <1>8, <1>9 DEF LifeNext

-----------------------------------------------------------------------------
LifeInv == TrackInv /\ WindowsInv /\ ExitInv

\* The server starts within the invariant.
LEMMA LifeStart == LifeInit => LifeInv
BY TrackInit, WindowsStart, ExitInit DEF LifeInit, Init, LifeInv

\* Every step of the server keeps it.
LEMMA LifeStep ==
  ASSUME LifeInv, [LifeNext]_lifeVars
  PROVE  LifeInv'
<1>1. ExitInv'
  BY ExitStep DEF LifeInv
<1>2. TrackInv'
  <2>1. Next \/ UNCHANGED <<web, tracker, evicted>>
    BY DEF LifeNext, lifeVars, vars, MainAdvances, MainFails, Serve, DayPasses,
           PeriodicExport, Signal, Flush, Destroy
  <2> QED
    BY <2>1, TrackNext DEF LifeInv
<1>3. WindowsInv'
  <2>1. Next \/ observeGauge \/ Midnight \/ UNCHANGED windows
    BY DEF LifeNext, lifeVars, vars, MainAdvances, MainFails, Serve, DayPasses,
           PeriodicExport, Signal, Flush, Destroy
  <2>2. CASE UNCHANGED windows
    BY <2>2 DEF LifeInv, windows, WindowsInv, SketchInv, bucketKey, WINDOWS
  <2> QED
    BY <2>1, <2>2, SessionsStep, ObserveStep, MidnightStep DEF LifeInv
<1> QED
  BY <1>1, <1>2, <1>3 DEF LifeInv

\* So it holds always.
LEMMA LifeHolds == LifeSpec => []LifeInv
<1>1. LifeInv /\ [LifeNext]_lifeVars => LifeInv'
  BY LifeStep
<1> QED
  BY LifeStart, <1>1, PTL DEF LifeSpec

\* The tracker never passes its cap, whatever clients leak.
THEOREM CapIsKept == LifeSpec => []CapHolds
<1>1. LifeInv => CapHolds
  BY DEF LifeInv, TrackInv
<1> QED
  BY <1>1, LifeHolds, PTL

\* The session metrics never drift: through evictions, double closes, late and
\* repeated notifications, for any number of sessions.
THEOREM MetricsAddUp == LifeSpec => []SessionsAddUp
<1>1. LifeInv => SessionsAddUp
  BY BalancedAddsUp DEF LifeInv
<1> QED
  BY <1>1, LifeHolds, PTL

\* The user gauge shows the users of the window, over any calendar.
THEOREM WindowsAreRight == LifeSpec => []UsersOfTheWindow
<1>1. LifeInv => UsersOfTheWindow
  BY WindowsHold DEF LifeInv
<1> QED
  BY <1>1, LifeHolds, PTL

\* An exit loses nothing it could have kept.
THEOREM NothingIsLost == LifeSpec => []ExitLosesNothing
<1>1. LifeInv => ExitLosesNothing
  BY ExitHolds DEF LifeInv
<1> QED
  BY <1>1, LifeHolds, PTL

\* A tracked session is forgotten when it closes, or at the cap, oldest first.
THEOREM OldestMakesRoom == LifeSpec => ForgetsTheOldest
<1>1. ASSUME TrackInv, Next \/ UNCHANGED <<web, tracker, evicted>>,
             NEW i \in SessionIds, Tracked(i), ~Tracked(i)'
      PROVE  \/ i \notin transports'
             \/ i = sessions[1] /\ Len(sessions) = MAX_TRACKED_SESSIONS
  <2>1. sessions' # sessions
    BY <1>1 DEF Tracked
  <2>2. ASSUME NEW j \in SessionIds, Tracked(j), NEW s, Keys(s),
               \A l \in SessionIds : Holds(s, l) <=> Tracked(l) /\ l # j,
               \/ sessions' = s
               \/ \E l \in SessionIds : ~Holds(s, l) /\ sessions' = Append(s, l)
        PROVE  i = j
    <3>1. \A l \in SessionIds : Tracked(l) /\ l # j => Holds(sessions', l)
      <4>1. CASE sessions' = s
        BY <2>2, <4>1
      <4>2. ASSUME NEW l \in SessionIds, ~Holds(s, l), sessions' = Append(s, l)
            PROVE  \A k \in SessionIds : Holds(s, k) => Holds(sessions', k)
        <5>1. \A k \in SessionIds : Holds(Append(s, l), k) <=> Holds(s, k) \/ k = l
          BY <2>2, <4>2, AppendKeys
        <5> QED
          BY <4>2, <5>1
      <4> QED
        BY <2>2, <4>1, <4>2
    <3> QED
      BY <1>1, <3>1 DEF Tracked, Holds
  <2>3. Keys(sessions) /\ Len(sessions) \in Nat
    BY <1>1 DEF TrackInv, Keys
  <2>4. PICK j \in SessionIds :
          \/ \E k \in ClientsOf[j] : Initialize(j, k)
          \/ \E r \in Requests : Admit(j, r)
          \/ OnInitialized(j) \/ ToolCall(j) \/ OnClose(j)
    BY <1>1, <2>1 DEF Next, tracker
  <2>5. CASE OnClose(j)
    <3>1. Tracked(j) /\ sessions' = Without(j) /\ transports' = transports \ {j}
      BY <2>1, <2>5 DEF OnClose, EndSession, tracker
    <3>2. /\ Keys(Without(j))
          /\ \A l \in SessionIds : Holds(Without(j), l) <=> Tracked(l) /\ l # j
      BY <2>3, <3>1, WithoutKeys
    <3>4. i = j
      BY <2>2, <3>1, <3>2
    <3> QED
      BY <3>1, <3>4
  <2>6. CASE OnInitialized(j)
    <3>1. ~Tracked(j) /\ StartSession(j)
      BY <2>1, <2>6 DEF OnInitialized, StartSession, tracker
    <3>2. CASE ~Full
      <4>1. sessions' = Append(sessions, j)
        BY <3>1, <3>2 DEF StartSession, Track
      <4>2. Holds(sessions', i)
        BY <1>1, <2>3, <3>1, <4>1, AppendKeys DEF Tracked, Holds
      <4> QED
        BY <1>1, <4>2 DEF Tracked, Holds
    <3>3. CASE Full
      <4>1. sessions' = Append(Without(Oldest), j)
        BY <3>1, <3>3 DEF StartSession, Track
      <4>2. Len(sessions) = MAX_TRACKED_SESSIONS /\ 1 \in DOMAIN sessions
        BY <1>1, <2>3, <3>3, SessionsAssumption DEF TrackInv, CapHolds, Full, Keys
      <4>3. Oldest = sessions[1] /\ Tracked(Oldest) /\ Oldest \in SessionIds
        BY <2>3, <4>2 DEF Oldest, Tracked, Keys
      <4>4. ~Holds(Without(Oldest), j)
        BY <2>3, <3>1, <4>3, WithoutKeys
      <4>5. /\ Keys(Without(Oldest))
            /\ \A l \in SessionIds : Holds(Without(Oldest), l) <=> Tracked(l) /\ l # Oldest
        BY <2>3, <4>3, WithoutKeys
      <4>6. i = Oldest
        BY <2>2, <4>1, <4>3, <4>4, <4>5
      <4> QED
        BY <4>2, <4>3, <4>6
    <3> QED
      BY <3>2, <3>3
  <2> QED
    BY <2>1, <2>4, <2>5, <2>6 DEF Initialize, Admit, ToolCall, RecordToolUse, tracker
<1>2. LifeInv /\ [LifeNext]_lifeVars =>
        [\A i \in SessionIds :
           Tracked(i) /\ ~Tracked(i)' =>
             \/ i \notin transports'
             \/ i = sessions[1] /\ Len(sessions) = MAX_TRACKED_SESSIONS]_vars
  <2> SUFFICES ASSUME LifeInv, [LifeNext]_lifeVars, NEW i \in SessionIds,
                      Tracked(i), ~Tracked(i)'
               PROVE  \/ i \notin transports'
                      \/ i = sessions[1] /\ Len(sessions) = MAX_TRACKED_SESSIONS
    BY DEF SessionIds
  <2>1. Next \/ UNCHANGED <<web, tracker, evicted>>
    BY DEF LifeNext, lifeVars, vars, MainAdvances, MainFails, Serve, DayPasses,
           PeriodicExport, Signal, Flush, Destroy
  <2> QED
    BY <1>1, <2>1 DEF LifeInv
<1> QED
  BY <1>2, LifeHolds, PTL DEF LifeSpec, ForgetsTheOldest
-----------------------------------------------------------------------------
(***************************************************************************)
(* Types.  That an instrument is never negative is no matter of its type:  *)
(* the gauge goes down, and stays at zero or more because it is the number *)
(* of tracked sessions; the others only go up.                             *)
(***************************************************************************)
Counted(m) == m \in Metrics /\ \A x \in Instruments \ {"active"}, k \in Clients : m[x][k] >= 0

SessionTypes ==
  /\ transports \subseteq Drawn
  /\ requests \in Nat /\ rejected \in Nat /\ rejected <= requests /\ requests <= MaxRequests
  /\ Counted(metrics)
  /\ evicted \in [Fates -> [Clients -> Nat]]

LifeTypes ==
  /\ SessionTypes
  /\ main \in Stages
  /\ shutdown \in {"none", "flushing", "destroying", "done"}
  /\ exitCode \in {-1, 0, 1}
  /\ unexported \in BOOLEAN /\ owed \in BOOLEAN /\ flushFailed \in BOOLEAN

\* Only the gauge is added to with less than zero.
LEMMA AddCounts ==
  ASSUME NEW m, Counted(m), NEW x \in Instruments, NEW i, client[i] \in Clients,
         NEW n \in Int, x = "active" \/ n >= 0
  PROVE  Counted(Add(m, x, i, n))
<1>1. m \in Metrics /\ \A y \in Instruments \ {"active"}, k \in Clients : m[y][k] >= 0
  BY DEF Counted
<1>2. /\ Add(m, x, i, n) \in Metrics
      /\ \A y \in Instruments, k \in Clients :
           Add(m, x, i, n)[y][k] = IF y = x /\ k = client[i] THEN m[y][k] + n ELSE m[y][k]
  BY <1>1, AddIs
<1>3. \A y \in Instruments, k \in Clients : m[y][k] \in Int
  BY <1>1 DEF Metrics
<1>4. \A y \in Instruments \ {"active"}, k \in Clients : Add(m, x, i, n)[y][k] >= 0
  BY <1>1, <1>2, <1>3
<1> QED
  BY <1>2, <1>4 DEF Counted

\* A step of the sessions leaves what it does not name alone.
LEMMA SessionTypesStay ==
  ASSUME SessionTypes, UNCHANGED <<client, requests, rejected, evicted>>,
         transports' \subseteq transports, Counted(metrics')
  PROVE  SessionTypes'
<1>1. Drawn' = Drawn
  BY DEF Drawn, SessionIds
<1>2. Counted(metrics)'
  BY DEF Counted, Metrics, Instruments
<1> QED
  BY <1>1, <1>2 DEF SessionTypes, Fates

\* At first no session has been seen.
LEMMA SessionTypesInit == Init => SessionTypes
<1> SUFFICES ASSUME Init PROVE SessionTypes
  OBVIOUS
<1>1. Counted(metrics) /\ evicted \in [Fates -> [Clients -> Nat]]
  BY DEF Init, Counted, Metrics
<1> QED
  BY <1>1, SessionsAssumption DEF Init, SessionTypes

\* A handshake keeps the kinds of the tracker and the instruments.
LEMMA OnInitializedTypes ==
  ASSUME TrackInv, SessionTypes, NEW i \in SessionIds, OnInitialized(i) PROVE SessionTypes'
<1>1. /\ Dispatch(i, "initialized") /\ StartSession(i)
      /\ UNCHANGED <<transports, client, requests, rejected>>
  BY DEF OnInitialized, Dispatch
<1>2. client[i] \in Clients
  BY <1>1, Dispatched
<1>3. Counted(metrics)
  BY DEF SessionTypes
<1>4. ASSUME NEW m, Counted(m), NEW others, Track(i, others, m)
      PROVE  Counted(metrics')
  <2>1. Counted(Add(m, "active", i, 1))
    BY <1>2, <1>4, AddCounts, Names
  <2>2. Counted(Add(Add(m, "active", i, 1), "started", i, 1))
    BY <1>2, <2>1, AddCounts, Names
  <2> QED
    BY <1>4, <2>2 DEF Track
<1>5. CASE Tracked(i)
  BY <1>1, <1>3, <1>5, SessionTypesStay DEF StartSession, tracker
<1>6. CASE ~Tracked(i) /\ ~Full
  BY <1>1, <1>3, <1>4, <1>6, SessionTypesStay DEF StartSession
<1>7. CASE ~Tracked(i) /\ Full
  <2>1. /\ Track(i, Without(Oldest), Drop(Oldest))
        /\ evicted' = [evicted EXCEPT ![Fate(Oldest)][client[Oldest]] = @ + 1]
    BY <1>1, <1>7 DEF StartSession
  <2>2. Len(sessions) \in Nat /\ Len(sessions) > 0 /\ sessions \in Seq(SessionIds)
    BY <1>7, SessionsAssumption DEF Full, TrackInv, Keys
  <2>3. Oldest \in SessionIds /\ Tracked(Oldest)
    BY <2>2 DEF Oldest, Tracked
  <2>4. client[Oldest] \in Clients
    BY <2>3 DEF TrackInv
  <2>5. Counted(Drop(Oldest))
    BY <1>3, <2>4, AddCounts, Names DEF Drop
  <2>6. Counted(metrics')
    BY <1>4, <2>1, <2>5
  <2>7. Fate(Oldest) \in Fates
    BY DEF Fate, Fates
  <2>8. evicted' \in [Fates -> [Clients -> Nat]]
    BY <2>1, <2>4, <2>7 DEF SessionTypes
  <2>9. Drawn' = Drawn
    BY <1>1 DEF Drawn, SessionIds
  <2>10. Counted(metrics)'
    BY <2>6 DEF Counted, Metrics, Instruments
  <2> QED
    BY <1>1, <2>8, <2>9, <2>10 DEF SessionTypes, Fates
<1> QED
  BY <1>5, <1>6, <1>7

\* So does every step of the sessions.
LEMMA SessionTypesNext ==
  ASSUME TrackInv, SessionTypes, Next PROVE SessionTypes'
<1>1. PICK i \in SessionIds :
        \/ \E k \in ClientsOf[i] : Initialize(i, k)
        \/ \E r \in Requests : Admit(i, r)
        \/ OnInitialized(i) \/ ToolCall(i) \/ OnClose(i)
  BY DEF Next
<1>0. Counted(metrics)
  BY DEF SessionTypes
<1>2. ASSUME NEW k \in ClientsOf[i], Initialize(i, k) PROVE SessionTypes'
  <2>1. /\ transports' = transports \cup {i} /\ client' = [client EXCEPT ![i] = k]
        /\ UNCHANGED <<requests, rejected, metrics, evicted>>
    BY <1>2 DEF Initialize, tracker
  <2>2. k # NoClient
    BY SessionsAssumption DEF SessionIds
  <2>3. Drawn \cup {i} \subseteq Drawn'
    BY <2>1, <2>2 DEF TrackInv, Drawn, SessionIds
  <2>4. Counted(metrics)'
    BY <2>1, <1>0 DEF Counted, Metrics, Instruments
  <2> QED
    BY <2>1, <2>3, <2>4 DEF SessionTypes, Fates
<1>3. ASSUME NEW r \in Requests, Admit(i, r) PROVE SessionTypes'
  <2>1. /\ requests < MaxRequests /\ requests' = requests + 1
        /\ rejected' = rejected \/ rejected' = rejected + 1
        /\ UNCHANGED <<transports, client, metrics, evicted>>
    BY <1>3 DEF Admit, tracker
  <2>2. Drawn' = Drawn
    BY <2>1 DEF Drawn, SessionIds
  <2>3. Counted(metrics)'
    BY <2>1, <1>0 DEF Counted, Metrics, Instruments
  <2>4. requests' \in Nat /\ rejected' \in Nat /\ rejected' <= requests' /\ requests' <= MaxRequests
    BY <2>1, SessionsAssumption DEF SessionTypes
  <2> QED
    BY <2>1, <2>2, <2>3, <2>4 DEF SessionTypes, Fates
<1>4. CASE OnInitialized(i)
  BY <1>4, OnInitializedTypes
<1>5. CASE ToolCall(i)
  <2>1. /\ Dispatch(i, "call") /\ RecordToolUse(i)
        /\ UNCHANGED <<transports, client, requests, rejected, evicted>>
    BY <1>5 DEF ToolCall, Dispatch
  <2>2. client[i] \in Clients
    BY <2>1, Dispatched
  <2>3. PICK n \in Int : n = (IF toolCalls[i] = 0 THEN 1 ELSE 0) /\ n >= 0
    OBVIOUS
  <2>4. Counted(Add(metrics, "firstCall", i, n))
    BY <1>0, <2>2, <2>3, AddCounts, Names
  <2>5. metrics' = metrics \/ metrics' = Add(metrics, "firstCall", i, n)
    BY <2>1, <2>3 DEF RecordToolUse, tracker
  <2> QED
    BY <1>0, <2>1, <2>4, <2>5, SessionTypesStay
<1>6. CASE OnClose(i)
  <2>1. /\ Dispatch(i, "delete") /\ EndSession(i) /\ transports' = transports \ {i}
        /\ UNCHANGED <<client, requests, rejected, evicted>>
    BY <1>6 DEF OnClose, Dispatch
  <2>2. client[i] \in Clients
    BY <2>1, Dispatched
  <2>3. PICK n \in Int : n = (IF toolCalls[i] = 0 THEN 1 ELSE 0) /\ n >= 0
    OBVIOUS
  <2>4. Counted(Add(metrics, "active", i, -1))
    BY <1>0, <2>2, AddCounts, Names
  <2>5. Counted(Add(Add(metrics, "active", i, -1), "duration", i, 1))
    BY <2>2, <2>4, AddCounts, Names
  <2>6. Counted(Add(Add(Add(metrics, "active", i, -1), "duration", i, 1), "empty", i, n))
    BY <2>2, <2>3, <2>5, AddCounts, Names
  <2>7. \/ metrics' = metrics
        \/ metrics' = Add(Add(Add(metrics, "active", i, -1), "duration", i, 1), "empty", i, n)
    BY <2>1, <2>3 DEF EndSession, tracker
  <2>8. Counted(metrics')
    BY <1>0, <2>6, <2>7
  <2> QED
    BY <2>1, <2>8, SessionTypesStay
<1> QED
  BY <1>1, <1>2, <1>3, <1>4, <1>5, <1>6

\* And every step of the server.
LEMMA LifeTypesStep ==
  ASSUME LifeInv, LifeTypes, [LifeNext]_lifeVars
  PROVE  LifeTypes'
<1>1. SessionTypes'
  <2>1. Next \/ UNCHANGED <<web, tracker, evicted>>
    BY DEF LifeNext, lifeVars, vars, MainAdvances, MainFails, Serve, DayPasses,
           PeriodicExport, Signal, Flush, Destroy
  <2>2. CASE UNCHANGED <<web, tracker, evicted>>
    <3>1. UNCHANGED <<transports, client, requests, rejected, metrics, evicted>>
      BY <2>2 DEF web, tracker
    <3> QED
      BY <3>1, SessionTypesStay DEF LifeTypes, SessionTypes
  <2> QED
    BY <2>1, <2>2, SessionTypesNext DEF LifeInv, LifeTypes
<1>2. main' \in Stages
  BY DEF LifeTypes, LifeNext, lifeVars, process, MainAdvances, MainFails, Serve, DayPasses,
         PeriodicExport, Signal, Flush, Destroy, Stages, After
<1>3. shutdown' \in {"none", "flushing", "destroying", "done"} /\ exitCode' \in {-1, 0, 1}
  BY DEF LifeTypes, LifeNext, lifeVars, process, MainAdvances, MainFails, Serve, DayPasses,
         PeriodicExport, Signal, Flush, Destroy
<1>4. unexported' \in BOOLEAN /\ owed' \in BOOLEAN /\ flushFailed' \in BOOLEAN
  <2>1. (unexported \/ metrics' # metrics \/ rejected' # rejected) \in BOOLEAN
    OBVIOUS
  <2> QED
    BY <2>1, Zenon DEF LifeTypes, LifeNext, lifeVars, export, MainAdvances, MainFails, Serve,
           DayPasses, PeriodicExport, Signal, Flush, Destroy
<1> QED
  BY <1>1, <1>2, <1>3, <1>4 DEF LifeTypes, Stages

\* The gauge is a number of sessions, and what is tracked has a client.
LEMMA LifeTyped == ASSUME LifeInv, LifeTypes PROVE LifeTypeOK
<1>1. /\ client \in [SessionIds -> Clients \cup {NoClient}]
      /\ pending \in [SessionIds -> SUBSET Requests]
      /\ toolCalls \in [SessionIds -> Nat]
      /\ Keys(sessions)
  BY DEF LifeInv, TrackInv
<1>2. sessions \in Seq(Drawn)
  <2>1. \A n \in 1..Len(sessions) : sessions[n] \in Drawn
    <3>1. \A n \in 1..Len(sessions) : sessions[n] \in SessionIds /\ Tracked(sessions[n])
      BY <1>1 DEF Keys, Tracked
    <3> QED
      BY <3>1, SessionsAssumption DEF LifeInv, TrackInv, Drawn
  <2> QED
    BY <1>1, <2>1 DEF Keys
<1>3. metrics \in [Instruments -> [Clients -> Nat]]
  <2>1. metrics \in Metrics
    BY DEF LifeInv, TrackInv
  <2>2. \A x \in Instruments, k \in Clients : metrics[x][k] \in Nat
    <3>1. ASSUME NEW k \in Clients PROVE metrics["active"][k] \in Nat
      <4>1. Ids \in SUBSET SessionIds
        BY DEF Ids
      <4>2. Cardinality(Of(Ids, k)) \in Nat
        BY <4>1, Finite
      <4> QED
        BY <4>2 DEF LifeInv, TrackInv, Balanced
    <3> QED
      BY <2>1, <3>1 DEF LifeTypes, SessionTypes, Counted, Metrics
  <2> QED
    BY <2>1, <2>2 DEF Metrics
<1>4. WindowsTypeOK
  BY DEF LifeInv, WindowsInv, SketchInv, WindowsTypeOK
<1>5. requests \in 0..MaxRequests /\ rejected \in 0..MaxRequests
  BY SessionsAssumption DEF LifeTypes, SessionTypes
<1>6. TypeOK
  BY <1>1, <1>2, <1>3, <1>4, <1>5 DEF TypeOK, LifeTypes, SessionTypes, Keys
<1> QED
  BY <1>6 DEF LifeTypeOK, LifeTypes

\* Every variable of server and sessions holds a value of its kind; above all,
\* no gauge and no counter of sessions is ever negative, the Map never holds a
\* key twice nor one whose client is unknown, and no more rejections are counted
\* than requests were sent.
THEOREM LifeTypeCorrect == LifeSpec => []LifeTypeOK
<1>1. LifeInit => LifeTypes
  BY SessionTypesInit DEF LifeInit, LifeTypes, Stages
<1>2. LifeInv /\ LifeTypes /\ [LifeNext]_lifeVars => LifeTypes'
  BY LifeTypesStep
<1>3. LifeInv /\ LifeTypes => LifeTypeOK
  BY LifeTyped
<1> QED
  BY <1>1, <1>2, <1>3, LifeHolds, PTL DEF LifeSpec
=============================================================================
