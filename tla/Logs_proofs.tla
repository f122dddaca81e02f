------------------------------- MODULE Logs_proofs -------------------------------
(***************************************************************************)
(* Proofs about the log on the status page, for a ring of any size, any    *)
(* pages, loggers and starts.                                              *)
(*                                                                         *)
(*   InOrder  the ring, walked from its oldest slot, holds the newest      *)
(*            numbers in a row;                                            *)
(*   Streams  each batch is a run of numbers that begins where the one     *)
(*            before it ended or after what was overwritten, down to the   *)
(*            page; a stream behind the buffer has a wake-up coming.       *)
(*                                                                         *)
(* Newer is a recursive function.  That it returns the end of a sequence   *)
(* in order is proved by comparing it with that end at the least index     *)
(* where they would differ.                                                *)
(***************************************************************************)
EXTENDS Logs, WellFoundedInduction, TLAPS

LEMMA Appended ==
  ASSUME NEW S, NEW s \in Seq(S), NEW b \in S
  PROVE  /\ Len(s) \in Nat /\ Len(Append(s, b)) = Len(s) + 1
         /\ Append(s, b)[Len(s) + 1] = b /\ Append(s, b) # <<>>
         /\ \A j \in 1 .. Len(s) : Append(s, b)[j] = s[j]
         /\ s = <<>> <=> Len(s) = 0
  OBVIOUS

LEMMA EmptySeq ==
  ASSUME NEW S, NEW s \in Seq(S)
  PROVE  s = <<>> <=> Len(s) = 0
  OBVIOUS

LEMMA Tailed ==
  ASSUME NEW S, NEW s \in Seq(S), s # <<>>
  PROVE  /\ Len(s) \in Nat \ {0} /\ Len(Tail(s)) = Len(s) - 1
         /\ \A j \in 1 .. Len(s) - 1 : Tail(s)[j] = s[j + 1]
         /\ Tail(s) = <<>> <=> Len(s) = 1
<1>1. Len(s) \in Nat \ {0} /\ Len(Tail(s)) = Len(s) - 1 /\ Tail(s) \in Seq(S)
  OBVIOUS
<1>2. \A j \in 1 .. Len(s) - 1 : Tail(s)[j] = s[j + 1]
  BY <1>1
<1>3. Tail(s) = <<>> <=> Len(Tail(s)) = 0
  BY <1>1, EmptySeq
<1>4. QED
  BY <1>1, <1>2, <1>3

LEMMA SameSeq ==
  ASSUME NEW S, NEW s \in Seq(S), NEW t \in Seq(S), Len(s) = Len(t),
         \A i \in 1 .. Len(s) : s[i] = t[i]
  PROVE  s = t
  OBVIOUS

LEMMA Joined ==
  ASSUME NEW S, NEW s \in Seq(S), NEW t \in Seq(S)
  PROVE  /\ s \o t \in Seq(S) /\ Len(s \o t) = Len(s) + Len(t)
         /\ \A i \in 1 .. Len(s) : (s \o t)[i] = s[i]
         /\ \A i \in Len(s) + 1 .. Len(s) + Len(t) : (s \o t)[i] = t[i - Len(s)]
  OBVIOUS

LEMMA LastJoined ==
  ASSUME NEW S, NEW a \in Seq(S), NEW b \in Seq(S)
  PROVE  Last(a \o b) = IF b = <<>> THEN Last(a) ELSE Last(b)
<1>1. CASE b = <<>>
  <2>1. a \o b = a
    BY <1>1
  <2>2. QED BY <1>1, <2>1
<1>2. CASE b # <<>>
  <2>1. Len(a \o b) = Len(a) + Len(b) /\ Len(b) \in Nat \ {0} /\ Len(a) \in Nat
    BY <1>2
  <2>2. (a \o b)[Len(a) + Len(b)] = b[Len(b)]
    BY <2>1
  <2>3. QED BY <1>2, <2>1, <2>2 DEF Last
<1>3. QED BY <1>1, <1>2

LEMMA LeastNumber ==
  ASSUME NEW T, T \subseteq Nat, T # {}
  PROVE  \E n \in T : \A k \in T : ~(k < n)
<1> DEFINE Less == OpToRel(<, Nat)
<1>1. IsWellFoundedOn(Less, Nat)
  BY NatLessThanWellFounded
<1> HIDE DEF Less
<1>2. \E n \in T : \A k \in T : ~(<<k, n>> \in Less)
  BY <1>1, WFMin
<1>3. \A k, n \in Nat : k < n => <<k, n>> \in Less
  BY DEF Less, OpToRel
<1>4. QED
  BY <1>2, <1>3

LEMMA NewerSuffix ==
  ASSUME NEW S, NEW s \in Seq(S), NEW n, NEW k \in 0 .. Len(s),
         \A i \in 1 .. k : ~(s[i].seq > n),
         \A i \in k + 1 .. Len(s) : s[i].seq > n
  PROVE  Newer(s, n) = SubSeq(s, k + 1, Len(s))
<1> DEFINE Kept(f) == [i \in 0 .. Len(s) |->
             IF i = 0 THEN <<>>
             ELSE IF s[i].seq > n THEN Append(f[i - 1], s[i]) ELSE f[i - 1]]
           kept == CHOOSE f : f = Kept(f)
           g == [i \in 0 .. Len(s) |-> IF i <= k THEN <<>> ELSE SubSeq(s, k + 1, i)]
<1>1. Newer(s, n) = kept[Len(s)]
  BY DEF Newer
<1>2. \A i \in 0 .. Len(s) : g[i] = Kept(g)[i]
  <2> SUFFICES ASSUME NEW i \in 0 .. Len(s) PROVE g[i] = Kept(g)[i]
    OBVIOUS
  <2>1. CASE i <= k
    BY <2>1
  <2>2. CASE i = k + 1
    <3>1. s[i].seq > n /\ g[i - 1] = <<>> /\ i \in 1 .. Len(s)
      BY <2>2
    <3>2. Append(<<>>, s[i]) = SubSeq(s, k + 1, i)
      BY <2>2
    <3>3. Kept(g)[i] = Append(g[i - 1], s[i]) /\ g[i] = SubSeq(s, k + 1, i)
      BY <2>2, <3>1
    <3>4. QED BY <3>1, <3>2, <3>3
  <2>3. CASE i > k + 1
    <3>1. s[i].seq > n /\ g[i - 1] = SubSeq(s, k + 1, i - 1)
      BY <2>3
    <3>2. Append(SubSeq(s, k + 1, i - 1), s[i]) = SubSeq(s, k + 1, i)
      BY <2>3
    <3>3. Kept(g)[i] = Append(g[i - 1], s[i]) /\ g[i] = SubSeq(s, k + 1, i)
      BY <2>3, <3>1
    <3>4. QED BY <3>1, <3>2, <3>3
  <2>4. QED BY <2>1, <2>2, <2>3
<1>3. g = Kept(g)
  BY <1>2
<1> HIDE DEF g
<1>4. kept = Kept(kept)
  BY <1>3
<1> HIDE DEF kept
<1>5. \A i \in 0 .. Len(s) : kept[i] = g[i]
  <2> DEFINE T == {i \in 0 .. Len(s) : kept[i] # g[i]}
  <2> SUFFICES ASSUME T # {} PROVE FALSE
    OBVIOUS
  <2>1. PICK i \in T : \A j \in T : ~(j < i)
    <3>1. T \subseteq Nat
      OBVIOUS
    <3>2. T # {}
      OBVIOUS
    <3> HIDE DEF T
    <3>3. QED BY <3>1, <3>2, LeastNumber
  <2>2. kept[i] = Kept(kept)[i] /\ g[i] = Kept(g)[i]
    BY <1>3, <1>4
  <2>3. CASE i = 0
    BY <2>1, <2>2, <2>3
  <2>4. CASE i # 0
    <3>1. i - 1 \in 0 .. Len(s) /\ i \in 0 .. Len(s) /\ kept[i - 1] = g[i - 1]
      BY <2>1, <2>4
    <3>2. QED BY <2>1, <2>2, <2>4, <3>1
  <2>5. QED BY <2>3, <2>4
<1>6. kept[Len(s)] = g[Len(s)]
  BY <1>5
<1>7. g[Len(s)] = SubSeq(s, k + 1, Len(s))
  BY DEF g
<1>8. QED
  BY <1>1, <1>6, <1>7

----------------------------------------------------------------------------
(* The ring *)

Gone(n) == n <= seq - RingSize
First(s) == s[1].seq
LastOf(s) == s[Len(s)].seq

\* Records with numbers in a row.
Run(s) ==
    /\ s \in Seq(Records) /\ Len(s) > 0 /\ s[1].seq > 0
    /\ \A i \in 1 .. Len(s) : s[i].seq = s[1].seq + i - 1

\* What lies between number m and the run s can no longer be had.
Skips(m, s) == \A n \in m + 1 .. First(s) - 1 : Gone(n)

BufferTypeOK ==
    /\ ring \in [Slots -> Records] /\ next \in Slots /\ seq \in 0 .. ids
    /\ ids \in 0 .. MaxRecords

InOrder ==
    \A i \in 1 .. RingSize :
        Walk[i].seq = IF seq - RingSize + i > 0 THEN seq - RingSize + i ELSE 0

LEMMA RecordFields ==
    /\ \A r \in Records : r.seq \in Nat /\ r.id \in Nat
    /\ \A n, m \in 0 .. MaxRecords : n <= m => [seq |-> n, id |-> m] \in Records
  BY LogsAssumption DEF Records

LEMMA Around ==
  ASSUME NEW a \in Slots, NEW i \in 1 .. RingSize
  PROVE  /\ (a + i - 1) % RingSize = IF a + i - 1 < RingSize THEN a + i - 1 ELSE a + i - 1 - RingSize
         /\ (a + i - 1) % RingSize \in Slots
         /\ (a + 1) % RingSize = IF a + 1 < RingSize THEN a + 1 ELSE 0
<1>1. \A m \in 0 .. RingSize - 1 : m % RingSize = m
  BY LogsAssumption
<1>2. \A m \in RingSize .. 2 * RingSize - 1 : m % RingSize = m - RingSize
  BY LogsAssumption
<1>3. a + i - 1 \in 0 .. RingSize - 1 \/ a + i - 1 \in RingSize .. 2 * RingSize - 1
  BY LogsAssumption DEF Slots
<1>4. a + 1 \in 0 .. RingSize - 1 \/ a + 1 = RingSize
  BY LogsAssumption DEF Slots
<1>5. RingSize % RingSize = 0
  BY LogsAssumption
<1>6. QED
  BY <1>1, <1>2, <1>3, <1>4, <1>5, LogsAssumption DEF Slots

LEMMA WalkTyped ==
  ASSUME BufferTypeOK
  PROVE  Walk \in Seq(Records) /\ Len(Walk) = RingSize
<1>1. \A i \in 1 .. RingSize : (next + i - 1) % RingSize \in Slots
  BY Around DEF BufferTypeOK
<1>2. \A i \in 1 .. RingSize : ring[(next + i - 1) % RingSize] \in Records
  BY <1>1 DEF BufferTypeOK
<1>3. QED
  BY <1>2, LogsAssumption DEF Walk

\* Since in one go: everything after number n, from the oldest that is left.
LEMMA SinceIs ==
  ASSUME BufferTypeOK, InOrder, NEW n \in 0 .. seq
  PROVE  /\ n = seq => Since(n) = <<>>
         /\ n < seq => Run(Since(n)) /\ LastOf(Since(n)) = seq /\ Skips(n, Since(n))
<1>1. Walk \in Seq(Records) /\ Len(Walk) = RingSize /\ seq \in Nat /\ RingSize \in Nat \ {0}
  BY WalkTyped, LogsAssumption DEF BufferTypeOK
<1> DEFINE k == IF n <= seq - RingSize THEN 0 ELSE n - (seq - RingSize)
<1>2. k \in 0 .. Len(Walk)
  BY <1>1
<1>3. /\ \A i \in 1 .. k : ~(Walk[i].seq > n)
      /\ \A i \in k + 1 .. Len(Walk) : Walk[i].seq > n /\ Walk[i].seq = seq - RingSize + i
  BY <1>1 DEF InOrder
<1>4. Since(n) = SubSeq(Walk, k + 1, Len(Walk))
  BY <1>1, <1>2, <1>3, NewerSuffix DEF Since
<1>5. n = seq => k = RingSize
  BY <1>1
<1>6. n = seq => Since(n) = <<>>
  BY <1>1, <1>4, <1>5
<1>7. ASSUME n < seq
      PROVE  Run(Since(n)) /\ LastOf(Since(n)) = seq /\ Skips(n, Since(n))
  <2>1. k < RingSize /\ k \in Nat
    BY <1>1, <1>7
  <2> HIDE DEF k
  <2> DEFINE s == SubSeq(Walk, k + 1, Len(Walk))
  <2>2. s \in Seq(Records) /\ Len(s) = RingSize - k
    BY <1>1, <2>1
  <2>3. \A i \in 1 .. Len(s) : s[i] = Walk[k + i]
    BY <1>1, <2>1
  <2>a. 1 \in 1 .. Len(s) /\ Len(s) \in 1 .. Len(s)
    BY <1>1, <2>1, <2>2
  <2> HIDE DEF s
  <2>4. ASSUME NEW i \in 1 .. Len(s) PROVE s[i].seq = seq - RingSize + k + i
    <3>1. k + i \in k + 1 .. Len(Walk) /\ i \in Int
      BY <1>1, <2>1, <2>2
    <3>2. Walk[k + i].seq = seq - RingSize + (k + i)
      BY <1>3, <3>1
    <3>3. s[i].seq = Walk[k + i].seq
      BY <2>3
    <3>4. QED BY <1>1, <2>1, <3>1, <3>2, <3>3
  <2>5. s[1].seq = seq - RingSize + k + 1 /\ s[Len(s)].seq = seq
    <3>1. s[1].seq = seq - RingSize + k + 1
      BY <2>a, <2>4
    <3>2. s[Len(s)].seq = seq - RingSize + k + Len(s)
      BY <2>a, <2>4
    <3>3. QED BY <1>1, <2>1, <2>2, <3>1, <3>2
  <2>6. s[1].seq > n
    BY <1>1, <1>3, <2>1, <2>2, <2>a, <2>3
  <2>7. Run(s)
    BY <1>1, <2>1, <2>2, <2>4, <2>5, <2>6, SMTT(30) DEF Run
  <2>8. Skips(n, s)
    BY <1>1, <2>1, <2>5 DEF Skips, First, Gone, k
  <2>9. QED BY <1>4, <2>5, <2>7, <2>8 DEF LastOf, s
<1>8. QED
  BY <1>6, <1>7

\* What appendLogs adds of a batch: nothing, or the end of it.
LEMMA UnseenIs ==
  ASSUME NEW s, Run(s), NEW m \in Nat
  PROVE  /\ LastOf(s) <= m => Newer(s, m) = <<>>
         /\ LastOf(s) > m =>
              /\ Run(Newer(s, m)) /\ LastOf(Newer(s, m)) = LastOf(s) /\ First(Newer(s, m)) > m
              /\ First(Newer(s, m)) = m + 1 \/ First(Newer(s, m)) = First(s)
<1>1. /\ s \in Seq(Records) /\ Len(s) \in Nat \ {0} /\ First(s) \in Nat \ {0}
      /\ \A i \in 1 .. Len(s) : s[i].seq = First(s) + i - 1
      /\ LastOf(s) = First(s) + Len(s) - 1
  BY RecordFields DEF Run, First, LastOf
<1> DEFINE k == IF m < First(s) THEN 0
                ELSE IF m >= LastOf(s) THEN Len(s) ELSE m - First(s) + 1
<1>2. k \in 0 .. Len(s)
  BY <1>1
<1>3. /\ \A i \in 1 .. k : ~(s[i].seq > m)
      /\ \A i \in k + 1 .. Len(s) : s[i].seq > m
  BY <1>1, SMTT(30)
<1>4. Newer(s, m) = SubSeq(s, k + 1, Len(s))
  BY <1>1, <1>2, <1>3, NewerSuffix
<1>5. LastOf(s) <= m => k = Len(s)
  BY <1>1
<1>a. SubSeq(s, Len(s) + 1, Len(s)) = <<>>
  BY <1>1
<1>6. LastOf(s) <= m => Newer(s, m) = <<>>
  <2> HIDE DEF k
  <2>1. QED BY <1>4, <1>5, <1>a
<1>7. ASSUME LastOf(s) > m
      PROVE  /\ Run(Newer(s, m)) /\ LastOf(Newer(s, m)) = LastOf(s) /\ First(Newer(s, m)) > m
             /\ First(Newer(s, m)) = m + 1 \/ First(Newer(s, m)) = First(s)
  <2>1. k < Len(s) /\ k \in Nat /\ ((k = 0 /\ m < First(s)) \/ k = m - First(s) + 1)
    BY <1>1, <1>7
  <2> HIDE DEF k
  <2> DEFINE t == SubSeq(s, k + 1, Len(s))
  <2>2. t \in Seq(Records) /\ Len(t) = Len(s) - k
    BY <1>1, <2>1
  <2>3. \A i \in 1 .. Len(t) : t[i] = s[k + i]
    BY <1>1, <2>1
  <2> HIDE DEF t
  <2>a. Len(t) \in Nat \ {0} /\ Len(s) - k \in Nat \ {0}
    BY <1>1, <2>1, <2>2
  <2>4. \A i \in 1 .. Len(t) : t[i].seq = First(s) + k + i - 1
    <3> SUFFICES ASSUME NEW i \in 1 .. Len(t) PROVE t[i].seq = First(s) + k + i - 1
      OBVIOUS
    <3>1. k + i \in 1 .. Len(s) /\ i \in Nat
      BY <2>1, <2>2, <2>a
    <3>2. s[k + i].seq = First(s) + (k + i) - 1
      BY <1>1, <3>1
    <3>3. t[i].seq = First(s) + (k + i) - 1
      BY <2>3, <3>2
    <3>4. First(s) \in Int /\ k \in Int /\ i \in Int
      BY <1>1, <2>1, <3>1
    <3>5. QED BY <3>3, <3>4
  <2>5. t[1].seq = First(s) + k /\ t[Len(t)].seq = LastOf(s)
    <3>1. 1 \in 1 .. Len(t) /\ Len(t) \in 1 .. Len(t)
      BY <2>a
    <3>2. t[1].seq = First(s) + k + 1 - 1 /\ t[Len(t)].seq = First(s) + k + Len(t) - 1
      BY <2>4, <3>1
    <3>3. Len(t) = Len(s) - k /\ LastOf(s) = First(s) + Len(s) - 1
      BY <1>1, <2>2
    <3>4. First(s) \in Int /\ k \in Int /\ Len(s) \in Int
      BY <1>1, <2>1
    <3>5. QED BY <3>2, <3>3, <3>4
  <2>6. Run(t)
    BY <1>1, <2>1, <2>2, <2>4, <2>5 DEF Run
  <2>7. /\ LastOf(t) = LastOf(s) /\ First(t) > m
        /\ First(t) = m + 1 \/ First(t) = First(s)
    <3>1. LastOf(t) = LastOf(s) /\ First(t) = First(s) + k
      BY <2>5 DEF LastOf, First
    <3>2. QED BY <1>1, <2>1, <3>1
  <2>8. QED BY <1>4, <2>6, <2>7 DEF t
<1>8. QED
  BY <1>6, <1>7

----------------------------------------------------------------------------
(* The streams *)

ControlTypeOK ==
    /\ subs \subseteq Pages /\ notifying \in [Loggers -> SUBSET subs]
    /\ wake \in [Pages -> BOOLEAN]
    /\ handler \in [Pages -> {"none", "subscribed", "select", "sending"}]
    /\ starts \in 1 .. MaxStarts

StreamTypeOK ==
    /\ position \in [Pages -> 0 .. seq] /\ batch \in [Pages -> Seq(Records)]
    /\ wire \in [Pages -> Seq(Seq(Records))] /\ shown \in [Pages -> Seq(Records)]
    /\ lastSeq = [p \in Pages |-> IF shown[p] = <<>> THEN 0 ELSE Last(shown[p]).seq]

\* The last number that is at the page or on its way.
Delivered(p) == IF wire[p] = <<>> THEN lastSeq[p] ELSE LastOf(wire[p][Len(wire[p])])

OnTheWire(p) ==
    /\ \A j \in 1 .. Len(wire[p]) : Run(wire[p][j]) /\ LastOf(wire[p][j]) <= seq
    /\ \A j \in 1 .. Len(wire[p]) :
         Skips(IF j = 1 THEN lastSeq[p] ELSE LastOf(wire[p][j - 1]), wire[p][j])

InHand(p) ==
    IF handler[p] = "sending"
      THEN Run(batch[p]) /\ LastOf(batch[p]) = position[p] /\ Skips(Delivered(p), batch[p])
      ELSE Delivered(p) >= position[p]

Called(p) ==
    handler[p] \in {"select", "sending"} /\ position[p] < seq
      => wake[p] \/ \E g \in Loggers : p \in notifying[g]

StreamOK(p) ==
    /\ p \in subs <=> handler[p] # "none"
    /\ handler[p] = "sending" <=> batch[p] # <<>>
    /\ Len(wire[p]) <= WireCap
    /\ handler[p] = "none" => wire[p] = <<>> /\ position[p] = 0
    /\ OnTheWire(p) /\ InHand(p) /\ Called(p)

Streams ==
    /\ BufferTypeOK /\ ControlTypeOK /\ StreamTypeOK /\ InOrder
    /\ \A p \in Pages : StreamOK(p)

LEMMA StreamsTyped == Streams => TypeOK /\ NoLostWakeUp
  BY Zenon DEF Streams, BufferTypeOK, ControlTypeOK, StreamTypeOK, StreamOK, Called, TypeOK,
         NoLostWakeUp

LEMMA StreamsInit == Init => Streams
<1> SUFFICES ASSUME Init PROVE Streams
  OBVIOUS
<1> USE LogsAssumption DEF Init
<1>1. Empty \in Records /\ Empty.seq = 0
  BY RecordFields DEF Empty
<1>2. BufferTypeOK
  BY <1>1 DEF BufferTypeOK, Slots
<1>3. ControlTypeOK /\ StreamTypeOK
  BY DEF ControlTypeOK, StreamTypeOK
<1>4. \A i \in 1 .. RingSize : Walk[i] = Empty
  BY Around DEF Walk, Slots
<1>5. InOrder
  BY <1>1, <1>4 DEF InOrder
<1>6. ASSUME NEW p \in Pages PROVE StreamOK(p)
  <2>1. Len(wire[p]) = 0 /\ wire[p] = <<>> /\ lastSeq[p] = 0 /\ position[p] = 0 /\ handler[p] = "none"
        /\ batch[p] = <<>>
    OBVIOUS
  <2>2. OnTheWire(p) /\ InHand(p) /\ Called(p)
    BY <2>1 DEF OnTheWire, InHand, Delivered, Called
  <2>3. QED BY <2>1, <2>2 DEF StreamOK
<1>7. QED
  BY <1>2, <1>3, <1>5, <1>6 DEF Streams

\* The next slot takes the next number; the oldest is the one after it.
LEMMA AppendOrder ==
  ASSUME BufferTypeOK, InOrder, NEW g \in Loggers, Append_(g)
  PROVE  BufferTypeOK' /\ InOrder'
<1>1. /\ next \in Slots /\ seq \in Nat /\ RingSize \in Nat \ {0} /\ ids \in Nat /\ seq <= ids
      /\ ids + 1 \in 0 .. MaxRecords /\ seq' = seq + 1 /\ ids' = ids + 1
      /\ ring' = [ring EXCEPT ![next] = [seq |-> seq + 1, id |-> ids + 1]]
      /\ next' = (next + 1) % RingSize
  BY LogsAssumption DEF BufferTypeOK, Append_
<1>2. /\ next' = IF next + 1 < RingSize THEN next + 1 ELSE 0
      /\ next' \in Slots
  <2>1. 1 \in 1 .. RingSize
    BY <1>1
  <2>2. next' = IF next + 1 < RingSize THEN next + 1 ELSE 0
    BY <1>1, <2>1, Around
  <2>3. QED BY <1>1, <2>2 DEF Slots
<1>3. [seq |-> seq + 1, id |-> ids + 1] \in Records
  <2>1. seq + 1 \in 0 .. MaxRecords /\ seq + 1 <= ids + 1
    BY <1>1, LogsAssumption
  <2>2. QED BY <1>1, <2>1, RecordFields
<1>4. BufferTypeOK'
  BY <1>1, <1>2, <1>3 DEF BufferTypeOK
<1>5. ASSUME NEW i \in 1 .. RingSize
      PROVE  Walk'[i].seq = IF seq' - RingSize + i > 0 THEN seq' - RingSize + i ELSE 0
  <2> DEFINE at == (next' + i - 1) % RingSize
  <2>1. at = (IF next' + i - 1 < RingSize THEN next' + i - 1 ELSE next' + i - 1 - RingSize)
        /\ at \in Slots
    BY <1>2, Around
  <2>2. Walk'[i] = ring'[at]
    BY DEF Walk
  <2> HIDE DEF at
  <2>3. CASE i = RingSize
    <3>1. at = next
      BY <1>1, <1>2, <2>1, <2>3 DEF Slots
    <3>2. Walk'[i].seq = seq + 1
      BY <1>1, <2>2, <3>1 DEF BufferTypeOK
    <3>3. QED BY <1>1, <2>3, <3>2
  <2>4. CASE i # RingSize
    <3>1. i + 1 \in 1 .. RingSize
      BY <1>1, <2>4
    <3>2. (next + (i + 1) - 1) % RingSize =
            IF next + (i + 1) - 1 < RingSize THEN next + (i + 1) - 1
                                             ELSE next + (i + 1) - 1 - RingSize
      BY <1>1, <3>1, Around
    <3>3. at = (next + (i + 1) - 1) % RingSize /\ at # next
      BY <1>1, <1>2, <2>1, <3>1, <3>2 DEF Slots
    <3>4. Walk'[i] = Walk[i + 1]
      <4>1. ring'[at] = ring[at]
        BY <1>1, <2>1, <3>3 DEF BufferTypeOK
      <4>2. Walk[i + 1] = ring[at]
        BY <3>1, <3>3 DEF Walk
      <4>3. QED BY <2>2, <4>1, <4>2
    <3>5. Walk[i + 1].seq = IF seq - RingSize + (i + 1) > 0 THEN seq - RingSize + (i + 1) ELSE 0
      BY <3>1 DEF InOrder
    <3>6. QED BY <1>1, <3>4, <3>5
  <2>5. QED BY <2>3, <2>4
<1>6. QED
  BY <1>4, <1>5 DEF InOrder

\* A stream that is left alone while the buffer goes on.
LEMMA Unmoved ==
  ASSUME NEW q, StreamOK(q), StreamTypeOK, q \in Pages,
         UNCHANGED <<handler[q], position[q], batch[q], wire[q], lastSeq[q]>>,
         seq \in Nat, seq' \in Nat, seq <= seq', q \in subs' <=> q \in subs, Called(q)'
  PROVE  StreamOK(q)'
<1>1. \A n \in Int : Gone(n) => Gone(n)'
  <2> SUFFICES ASSUME NEW n \in Int, Gone(n) PROVE Gone(n)'
    OBVIOUS
  <2>1. n <= seq - RingSize /\ RingSize \in Nat
    BY LogsAssumption DEF Gone
  <2>2. ASSUME NEW a \in Int, NEW b \in Int, a <= b, n <= a - RingSize PROVE n <= b - RingSize
    BY <2>1, <2>2
  <2>3. seq \in Int /\ seq' \in Int
    OBVIOUS
  <2>4. n <= seq' - RingSize
    BY <2>1, <2>2, <2>3
  <2>5. QED BY <2>4 DEF Gone
<1>2. \A m, s : Skips(m, s) => Skips(m, s)'
  BY <1>1 DEF Skips, First
<1>3. Delivered(q)' = Delivered(q)
  BY DEF Delivered, LastOf
<1>4. OnTheWire(q)'
  <2> SUFFICES ASSUME NEW j \in 1 .. Len(wire[q])
               PROVE  /\ Run(wire[q][j]) /\ LastOf(wire[q][j]) <= seq'
                      /\ Skips(IF j = 1 THEN lastSeq[q] ELSE LastOf(wire[q][j - 1]), wire[q][j])'
    BY DEF OnTheWire, Run, LastOf, Skips, First, Gone
  <2>1. /\ Run(wire[q][j]) /\ LastOf(wire[q][j]) <= seq
        /\ Skips(IF j = 1 THEN lastSeq[q] ELSE LastOf(wire[q][j - 1]), wire[q][j])
    BY DEF StreamOK, OnTheWire
  <2>2. LastOf(wire[q][j]) \in Nat
    BY <2>1, RecordFields DEF Run, LastOf
  <2>3. QED BY <1>2, <2>1, <2>2
<1>5. InHand(q)'
  BY <1>2, <1>3 DEF StreamOK, InHand, Run, LastOf, Skips
<1>6. QED
  BY <1>4, <1>5 DEF StreamOK

LEMMA SameBuffer ==
  ASSUME BufferTypeOK, InOrder, UNCHANGED <<bufferVars, ids>>
  PROVE  BufferTypeOK' /\ InOrder'
<1>1. Walk' = Walk
  BY DEF bufferVars, Walk
<1>2. QED
  BY <1>1 DEF bufferVars, BufferTypeOK, InOrder

LEMMA Other ==
  ASSUME Streams, NEW q \in Pages, UNCHANGED seq,
         UNCHANGED <<handler[q], position[q], batch[q], wire[q], lastSeq[q], wake[q]>>,
         q \in subs' <=> q \in subs,
         \A g \in Loggers : q \in notifying[g] => q \in notifying'[g]
  PROVE  StreamOK(q)'
<1>1. StreamOK(q) /\ StreamTypeOK /\ seq \in Nat
  BY LogsAssumption DEF Streams, BufferTypeOK
<1>2. Called(q)'
  BY <1>1 DEF StreamOK, Called
<1>3. QED
  BY <1>1, <1>2, Unmoved

LEMMA Numbers ==
  ASSUME Streams, NEW p \in Pages
  PROVE  lastSeq[p] \in Nat /\ Delivered(p) \in Nat /\ position[p] \in 0 .. seq /\ seq \in Nat
<1>1. lastSeq[p] \in Nat
  <2>1. lastSeq[p] = IF shown[p] = <<>> THEN 0 ELSE Last(shown[p]).seq
    BY DEF Streams, StreamTypeOK
  <2>2. ASSUME shown[p] # <<>> PROVE Last(shown[p]) \in Records
    BY <2>2 DEF Streams, StreamTypeOK, Last
  <2>3. QED BY <2>1, <2>2, RecordFields
<1>2. ASSUME wire[p] # <<>> PROVE LastOf(wire[p][Len(wire[p])]) \in Nat
  <2>1. Len(wire[p]) \in 1 .. Len(wire[p])
    BY <1>2 DEF Streams, StreamTypeOK
  <2>2. Run(wire[p][Len(wire[p])])
    BY <2>1 DEF Streams, StreamOK, OnTheWire
  <2>3. QED BY <2>2, RecordFields DEF Run, LastOf
<1>3. position[p] \in 0 .. seq /\ seq \in Nat
  BY LogsAssumption DEF Streams, StreamTypeOK, BufferTypeOK
<1>4. QED
  BY <1>1, <1>2, <1>3 DEF Delivered

LEMMA SkipsLess ==
  ASSUME NEW m \in Int, NEW n \in Int, m <= n, NEW s, First(s) \in Int, Skips(m, s)
  PROVE  Skips(n, s)
  BY DEF Skips

LEMMA RunFields ==
  ASSUME NEW s, Run(s)
  PROVE  First(s) \in Nat \ {0} /\ LastOf(s) \in Nat /\ s # <<>> /\ Last(s).seq = LastOf(s)
  BY RecordFields DEF Run, First, LastOf, Last

LEMMA AppendStep ==
  ASSUME Streams, NEW g \in Loggers, Append_(g)
  PROVE  Streams'
<1>1. BufferTypeOK' /\ InOrder' /\ seq \in Nat /\ seq' = seq + 1
  <2>1. BufferTypeOK /\ InOrder
    BY DEF Streams
  <2>2. BufferTypeOK' /\ InOrder'
    BY <2>1, AppendOrder
  <2>3. seq \in Nat /\ seq' = seq + 1
    BY <2>1 DEF BufferTypeOK, Append_
  <2>4. QED BY <2>2, <2>3
<1>2. ControlTypeOK'
  BY DEF Streams, ControlTypeOK, Append_, streamVars
<1>3. StreamTypeOK'
  <2>1. position' \in [Pages -> 0 .. seq']
    BY <1>1 DEF Streams, StreamTypeOK, Append_, streamVars
  <2>2. QED BY <2>1 DEF Streams, StreamTypeOK, Append_, streamVars, pageVars
<1>4. ASSUME NEW q \in Pages PROVE StreamOK(q)'
  <2>1. UNCHANGED <<handler, position, batch, wire, lastSeq, subs>>
    BY DEF Append_, streamVars, pageVars
  <2>2. notifying'[g] = subs
    BY DEF Append_, Streams, ControlTypeOK
  <2>3. handler'[q] # "none" => q \in notifying'[g]
    BY <2>1, <2>2 DEF Streams, StreamOK
  <2>4. Called(q)'
    BY <2>3 DEF Called
  <2>5. StreamOK(q) /\ StreamTypeOK
    BY DEF Streams
  <2>6. QED BY <1>1, <2>1, <2>4, <2>5, Unmoved
<1>5. QED
  BY <1>1, <1>2, <1>3, <1>4 DEF Streams

LEMMA NotifyStep ==
  ASSUME Streams, NEW g \in Loggers, Notify(g)
  PROVE  Streams'
<1>1. PICK p \in notifying[g] : Signal(g, p) /\ notifying' = [notifying EXCEPT ![g] = @ \ {p}]
  BY DEF Notify
<1>2. UNCHANGED <<bufferVars, seq, subs, handler, position, batch, wire, lastSeq, shown, ids, starts>>
  BY DEF Notify, streamVars, pageVars, bufferVars
<1>3. p \in Pages
  BY DEF Streams, ControlTypeOK
<1>4. BufferTypeOK' /\ InOrder'
  BY <1>2, SameBuffer DEF Streams
<1>5. ControlTypeOK' /\ StreamTypeOK'
  BY <1>1, <1>2, <1>3 DEF Streams, ControlTypeOK, StreamTypeOK, Signal
<1>6. ASSUME NEW q \in Pages PROVE StreamOK(q)'
  <2>1. CASE q = p
    <3>1. wake'[q]
      BY <1>1, <1>3, <2>1 DEF Streams, ControlTypeOK, Signal
    <3>2. Called(q)' /\ StreamOK(q) /\ StreamTypeOK /\ seq \in Nat
      BY <3>1, LogsAssumption DEF Called, Streams, BufferTypeOK
    <3>3. QED BY <1>2, <3>2, Unmoved
  <2>2. CASE q # p
    <3>1. wake'[q] = wake[q] /\ \A h \in Loggers : q \in notifying[h] => q \in notifying'[h]
      BY <1>1, <1>3, <2>2 DEF Streams, ControlTypeOK, Signal
    <3>2. QED BY <1>2, <3>1, Other
  <2>3. QED BY <2>1, <2>2
<1>7. QED
  BY <1>4, <1>5, <1>6 DEF Streams

LEMMA OpenStep ==
  ASSUME Streams, NEW p \in Pages, OpenStream(p)
  PROVE  Streams'
<1>1. UNCHANGED <<bufferVars, seq, notifying, batch, wire, lastSeq, shown, ids, starts>>
  BY DEF OpenStream, bufferVars, pageVars
<1>2. BufferTypeOK' /\ InOrder'
  BY <1>1, SameBuffer DEF Streams
<1>3. /\ handler' = [handler EXCEPT ![p] = "subscribed"] /\ subs' = subs \cup {p}
      /\ wake' = [wake EXCEPT ![p] = FALSE] /\ position' = [position EXCEPT ![p] = 0]
      /\ handler[p] = "none"
  BY DEF OpenStream, SinceOfURL
<1>4. ControlTypeOK' /\ StreamTypeOK'
  <2>1. position' \in [Pages -> 0 .. seq']
    BY <1>1, <1>3, LogsAssumption DEF Streams, StreamTypeOK, BufferTypeOK
  <2>2. StreamTypeOK'
    BY <1>1, <2>1 DEF Streams, StreamTypeOK
  <2>3. ControlTypeOK'
    BY <1>1, <1>3 DEF Streams, ControlTypeOK
  <2>4. QED BY <2>2, <2>3
<1>5. StreamOK(p)'
  <2>1. /\ handler'[p] = "subscribed" /\ p \in subs' /\ position'[p] = 0 /\ position[p] = 0
        /\ wire[p] = <<>> /\ batch[p] = <<>> /\ StreamOK(p)
    BY <1>3, <1>4 DEF Streams, StreamOK, ControlTypeOK, StreamTypeOK
  <2>2. Delivered(p)' = Delivered(p) /\ Delivered(p) \in Nat
    BY <1>1, Numbers DEF Delivered
  <2>3. OnTheWire(p)'
    BY <1>1, <2>1 DEF OnTheWire
  <2>4. InHand(p)' /\ Called(p)'
    BY <2>1, <2>2 DEF InHand, Called
  <2>5. QED BY <1>1, <2>1, <2>3, <2>4 DEF StreamOK
<1>6. ASSUME NEW q \in Pages, q # p PROVE StreamOK(q)'
  <2>1. UNCHANGED <<handler[q], position[q], batch[q], wire[q], lastSeq[q], wake[q]>>
    BY <1>1, <1>3, <1>6 DEF Streams, ControlTypeOK, StreamTypeOK
  <2>2. QED BY <1>1, <1>3, <1>6, <2>1, Other
<1>7. QED
  BY <1>2, <1>4, <1>5, <1>6 DEF Streams

LEMMA FollowStep ==
  ASSUME Streams, NEW p \in Pages, ReadBacklog(p) \/ WakeUp(p)
  PROVE  Streams'
<1>1. /\ UNCHANGED <<bufferVars, seq, subs, notifying, wire, lastSeq, shown, ids, starts>>
      /\ Follow(p, Since(position[p])) /\ handler[p] \in {"subscribed", "select"}
      /\ wake' = wake \/ wake' = [wake EXCEPT ![p] = FALSE]
  BY DEF ReadBacklog, WakeUp, bufferVars, pageVars
<1>2. BufferTypeOK' /\ InOrder'
  BY <1>1, SameBuffer DEF Streams
<1>3. /\ position[p] \in 0 .. seq /\ seq \in Nat /\ Delivered(p) \in Nat /\ StreamOK(p)
      /\ batch[p] = <<>>
  BY <1>1, Numbers DEF Streams, StreamOK
<1>4. ControlTypeOK'
  <2>1. handler' \in [Pages -> {"none", "subscribed", "select", "sending"}]
    BY <1>1 DEF Streams, ControlTypeOK, Follow
  <2>2. QED BY <1>1, <2>1 DEF Streams, ControlTypeOK
<1>5. Delivered(p)' = Delivered(p) /\ OnTheWire(p)'
  BY <1>1, <1>3 DEF Delivered, LastOf, StreamOK, OnTheWire, Run, Skips, First, Gone
<1>6. CASE position[p] = seq
  <2>1. Since(position[p]) = <<>>
    BY <1>3, <1>6, SinceIs DEF Streams
  <2>2. handler' = [handler EXCEPT ![p] = "select"] /\ position' = position /\ batch' = batch
    BY <1>1, <2>1 DEF Follow
  <2>3. StreamTypeOK'
    BY <1>1, <2>2 DEF Streams, StreamTypeOK
  <2>4. handler'[p] = "select" /\ (p \in subs') /\ Delivered(p) >= position[p]
    BY <1>1, <1>3, <2>2 DEF Streams, ControlTypeOK, StreamOK, InHand
  <2>5. InHand(p)' /\ Called(p)'
    BY <1>1, <1>3, <1>5, <1>6, <2>2, <2>4 DEF InHand, Called
  <2>6. StreamOK(p)'
    BY <1>1, <1>3, <1>5, <2>2, <2>4, <2>5 DEF StreamOK
  <2>7. ASSUME NEW q \in Pages, q # p PROVE StreamOK(q)'
    <3>1. UNCHANGED <<handler[q], position[q], batch[q], wire[q], lastSeq[q], wake[q]>>
      BY <1>1, <2>2, <2>7 DEF Streams, ControlTypeOK
    <3>2. QED BY <1>1, <3>1, Other
  <2>8. QED BY <1>2, <1>4, <2>3, <2>6, <2>7 DEF Streams
<1>7. CASE position[p] < seq
  <2> DEFINE s == Since(position[p])
  <2>1. Run(s) /\ LastOf(s) = seq /\ Skips(position[p], s)
    BY <1>3, <1>7, SinceIs DEF Streams
  <2> HIDE DEF s
  <2>2. s # <<>> /\ Last(s).seq = seq /\ First(s) \in Nat /\ s \in Seq(Records)
    BY <2>1, RunFields DEF Run
  <2>3. /\ handler' = [handler EXCEPT ![p] = "sending"] /\ position' = [position EXCEPT ![p] = seq]
        /\ batch' = [batch EXCEPT ![p] = s]
    BY <1>1, <2>2 DEF Follow, s
  <2>4. StreamTypeOK'
    <3>1. position' \in [Pages -> 0 .. seq'] /\ batch' \in [Pages -> Seq(Records)]
      BY <1>1, <1>3, <2>2, <2>3 DEF Streams, StreamTypeOK
    <3>2. QED BY <1>1, <3>1 DEF Streams, StreamTypeOK
  <2>5. handler'[p] = "sending" /\ (p \in subs') /\ position'[p] = seq /\ batch'[p] = s
    BY <1>1, <1>3, <2>3 DEF Streams, ControlTypeOK, StreamTypeOK, StreamOK
  <2>6. Skips(Delivered(p), s)
    <3>1. Delivered(p) >= position[p]
      BY <1>1, <1>3 DEF StreamOK, InHand
    <3>2. position[p] \in Int /\ Delivered(p) \in Int /\ First(s) \in Int
      BY <1>3, <2>2
    <3>3. position[p] <= Delivered(p)
      BY <3>1, <3>2
    <3>4. QED BY <2>1, <3>2, <3>3, SkipsLess
  <2>7. InHand(p)' /\ Called(p)'
    <3>1. Skips(Delivered(p), batch[p])'
      BY <1>1, <1>5, <2>5, <2>6 DEF Skips, First, Gone
    <3>2. Run(batch[p])' /\ LastOf(batch[p])' = position'[p]
      BY <2>1, <2>5 DEF Run, LastOf
    <3>3. Called(p)'
      BY <1>1, <1>3, <2>5 DEF Called
    <3>4. QED BY <2>5, <3>1, <3>2, <3>3 DEF InHand
  <2>8. StreamOK(p)'
    BY <1>1, <1>3, <1>5, <2>2, <2>5, <2>7 DEF StreamOK
  <2>9. ASSUME NEW q \in Pages, q # p PROVE StreamOK(q)'
    <3>1. UNCHANGED <<handler[q], position[q], batch[q], wire[q], lastSeq[q], wake[q]>>
      BY <1>1, <2>3, <2>9 DEF Streams, ControlTypeOK, StreamTypeOK
    <3>2. QED BY <1>1, <3>1, Other
  <2>10. QED BY <1>2, <1>4, <2>4, <2>8, <2>9 DEF Streams
<1>8. QED
  BY <1>3, <1>6, <1>7

LEMMA SendStep ==
  ASSUME Streams, NEW p \in Pages, Send(p)
  PROVE  Streams'
<1>1. /\ UNCHANGED <<bufferVars, seq, subs, notifying, wake, position, lastSeq, shown, ids, starts>>
      /\ handler[p] = "sending" /\ Len(wire[p]) < WireCap
      /\ wire' = [wire EXCEPT ![p] = Append(@, batch[p])]
      /\ batch' = [batch EXCEPT ![p] = <<>>] /\ handler' = [handler EXCEPT ![p] = "select"]
  BY DEF Send, bufferVars, pageVars
<1>2. BufferTypeOK' /\ InOrder'
  BY <1>1, SameBuffer DEF Streams
<1>3. /\ position[p] \in 0 .. seq /\ seq \in Nat /\ Delivered(p) \in Nat /\ lastSeq[p] \in Nat
      /\ StreamOK(p) /\ wire[p] \in Seq(Seq(Records)) /\ batch[p] \in Seq(Records)
  BY Numbers DEF Streams, StreamTypeOK
<1>4. ControlTypeOK' /\ StreamTypeOK'
  <2>1. ControlTypeOK'
    BY <1>1 DEF Streams, ControlTypeOK
  <2>2. StreamTypeOK'
    BY <1>1, <1>3 DEF Streams, StreamTypeOK
  <2>3. QED BY <2>1, <2>2
<1> DEFINE n == Len(wire[p])
<1>5. /\ handler'[p] = "select" /\ batch'[p] = <<>> /\ wire'[p] = Append(wire[p], batch[p])
      /\ p \in subs' /\ lastSeq'[p] = lastSeq[p] /\ position'[p] = position[p]
  BY <1>1, <1>3 DEF Streams, ControlTypeOK, StreamTypeOK, StreamOK
<1>6. /\ n \in Nat /\ Len(wire'[p]) = n + 1 /\ wire'[p][n + 1] = batch[p] /\ wire'[p] # <<>>
      /\ \A j \in 1 .. n : wire'[p][j] = wire[p][j]
      /\ wire[p] = <<>> <=> n = 0
  <2>1. wire[p] \in Seq(Seq(Records)) /\ batch[p] \in Seq(Records) /\ wire'[p] = Append(wire[p], batch[p])
    BY <1>3, <1>5
  <2>2. QED BY <2>1, Appended
<1>7. Run(batch[p]) /\ LastOf(batch[p]) = position[p] /\ Skips(Delivered(p), batch[p])
  BY <1>1, <1>3 DEF StreamOK, InHand
<1>8. Delivered(p)' = position[p]
  BY <1>5, <1>6, <1>7 DEF Delivered, LastOf
<1>9. OnTheWire(p)'
  <2> DEFINE before(j) == IF j = 1 THEN lastSeq[p] ELSE LastOf(wire[p][j - 1])
  <2>1. ASSUME NEW j \in 1 .. n
        PROVE  /\ Run(wire'[p][j]) /\ LastOf(wire'[p][j]) <= seq'
               /\ Skips(IF j = 1 THEN lastSeq'[p] ELSE LastOf(wire'[p][j - 1]), wire'[p][j])
    <3>1. wire'[p][j] = wire[p][j] /\ (j # 1 => wire'[p][j - 1] = wire[p][j - 1])
      BY <1>6
    <3>2. QED BY <1>1, <1>3, <1>5, <3>1 DEF StreamOK, OnTheWire
  <2>2. /\ Run(wire'[p][n + 1]) /\ LastOf(wire'[p][n + 1]) <= seq'
        /\ Skips(IF n + 1 = 1 THEN lastSeq'[p] ELSE LastOf(wire'[p][n + 1 - 1]), wire'[p][n + 1])
    <3>1. Delivered(p) = IF n + 1 = 1 THEN lastSeq'[p] ELSE LastOf(wire'[p][n + 1 - 1])
      BY <1>5, <1>6 DEF Delivered
    <3>2. LastOf(batch[p]) <= seq'
      BY <1>1, <1>3, <1>7
    <3>3. QED BY <1>6, <1>7, <3>1, <3>2
  <2>3. \A j \in 1 .. n + 1 :
          /\ Run(wire'[p][j]) /\ LastOf(wire'[p][j]) <= seq'
          /\ Skips(IF j = 1 THEN lastSeq'[p] ELSE LastOf(wire'[p][j - 1]), wire'[p][j])
    <3>1. \A j \in 1 .. n + 1 : j \in 1 .. n \/ j = n + 1
      BY <1>6
    <3>2. QED BY <2>1, <2>2, <3>1
  <2>4. \A m, s : Skips(m, s)' <=> Skips(m, s)
    BY <1>1 DEF Skips, First, Gone
  <2>5. QED BY <1>6, <2>3, <2>4 DEF OnTheWire, Run, LastOf, Skips, First, Gone
<1>10. InHand(p)' /\ Called(p)'
  <2>1. InHand(p)'
    BY <1>3, <1>5, <1>8 DEF InHand
  <2>2. Called(p)'
    BY <1>1, <1>3, <1>5 DEF StreamOK, Called
  <2>3. QED BY <2>1, <2>2
<1>11. StreamOK(p)'
  <2>1. Len(wire'[p]) <= WireCap
    BY <1>1, <1>6, LogsAssumption
  <2>2. QED BY <1>5, <1>9, <1>10, <2>1 DEF StreamOK
<1>12. ASSUME NEW q \in Pages, q # p PROVE StreamOK(q)'
  <2>1. UNCHANGED <<handler[q], position[q], batch[q], wire[q], lastSeq[q], wake[q]>>
    BY <1>1, <1>12 DEF Streams, ControlTypeOK, StreamTypeOK
  <2>2. QED BY <1>1, <2>1, Other
<1>13. QED
  BY <1>2, <1>4, <1>11, <1>12 DEF Streams

\* The page takes what is new of the next batch, and has then seen at least its end.
LEMMA ShownNext ==
  ASSUME Streams, NEW p \in Pages, ShowLogs(p)
  PROVE  LET fresh == Unseen(p, Head(wire[p])) IN
         /\ wire[p] # <<>> /\ Run(wire[p][1]) /\ Skips(lastSeq[p], wire[p][1])
         /\ LastOf(wire[p][1]) <= seq /\ LastOf(wire[p][1]) \in Nat
         /\ fresh \in Seq(Records)
         /\ shown'[p] = shown[p] \o fresh
         /\ LastOf(wire[p][1]) <= lastSeq[p] => fresh = <<>> /\ lastSeq'[p] = lastSeq[p]
         /\ LastOf(wire[p][1]) > lastSeq[p] =>
              /\ Run(fresh) /\ fresh # <<>> /\ First(fresh) > lastSeq[p]
              /\ First(fresh) = lastSeq[p] + 1 \/ First(fresh) = First(wire[p][1])
              /\ LastOf(fresh) = LastOf(wire[p][1]) /\ lastSeq'[p] = LastOf(fresh)
<1> DEFINE fresh == Unseen(p, Head(wire[p]))
<1>1. /\ wire[p] # <<>> /\ shown' = [shown EXCEPT ![p] = @ \o fresh]
      /\ lastSeq' = [lastSeq EXCEPT ![p] = IF fresh = <<>> THEN @ ELSE Last(fresh).seq]
  BY DEF ShowLogs
<1>2. wire[p] \in Seq(Seq(Records)) /\ shown[p] \in Seq(Records) /\ StreamOK(p)
  BY DEF Streams, StreamTypeOK
<1>3. 1 \in 1 .. Len(wire[p]) /\ Head(wire[p]) = wire[p][1]
  BY <1>1, <1>2
<1>4. Run(wire[p][1]) /\ Skips(lastSeq[p], wire[p][1]) /\ LastOf(wire[p][1]) <= seq
  BY <1>2, <1>3 DEF StreamOK, OnTheWire
<1>5. lastSeq[p] \in Nat /\ LastOf(wire[p][1]) \in Nat
  BY <1>4, Numbers, RunFields
<1>6. fresh = Newer(wire[p][1], lastSeq[p])
  BY <1>3 DEF Unseen
<1> HIDE DEF fresh
<1>7. shown'[p] = shown[p] \o fresh /\ lastSeq'[p] = IF fresh = <<>> THEN lastSeq[p] ELSE Last(fresh).seq
  BY <1>1 DEF Streams, StreamTypeOK
<1>8. LastOf(wire[p][1]) <= lastSeq[p] => fresh = <<>>
  BY <1>4, <1>5, <1>6, UnseenIs
<1>9. LastOf(wire[p][1]) > lastSeq[p] =>
        /\ Run(fresh) /\ First(fresh) > lastSeq[p] /\ LastOf(fresh) = LastOf(wire[p][1])
        /\ First(fresh) = lastSeq[p] + 1 \/ First(fresh) = First(wire[p][1])
  BY <1>4, <1>5, <1>6, UnseenIs
<1>10. Run(fresh) => fresh # <<>> /\ Last(fresh).seq = LastOf(fresh) /\ fresh \in Seq(Records)
  BY RunFields DEF Run
<1>11. fresh \in Seq(Records)
  <2>1. <<>> \in Seq(Records)
    OBVIOUS
  <2>2. LastOf(wire[p][1]) <= lastSeq[p] \/ LastOf(wire[p][1]) > lastSeq[p]
    BY <1>5
  <2>3. QED BY <1>8, <1>9, <1>10, <2>1, <2>2
<1>12. QED
  BY <1>1, <1>4, <1>5, <1>7, <1>8, <1>9, <1>10, <1>11 DEF fresh

LEMMA ShowStep ==
  ASSUME Streams, NEW p \in Pages, ShowLogs(p)
  PROVE  Streams'
<1> DEFINE fresh == Unseen(p, Head(wire[p]))
           n == Len(wire[p])
<1>1. /\ UNCHANGED <<bufferVars, seq, subs, notifying, wake, handler, position, batch, ids, starts>>
      /\ wire' = [wire EXCEPT ![p] = Tail(@)]
      /\ shown' = [shown EXCEPT ![p] = @ \o fresh]
      /\ lastSeq' = [lastSeq EXCEPT ![p] = IF fresh = <<>> THEN @ ELSE Last(fresh).seq]
  BY DEF ShowLogs, bufferVars
<1>2. BufferTypeOK' /\ InOrder'
  BY <1>1, SameBuffer DEF Streams
<1>3. /\ position[p] \in 0 .. seq /\ seq \in Nat /\ Delivered(p) \in Nat /\ lastSeq[p] \in Nat
      /\ StreamOK(p) /\ wire[p] \in Seq(Seq(Records)) /\ shown[p] \in Seq(Records)
  BY Numbers DEF Streams, StreamTypeOK
<1>4. /\ wire[p] # <<>> /\ LastOf(wire[p][1]) \in Nat /\ fresh \in Seq(Records)
      /\ shown'[p] = shown[p] \o fresh
      /\ LastOf(wire[p][1]) <= lastSeq[p] => fresh = <<>> /\ lastSeq'[p] = lastSeq[p]
      /\ LastOf(wire[p][1]) > lastSeq[p] =>
           Run(fresh) /\ fresh # <<>> /\ lastSeq'[p] = LastOf(wire[p][1])
  BY ShownNext
<1> HIDE DEF fresh
<1>5. lastSeq'[p] \in Nat /\ lastSeq'[p] >= lastSeq[p] /\ lastSeq'[p] >= LastOf(wire[p][1])
  BY <1>3, <1>4
<1>6. ControlTypeOK' /\ StreamTypeOK'
  <2>1. ControlTypeOK'
    BY <1>1 DEF Streams, ControlTypeOK
  <2>2. wire' \in [Pages -> Seq(Seq(Records))] /\ shown' \in [Pages -> Seq(Records)]
    BY <1>1, <1>3, <1>4, SMTT(30) DEF Streams, StreamTypeOK
  <2>3. Last(shown'[p]) = IF fresh = <<>> THEN Last(shown[p]) ELSE Last(fresh)
    <3>1. shown[p] \in Seq(Records) /\ fresh \in Seq(Records) /\ shown'[p] = shown[p] \o fresh
      BY <1>3, <1>4
    <3>2. QED BY <3>1, LastJoined
  <2>4. shown'[p] = <<>> <=> shown[p] = <<>> /\ fresh = <<>>
    BY <1>3, <1>4
  <2>5. lastSeq' = [q \in Pages |-> IF shown'[q] = <<>> THEN 0 ELSE Last(shown'[q]).seq]
    <3>1. \A q \in Pages : q # p => shown'[q] = shown[q] /\ lastSeq'[q] = lastSeq[q]
      BY <1>1 DEF Streams, StreamTypeOK
    <3>2. \A q \in Pages : lastSeq[q] = IF shown[q] = <<>> THEN 0 ELSE Last(shown[q]).seq
      BY DEF Streams, StreamTypeOK
    <3>3. lastSeq'[p] = IF fresh = <<>> THEN lastSeq[p] ELSE Last(fresh).seq
      BY <1>1 DEF Streams, StreamTypeOK
    <3>4. \A q \in Pages : lastSeq'[q] = IF shown'[q] = <<>> THEN 0 ELSE Last(shown'[q]).seq
      <4>1. lastSeq'[p] = IF shown'[p] = <<>> THEN 0 ELSE Last(shown'[p]).seq
        BY <2>3, <2>4, <3>2, <3>3
      <4>2. QED BY <3>1, <3>2, <4>1
    <3>5. lastSeq' = [q \in Pages |-> lastSeq'[q]]
      BY <1>1 DEF Streams, StreamTypeOK
    <3>6. QED BY <3>4, <3>5
  <2>6. QED BY <1>1, <2>1, <2>2, <2>5 DEF Streams, StreamTypeOK
<1>7. /\ n \in Nat \ {0} /\ wire'[p] = Tail(wire[p]) /\ Len(wire'[p]) = n - 1
      /\ \A j \in 1 .. n - 1 : wire'[p][j] = wire[p][j + 1]
      /\ wire'[p] = <<>> <=> n = 1
  <2>1. wire'[p] = Tail(wire[p])
    BY <1>1 DEF Streams, StreamTypeOK
  <2>2. wire[p] \in Seq(Seq(Records)) /\ wire[p] # <<>>
    BY <1>3, <1>4
  <2>3. QED BY <2>1, <2>2, Tailed
<1>8. \A j \in 1 .. n :
        /\ Run(wire[p][j]) /\ LastOf(wire[p][j]) <= seq
        /\ Skips(IF j = 1 THEN lastSeq[p] ELSE LastOf(wire[p][j - 1]), wire[p][j])
  BY <1>3 DEF StreamOK, OnTheWire
<1>9. OnTheWire(p)'
  <2>1. ASSUME NEW j \in 1 .. n - 1
        PROVE  /\ Run(wire'[p][j]) /\ LastOf(wire'[p][j]) <= seq
               /\ Skips(IF j = 1 THEN lastSeq'[p] ELSE LastOf(wire'[p][j - 1]), wire'[p][j])
    <3>1. wire'[p][j] = wire[p][j + 1] /\ j + 1 \in 1 .. n /\ j + 1 # 1 /\ j + 1 - 1 = j
      BY <1>7
    <3>2. Run(wire[p][j + 1]) /\ LastOf(wire[p][j + 1]) <= seq /\ Skips(LastOf(wire[p][j]), wire[p][j + 1])
      BY <1>8, <3>1
    <3>3. CASE j = 1
      <4>1. First(wire[p][j + 1]) \in Int
        BY <3>2, RunFields
      <4>2. Skips(lastSeq'[p], wire[p][j + 1])
        BY <1>4, <1>5, <3>2, <3>3, <4>1, SkipsLess
      <4>3. QED BY <3>1, <3>2, <3>3, <4>2
    <3>4. CASE j # 1
      <4>1. wire'[p][j - 1] = wire[p][j]
        BY <1>7, <3>4
      <4>2. QED BY <3>1, <3>2, <3>4, <4>1
    <3>5. QED BY <3>3, <3>4
  <2>2. Len(wire'[p]) = n - 1 /\ seq' = seq
    BY <1>1, <1>7 DEF bufferVars
  <2>3. \A j \in 1 .. Len(wire'[p]) : Run(wire'[p][j]) /\ LastOf(wire'[p][j]) <= seq'
    BY <2>1, <2>2
  <2>4. \A j \in 1 .. Len(wire'[p]) :
           Skips(IF j = 1 THEN lastSeq'[p] ELSE LastOf(wire'[p][j - 1]), wire'[p][j])
    BY <2>1, <2>2
  <2>5. (\A j \in 1 .. Len(wire[p]) : Run(wire[p][j]) /\ LastOf(wire[p][j]) <= seq)'
    BY <2>3 DEF Run, LastOf
  <2>6. (\A j \in 1 .. Len(wire[p]) :
           Skips(IF j = 1 THEN lastSeq[p] ELSE LastOf(wire[p][j - 1]), wire[p][j]))'
    BY <2>2, <2>4 DEF LastOf, Skips, First, Gone
  <2>7. QED BY <2>5, <2>6 DEF OnTheWire
<1>10. Delivered(p)' \in Nat /\ Delivered(p)' >= Delivered(p)
  <2>1. CASE n = 1
    BY <1>4, <1>5, <1>7, <2>1 DEF Delivered
  <2>2. CASE n # 1
    <3>1. wire'[p][n - 1] = wire[p][n] /\ wire'[p] # <<>>
      BY <1>7, <2>2
    <3>2. Delivered(p)' = Delivered(p)
      BY <1>4, <1>7, <3>1 DEF Delivered, LastOf
    <3>3. QED BY <1>3, <3>2
  <2>3. QED BY <2>1, <2>2
<1>11. InHand(p)'
  <2>1. CASE handler[p] = "sending"
    <3>1. Run(batch[p]) /\ LastOf(batch[p]) = position[p] /\ Skips(Delivered(p), batch[p])
      BY <1>3, <2>1 DEF StreamOK, InHand
    <3>2. First(batch[p]) \in Int
      BY <3>1, RunFields
    <3>3. ASSUME NEW d \in Nat, d >= Delivered(p) PROVE Skips(d, batch[p])
      BY <1>3, <3>1, <3>2, <3>3, SkipsLess
    <3>4. Skips(Delivered(p), batch[p])'
      BY <1>1, <1>10, <3>3 DEF Skips, First, Gone
    <3>5. QED BY <1>1, <2>1, <3>1, <3>4 DEF InHand, Run, LastOf
  <2>2. CASE handler[p] # "sending"
    <3>1. Delivered(p) >= position[p]
      BY <1>3, <2>2 DEF StreamOK, InHand
    <3>2. Delivered(p)' >= position[p]
      BY <1>3, <1>10, <3>1
    <3>3. QED BY <1>1, <2>2, <3>2 DEF InHand
  <2>3. QED BY <2>1, <2>2
<1>12. StreamOK(p)'
  <2>1. Len(wire'[p]) <= WireCap
    BY <1>3, <1>7, LogsAssumption DEF StreamOK
  <2>2. Called(p)'
    BY <1>1, <1>3 DEF StreamOK, Called
  <2>3. handler'[p] # "none"
    BY <1>1, <1>3, <1>4 DEF StreamOK
  <2>4. QED BY <1>1, <1>3, <1>9, <1>11, <2>1, <2>2, <2>3 DEF StreamOK
<1>13. ASSUME NEW q \in Pages, q # p PROVE StreamOK(q)'
  <2>1. UNCHANGED <<handler[q], position[q], batch[q], wire[q], lastSeq[q], wake[q]>>
    BY <1>1, <1>13 DEF Streams, ControlTypeOK, StreamTypeOK
  <2>2. QED BY <1>1, <2>1, Other
<1>14. QED
  BY <1>2, <1>6, <1>12, <1>13 DEF Streams

\* Connections that are lost take everything of their streams with them.
LEMMA Disconnected ==
  ASSUME Streams, NEW gone \in SUBSET Pages, Disconnect(gone)
  PROVE  /\ subs' \subseteq Pages /\ notifying' \in [Loggers -> SUBSET subs']
         /\ wake' \in [Pages -> BOOLEAN]
         /\ handler' \in [Pages -> {"none", "subscribed", "select", "sending"}]
         /\ position' = [p \in Pages |-> IF p \in gone THEN 0 ELSE position[p]]
         /\ batch' \in [Pages -> Seq(Records)] /\ wire' \in [Pages -> Seq(Seq(Records))]
         /\ \A p \in gone : /\ p \notin subs' /\ handler'[p] = "none" /\ batch'[p] = <<>>
                            /\ wire'[p] = <<>> /\ position'[p] = 0
         /\ \A p \in Pages \ gone :
              /\ UNCHANGED <<handler[p], position[p], batch[p], wire[p], wake[p]>>
              /\ p \in subs' <=> p \in subs
              /\ \A g \in Loggers : p \in notifying[g] => p \in notifying'[g]
<1>1. <<>> \in Seq(Records) /\ <<>> \in Seq(Seq(Records))
  OBVIOUS
<1>2. /\ batch \in [Pages -> Seq(Records)] /\ wire \in [Pages -> Seq(Seq(Records))]
      /\ ControlTypeOK
  BY DEF Streams, StreamTypeOK
<1>3. notifying' \in [Loggers -> SUBSET subs'] /\ subs' = subs \ gone
  BY <1>2 DEF ControlTypeOK, Disconnect
<1>4. batch' \in [Pages -> Seq(Records)] /\ wire' \in [Pages -> Seq(Seq(Records))]
  BY <1>1, <1>2 DEF Disconnect
<1>5. /\ wake' \in [Pages -> BOOLEAN]
      /\ handler' \in [Pages -> {"none", "subscribed", "select", "sending"}]
  BY <1>2 DEF ControlTypeOK, Disconnect
<1>6. QED
  BY <1>2, <1>3, <1>4, <1>5 DEF ControlTypeOK, Disconnect

LEMMA CutOff ==
  ASSUME NEW p, p \notin subs', handler'[p] = "none", batch'[p] = <<>>, wire'[p] = <<>>,
         position'[p] = 0, lastSeq'[p] \in Nat
  PROVE  StreamOK(p)'
<1>1. Delivered(p)' \in Nat
  BY DEF Delivered
<1>2. OnTheWire(p)' /\ InHand(p)' /\ Called(p)'
  BY <1>1 DEF OnTheWire, InHand, Called
<1>3. Len(wire'[p]) <= WireCap
  BY LogsAssumption
<1>4. QED
  BY <1>2, <1>3 DEF StreamOK

LEMMA DropStep ==
  ASSUME Streams, NEW p \in Pages, Drop(p) \/ Reload(p)
  PROVE  Streams'
<1>1. Disconnect({p}) /\ UNCHANGED <<bufferVars, seq, ids, starts>> /\ {p} \in SUBSET Pages
  BY DEF Drop, Reload, bufferVars
<1>2. BufferTypeOK' /\ InOrder' /\ seq \in Nat
  BY <1>1, SameBuffer DEF Streams, BufferTypeOK
<1>3. ControlTypeOK'
  BY <1>1, Disconnected DEF Streams, ControlTypeOK
<1>4. \/ UNCHANGED <<lastSeq, shown>>
      \/ lastSeq' = [lastSeq EXCEPT ![p] = 0] /\ shown' = [shown EXCEPT ![p] = <<>>]
  BY DEF Drop, Reload, pageVars
<1>5. StreamTypeOK'
  <2>1. position' \in [Pages -> 0 .. seq']
    BY <1>1, <1>2, Disconnected, SMTT(30) DEF Streams, StreamTypeOK
  <2>2. /\ shown' \in [Pages -> Seq(Records)]
        /\ lastSeq' = [q \in Pages |-> IF shown'[q] = <<>> THEN 0 ELSE Last(shown'[q]).seq]
    <3>1. CASE UNCHANGED <<lastSeq, shown>>
      BY <3>1 DEF Streams, StreamTypeOK
    <3>2. CASE lastSeq' = [lastSeq EXCEPT ![p] = 0] /\ shown' = [shown EXCEPT ![p] = <<>>]
      <4>1. <<>> \in Seq(Records)
        OBVIOUS
      <4>2. shown \in [Pages -> Seq(Records)]
            /\ lastSeq = [q \in Pages |-> IF shown[q] = <<>> THEN 0 ELSE Last(shown[q]).seq]
        BY DEF Streams, StreamTypeOK
      <4>3. QED BY <3>2, <4>1, <4>2
    <3>3. QED BY <1>4, <3>1, <3>2
  <2>3. QED BY <1>1, <2>1, <2>2, Disconnected DEF StreamTypeOK
<1>6. lastSeq'[p] \in Nat /\ \A q \in Pages : q # p => lastSeq'[q] = lastSeq[q]
  BY <1>4, Numbers DEF Streams, StreamTypeOK
<1>7. StreamOK(p)'
  BY <1>1, <1>6, Disconnected, CutOff
<1>8. ASSUME NEW q \in Pages, q # p PROVE StreamOK(q)'
  <2>1. q \in Pages \ {p}
    BY <1>8
  <2>2. /\ UNCHANGED <<handler[q], position[q], batch[q], wire[q], wake[q]>>
        /\ q \in subs' <=> q \in subs
        /\ \A g \in Loggers : q \in notifying[g] => q \in notifying'[g]
    BY <1>1, <2>1, Disconnected
  <2>3. QED BY <1>1, <1>6, <1>8, <2>2, Other
<1>9. QED
  BY <1>2, <1>3, <1>5, <1>7, <1>8 DEF Streams

LEMMA RestartStep ==
  ASSUME Streams, Restart
  PROVE  Streams'
<1>1. /\ Disconnect(Pages) /\ Pages \in SUBSET Pages
      /\ ring' = [s \in Slots |-> Empty] /\ next' = 0 /\ seq' = 0
      /\ UNCHANGED <<lastSeq, shown, ids>> /\ starts < MaxStarts /\ starts' = starts + 1
  BY DEF Restart, pageVars
<1>2. Empty \in Records /\ Empty.seq = 0
  BY RecordFields, LogsAssumption DEF Empty
<1>3. BufferTypeOK'
  BY <1>1, <1>2, LogsAssumption DEF Streams, BufferTypeOK, Slots
<1>4. InOrder'
  <2>1. \A i \in 1 .. RingSize : (0 + i - 1) % RingSize \in Slots
    <3>1. 0 \in Slots
      BY LogsAssumption DEF Slots
    <3>2. QED BY <3>1, Around
  <2>2. \A i \in 1 .. RingSize : Walk'[i] = Empty
    BY <1>1, <2>1 DEF Walk
  <2>3. QED BY <1>1, <1>2, <2>2, LogsAssumption DEF InOrder
<1>5. ControlTypeOK'
  BY <1>1, Disconnected, LogsAssumption DEF Streams, ControlTypeOK
<1>6. StreamTypeOK'
  <2>1. position' \in [Pages -> 0 .. seq']
    BY <1>1, Disconnected
  <2>2. QED BY <1>1, <2>1, Disconnected DEF Streams, StreamTypeOK
<1>7. ASSUME NEW p \in Pages PROVE StreamOK(p)'
  <2>1. lastSeq'[p] \in Nat
    BY <1>1, Numbers
  <2>2. QED BY <1>1, <2>1, Disconnected, CutOff
<1>8. QED
  BY <1>3, <1>4, <1>5, <1>6, <1>7 DEF Streams

LEMMA StreamsNext == Streams /\ [Next]_vars => Streams'
<1> SUFFICES ASSUME Streams, [Next]_vars PROVE Streams'
  OBVIOUS
<1>1. CASE UNCHANGED vars
  <2>1. UNCHANGED <<bufferVars, seq, subs, notifying, wake, handler, position, batch, wire, lastSeq,
                    shown, ids, starts>>
    BY <1>1 DEF vars, bufferVars, streamVars, pageVars
  <2>2. BufferTypeOK' /\ InOrder' /\ ControlTypeOK' /\ StreamTypeOK'
    BY <2>1, SameBuffer DEF Streams, ControlTypeOK, StreamTypeOK
  <2>3. \A q \in Pages : StreamOK(q)'
    BY <2>1, Other
  <2>4. QED BY <2>2, <2>3 DEF Streams
<1>2. ASSUME NEW g \in Loggers, Append_(g) \/ Notify(g) PROVE Streams'
  BY <1>2, AppendStep, NotifyStep
<1>3. ASSUME NEW p \in Pages, OpenStream(p) PROVE Streams'
  BY <1>3, OpenStep
<1>4. ASSUME NEW p \in Pages, HandlerStep(p) PROVE Streams'
  BY <1>4, FollowStep, SendStep DEF HandlerStep
<1>5. ASSUME NEW p \in Pages, ShowLogs(p) PROVE Streams'
  BY <1>5, ShowStep
<1>6. ASSUME NEW p \in Pages, Drop(p) \/ Reload(p) PROVE Streams'
  BY <1>6, DropStep
<1>7. QED
  BY <1>1, <1>2, <1>3, <1>4, <1>5, <1>6, RestartStep DEF Next

LEMMA StreamsHold == Spec => []Streams
  BY StreamsInit, StreamsNext, PTL DEF Spec

\* The ring, the streams and the pages keep to the ranges the program gives them: no
\* stream's position is ahead of the buffer, and the number a page filters by is that
\* of the last record on its screen.
THEOREM LogsTyped == Spec => []TypeOK
  BY StreamsHold, StreamsTyped, PTL

\* An event stream that waits while its page is behind has a token, or an Append
\* has yet to give it one: whatever the subscribers, the loggers and the order in
\* which they signal, a coalesced wake-up is never a lost one.
THEOREM WakeUpsArrive == Spec => []NoLostWakeUp
  BY StreamsHold, StreamsTyped, PTL

----------------------------------------------------------------------------
(* The promise of LogFeed *)

OnScreen(p) == [i \in 1 .. Len(shown[p]) |-> shown[p][i].seq]

LEMMA Screens ==
  ASSUME Streams, NEW p \in Pages
  PROVE  /\ OnScreen(p) \in Seq(Nat) /\ Len(OnScreen(p)) = Len(shown[p])
         /\ lastSeq[p] = IF OnScreen(p) = <<>> THEN 0 ELSE OnScreen(p)[Len(OnScreen(p))]
<1>1. shown[p] \in Seq(Records) /\ lastSeq[p] = IF shown[p] = <<>> THEN 0 ELSE Last(shown[p]).seq
  BY DEF Streams, StreamTypeOK
<1>2. \A i \in 1 .. Len(shown[p]) : shown[p][i].seq \in Nat
  BY <1>1, RecordFields
<1>3. OnScreen(p) \in Seq(Nat) /\ Len(OnScreen(p)) = Len(shown[p])
  BY <1>1, <1>2 DEF OnScreen
<1>4. OnScreen(p) = <<>> <=> shown[p] = <<>>
  BY <1>1, <1>3
<1>5. shown[p] # <<>> => OnScreen(p)[Len(OnScreen(p))] = Last(shown[p]).seq
  BY <1>1, <1>3 DEF OnScreen, Last
<1>6. QED
  BY <1>1, <1>3, <1>4, <1>5

\* The list of a page that gets a run of records.
LEMMA ScreenGrows ==
  ASSUME NEW a \in Seq(Records), NEW b, Run(b)
  PROVE  [i \in 1 .. Len(a \o b) |-> (a \o b)[i].seq] =
           [i \in 1 .. Len(a) |-> a[i].seq]
             \o [i \in 1 .. LastOf(b) - First(b) + 1 |-> First(b) + i - 1]
<1>1. /\ b \in Seq(Records) /\ Len(b) \in Nat \ {0} /\ First(b) \in Nat
      /\ \A i \in 1 .. Len(b) : b[i].seq = First(b) + i - 1
      /\ LastOf(b) = First(b) + Len(b) - 1
  BY RecordFields DEF Run, First, LastOf
<1>2. LastOf(b) - First(b) + 1 = Len(b)
  BY <1>1
<1> DEFINE x == [i \in 1 .. Len(a) |-> a[i].seq]
           y == [i \in 1 .. Len(b) |-> First(b) + i - 1]
           z == [i \in 1 .. Len(a \o b) |-> (a \o b)[i].seq]
<1>3. x \in Seq(Nat) /\ Len(x) = Len(a) /\ Len(a) \in Nat
  BY RecordFields
<1>4. y \in Seq(Int) /\ Len(y) = Len(b)
  BY <1>1
<1>5. Len(a \o b) = Len(a) + Len(b) /\ a \o b \in Seq(Records)
  BY <1>1
<1>6. z \in Seq(Nat) /\ Len(z) = Len(a) + Len(b)
  BY <1>1, <1>3, <1>5, RecordFields
<1>7. \A i \in 1 .. Len(a) : z[i] = x[i]
  BY <1>1, <1>5
<1>8. \A i \in Len(a) + 1 .. Len(a) + Len(b) : z[i] = y[i - Len(a)]
  BY <1>1, <1>3, <1>5
<1> HIDE DEF x, y, z
<1>9. z = x \o y
  <2>1. x \in Seq(Int) /\ z \in Seq(Int)
    BY <1>3, <1>6
  <2>2. x \o y \in Seq(Int) /\ Len(x \o y) = Len(x) + Len(y)
    BY <1>4, <2>1, Joined
  <2>3. ASSUME NEW i \in 1 .. Len(z) PROVE z[i] = (x \o y)[i]
    <3>1. Len(x) \in Nat /\ Len(y) \in Nat /\ Len(z) = Len(x) + Len(y) /\ i \in Nat
      BY <1>1, <1>3, <1>4, <1>6
    <3>2. CASE i \in 1 .. Len(x)
      <4>1. (x \o y)[i] = x[i]
        BY <1>4, <2>1, <3>2
      <4>2. QED BY <1>3, <1>7, <3>2, <4>1
    <3>3. CASE i \in Len(x) + 1 .. Len(x) + Len(y)
      <4>1. (x \o y)[i] = y[i - Len(x)]
        BY <1>4, <2>1, <3>1, <3>3
      <4>2. QED BY <1>3, <1>4, <1>8, <3>3, <4>1
    <3>4. QED BY <3>1, <3>2, <3>3
  <2>4. QED BY <1>3, <1>4, <1>6, <2>1, <2>2, <2>3, SameSeq
<1>10. QED
  BY <1>2, <1>9 DEF x, y, z

LEMMA FeedShows ==
  ASSUME Streams, NEW p \in Pages, ShowLogs(p)
  PROVE  Feed!Show(p) \/ UNCHANGED Feed!vars
<1> DEFINE fresh == Unseen(p, Head(wire[p]))
           screens == [q \in Pages |-> OnScreen(q)]
           last == LastOf(wire[p][1])
<1>1. UNCHANGED seq /\ shown' = [shown EXCEPT ![p] = @ \o fresh]
  BY DEF ShowLogs, bufferVars
<1>2. shown \in [Pages -> Seq(Records)] /\ lastSeq[p] \in Nat /\ seq \in Nat
  BY Numbers DEF Streams, StreamTypeOK
<1>3. /\ Skips(lastSeq[p], wire[p][1]) /\ last <= seq /\ last \in Nat /\ fresh \in Seq(Records)
      /\ shown'[p] = shown[p] \o fresh
      /\ last <= lastSeq[p] => fresh = <<>>
      /\ last > lastSeq[p] =>
           /\ Run(fresh) /\ First(fresh) > lastSeq[p]
           /\ First(fresh) = lastSeq[p] + 1 \/ First(fresh) = First(wire[p][1])
           /\ LastOf(fresh) = last
  BY ShownNext
<1> HIDE DEF fresh
<1>4. \A q \in Pages : q # p => shown'[q] = shown[q]
  BY <1>1, <1>2
<1>5. CASE last <= lastSeq[p]
  <2>1. shown'[p] = shown[p]
    BY <1>2, <1>3, <1>5
  <2>2. \A q \in Pages : OnScreen(q)' = OnScreen(q)
    BY <1>4, <2>1 DEF OnScreen
  <2>3. QED BY <1>1, <2>2 DEF Feed!vars, OnScreen
<1>6. CASE last > lastSeq[p]
  <2>1. /\ Run(fresh) /\ LastOf(fresh) = last /\ First(fresh) \in Nat /\ First(fresh) > lastSeq[p]
        /\ First(fresh) <= last
    <3>1. Run(fresh) /\ LastOf(fresh) = last /\ First(fresh) > lastSeq[p]
      BY <1>3, <1>6
    <3>2. First(fresh) \in Nat /\ First(fresh) <= LastOf(fresh)
      BY <3>1, RecordFields DEF Run, First, LastOf
    <3>3. QED BY <3>1, <3>2
  <2>2. lastSeq[p] = IF screens[p] = <<>> THEN 0 ELSE screens[p][Len(screens[p])]
    BY Screens
  <2>3. \A n \in lastSeq[p] + 1 .. First(fresh) - 1 : n <= seq - RingSize
    <3>1. CASE First(fresh) = lastSeq[p] + 1
      BY <1>2, <3>1
    <3>2. CASE First(fresh) = First(wire[p][1])
      BY <1>3, <3>2 DEF Skips, Gone
    <3>3. QED BY <1>3, <1>6, <3>1, <3>2
  <2>4. screens' = [screens EXCEPT ![p] = @ \o [i \in 1 .. last - First(fresh) + 1 |-> First(fresh) + i - 1]]
    <3>1. OnScreen(p)' = OnScreen(p) \o [i \in 1 .. last - First(fresh) + 1 |-> First(fresh) + i - 1]
      <4>1. shown[p] \in Seq(Records)
        BY <1>2
      <4>2. [i \in 1 .. Len(shown[p] \o fresh) |-> (shown[p] \o fresh)[i].seq] =
              OnScreen(p) \o [i \in 1 .. last - First(fresh) + 1 |-> First(fresh) + i - 1]
        BY <2>1, <4>1, ScreenGrows DEF OnScreen
      <4>3. QED BY <1>3, <4>2 DEF OnScreen
    <3>2. \A q \in Pages : q # p => OnScreen(q)' = OnScreen(q)
      BY <1>4 DEF OnScreen
    <3>3. QED BY <3>1, <3>2
  <2>5. First(fresh) \in lastSeq[p] + 1 .. seq /\ last \in lastSeq[p] + 1 .. seq
    BY <1>2, <1>3, <1>6, <2>1
  <2>6. /\ screens = [q \in Pages |-> [i \in 1 .. Len(shown[q]) |-> shown[q][i].seq]]
        /\ screens' = [q \in Pages |-> [i \in 1 .. Len(shown'[q]) |-> shown'[q][i].seq]]
    BY DEF OnScreen
  <2> DEFINE first == First(fresh)
             end == LastOf(fresh)
  <2>7. /\ first \in lastSeq[p] + 1 .. seq /\ end \in lastSeq[p] + 1 .. seq /\ first <= end
        /\ \A n \in lastSeq[p] + 1 .. first - 1 : n <= seq - RingSize
        /\ screens' = [screens EXCEPT ![p] = @ \o [i \in 1 .. end - first + 1 |-> first + i - 1]]
    BY <2>1, <2>3, <2>4, <2>5
  <2>8. Feed!Newest(p) = lastSeq[p]
    BY <2>2, <2>6 DEF Feed!Newest
  <2> HIDE DEF first, end, last, screens
  <2>9. Feed!Show(p)
    BY <1>1, <2>6, <2>7, <2>8 DEF Feed!Show, Feed!Overwritten
  <2>10. QED BY <2>9
<1>7. QED
  BY <1>2, <1>3, <1>5, <1>6

LEMMA FeedStep ==
  ASSUME Streams, [Next]_vars
  PROVE  [Feed!Next]_(Feed!vars)
<1>1. CASE UNCHANGED vars
  BY <1>1 DEF vars, pageVars, bufferVars, Feed!vars
<1>2. ASSUME NEW g \in Loggers, Append_(g) PROVE Feed!Next
  <2>1. seq' = seq + 1 /\ UNCHANGED shown
    BY <1>2 DEF Append_, pageVars
  <2>2. Feed!Log
    BY <2>1 DEF Feed!Log
  <2>3. QED BY <2>2 DEF Feed!Next
<1>3. ASSUME NEW g \in Loggers, Notify(g) PROVE UNCHANGED Feed!vars
  BY <1>3 DEF Notify, pageVars, bufferVars, Feed!vars
<1>4. ASSUME NEW p \in Pages, OpenStream(p) \/ HandlerStep(p) \/ Drop(p) PROVE UNCHANGED Feed!vars
  <2>1. UNCHANGED <<seq, shown>>
    BY <1>4 DEF OpenStream, HandlerStep, ReadBacklog, WakeUp, Send, Drop, pageVars, bufferVars
  <2>2. QED BY <2>1 DEF Feed!vars
<1>5. ASSUME NEW p \in Pages, ShowLogs(p) PROVE [Feed!Next]_(Feed!vars)
  BY <1>5, FeedShows DEF Feed!Next
<1>6. ASSUME NEW p \in Pages, Reload(p) PROVE Feed!Next
  <2>1. UNCHANGED seq /\ shown' = [shown EXCEPT ![p] = <<>>] /\ shown \in [Pages -> Seq(Records)]
    BY <1>6 DEF Reload, bufferVars, Streams, StreamTypeOK
  <2>2. shown'[p] = <<>> /\ Len(shown'[p]) = 0 /\ \A q \in Pages : q # p => shown'[q] = shown[q]
    BY <2>1
  <2>3. [i \in 1 .. Len(shown'[p]) |-> shown'[p][i].seq] = <<>>
    BY <2>2
  <2>4. [q \in Pages |-> [i \in 1 .. Len(shown'[q]) |-> shown'[q][i].seq]] =
          [[q \in Pages |-> [i \in 1 .. Len(shown[q]) |-> shown[q][i].seq]] EXCEPT ![p] = <<>>]
    <3>1. \A q \in Pages : q # p => [i \in 1 .. Len(shown'[q]) |-> shown'[q][i].seq]
                                     = [i \in 1 .. Len(shown[q]) |-> shown[q][i].seq]
      BY <2>2
    <3>2. QED BY <2>3, <3>1
  <2>5. Feed!Reload(p)
    BY <2>1, <2>4 DEF Feed!Reload
  <2>6. QED BY <2>5 DEF Feed!Next
<1>7. CASE Restart
  <2>1. seq' = 0 /\ UNCHANGED shown
    BY <1>7 DEF Restart, pageVars
  <2>2. Feed!Restart
    BY <2>1 DEF Feed!Restart
  <2>3. QED BY <2>2 DEF Feed!Next
<1>8. QED
  BY <1>1, <1>2, <1>3, <1>4, <1>5, <1>6, <1>7 DEF Next

\* The ring, the streams, their reconnections and the page's filter together keep the
\* promise of LogFeed: what a page is shown is in logging order, each record once, and
\* within one start of the bridge a record is missing only when the ring had lost it.
\* Of a page that stays open across a restart it says what the filter does: it goes on
\* after the last number that was shown.
THEOREM StreamsFeed == Spec => ImplementsFeed
<1>1. Init => Feed!Init
  <2> SUFFICES ASSUME Init PROVE Feed!Init
    OBVIOUS
  <2>1. \A p \in Pages : [i \in 1 .. Len(shown[p]) |-> shown[p][i].seq] = <<>>
    BY DEF Init
  <2>2. QED BY <2>1 DEF Init, Feed!Init
<1>2. Streams /\ [Next]_vars => [Feed!Next]_(Feed!vars)
  BY FeedStep
<1>3. QED
  BY <1>1, <1>2, StreamsHold, PTL DEF Spec, ImplementsFeed, Feed!Spec
=============================================================================
