-------------------------- MODULE ConnectionProofs --------------------------
(***************************************************************************)
(* Theorems about a connection, for any messages in both directions, any   *)
(* room in the kernels, and writes and reads cut anywhere.                 *)
(***************************************************************************)
EXTENDS Connection, FiniteSetTheorems, SequenceTheorems,
        WellFoundedInduction, TLAPS

(***************************************************************************)
(* The messages of a script one after the other: off[m] cells come before  *)
(* message m, which has size[m].                                           *)
(***************************************************************************)
Sizes(script) == [m \in 1 .. Len(script) |-> 2 + script[m].bodySize]

Begins(off, size, n) ==
    /\ off \in [1 .. n + 1 -> Nat]
    /\ off[1] = 0
    /\ \A m \in 1 .. n : off[m + 1] = off[m] + size[m]

Offsets(script) ==
    CHOOSE off : Begins(off, Sizes(script), Len(script))

\* q has the cells of the script behind the first from, up to the first to.
Carries(off, size, q, from, to) ==
    /\ Len(q) = to - from
    /\ \A m \in DOMAIN size : \A i \in 1 .. size[m] :
          off[m] + i - from \in 1 .. Len(q) => q[off[m] + i - from] = <<m, i>>

LEMMA CarriesIntro ==
    ASSUME NEW off, NEW size, NEW q, NEW from, NEW to,
           Len(q) = to - from,
           \A m \in DOMAIN size : \A i \in 1 .. size[m] :
              off[m] + i - from \in 1 .. Len(q) =>
                 q[off[m] + i - from] = <<m, i>>
    PROVE  Carries(off, size, q, from, to)
  BY DEF Carries

(***************************************************************************)
(* Between the controller's write and the master's read are the cells of   *)
(* the script that one has written and the other has not read.             *)
(***************************************************************************)
ReadPlace ==
    Offsets(ReportScript)[Len(handled) + 1] + (IF reader = "body" THEN 2 ELSE 0)
WritePlace == Offsets(ReportScript)[writing] + written

ReportInvariant ==
    /\ Up!TypeOK
    /\ handled \in Seq(Seq(Up!Cells \cup {Up!Zero}))
    /\ written \in Nat /\ (written > 0 => writing \in Up!Numbers)
    /\ Len(handled) <= Len(ReportScript)
    /\ reader \in {"header", "body"} =>
          Carries(Offsets(ReportScript), Sizes(ReportScript),
                  reportArrived \o reportSending, ReadPlace, WritePlace)
    /\ reader = "body" =>
          /\ Len(handled) < Len(ReportScript)
          /\ headerBuffer = SubSeq(Up!ToBits(Len(handled) + 1), 1, 2)
          /\ Len(bodyBuffer) = ReportScript[Len(handled) + 1].bodySize

(***************************************************************************)
(* In the other direction only a last block may be incomplete, and nothing *)
(* comes behind it. DhtType and Profile leave writeBuffer_ at once.        *)
(***************************************************************************)
SentPlace == IF sent = 0 THEN 0 ELSE Offsets(StartScript)[sent] + taken[sent]

BufferInvariant ==
    /\ \A m \in {1, 2} : m <= sent => taken[m] = Down!Size(m)
    /\ sent = 0 => sending = <<>> /\ arrived = <<>>
    /\ sent = 1 => Len(sending) + Len(arrived) <= Down!Size(1)

GetInvariant ==
    /\ Len(received) <= 3
    /\ \A k \in 1 .. Len(received) :
          received[k] = Down!ToBits(k) \/ (k = Len(received) /\ Down!GotLast)
    /\ Down!Waiting /\ Down!GotLast =>
          sending = <<>> /\ arrived = <<>> /\ header = <<>>
    /\ Down!Waiting /\ ~Down!GotLast =>
          /\ Len(received) < 3
          /\ controller = StartScript[Len(received) + 1].opcode
          /\ header # <<>> => header = SubSeq(Down!ToBits(Len(received) + 1), 1, 2)
          /\ Carries(Offsets(StartScript), Sizes(StartScript), arrived \o sending,
                     Offsets(StartScript)[Len(received) + 1] + Len(header),
                     SentPlace)

StartInvariant == Down!TypeOK /\ BufferInvariant /\ GetInvariant

-----------------------------------------------------------------------------
(* The cells of a script *)

\* A set of natural numbers has a least one.
LEMMA LeastNumber ==
    ASSUME NEW S \in SUBSET Nat, S # {}
    PROVE  \E n \in S : \A k \in S : n <= k
  <1> DEFINE R == OpToRel(<, Nat)
  <1>1. IsWellFoundedOn(R, Nat)
    BY NatLessThanWellFounded
  <1>2. PICK n \in S : \A k \in S : ~(<<k, n>> \in R)
    <2> HIDE DEF R
    <2>1. QED
      BY <1>1, WFMin, Zenon
  <1>3. \A k \in S : ~(k < n)
    BY <1>2 DEF OpToRel
  <1>4. QED
    BY <1>3

\* The offsets of any finite number of sizes exist.
LEMMA OffsetsExist ==
    ASSUME NEW n \in Nat, NEW size \in [1 .. n -> Nat]
    PROVE  \E off : Begins(off, size, n)
  <1> DEFINE Lacking == {k \in 0 .. n : ~\E off : Begins(off, size, k)}
  <1>1. SUFFICES ASSUME ~\E off : Begins(off, size, n) PROVE FALSE
    OBVIOUS
  <1>6. Lacking # {}
    BY <1>1, n \in 0 .. n
  <1>2. PICK k \in Lacking : \A l \in Lacking : k <= l
    <2>1. Lacking \in SUBSET Nat
      OBVIOUS
    <2>2. QED
      BY <1>6, <2>1, LeastNumber
  <1>3. CASE k = 0
    <2>1. Begins([x \in 1 .. 1 |-> 0], size, 0)
      BY DEF Begins
    <2>2. QED
      BY <1>2, <1>3, <2>1
  <1>4. CASE k # 0
    <2>1. k \in 1 .. n /\ k - 1 \in 0 .. n /\ ~(k <= k - 1)
      BY <1>2, <1>4
    <2>2. PICK off : Begins(off, size, k - 1)
      BY <1>2, <2>1
    <2> DEFINE next == [x \in 1 .. k + 1 |->
                           IF x = k + 1 THEN off[k] + size[k] ELSE off[x]]
    <2>3. Begins(next, size, k)
      <3>1. /\ off \in [1 .. k -> Nat] /\ off[1] = 0
            /\ \A m \in 1 .. k - 1 : off[m + 1] = off[m] + size[m]
        BY <2>1, <2>2 DEF Begins
      <3>2. next \in [1 .. k + 1 -> Nat]
        BY <2>1, <3>1
      <3>3. next[1] = 0
        BY <2>1, <3>1
      <3>4. ASSUME NEW m \in 1 .. k
            PROVE  next[m + 1] = next[m] + size[m]
        <4>1. CASE m = k
          BY <2>1, <3>1, <4>1
        <4>2. CASE m # k
          <5>1. m \in 1 .. k - 1 /\ m + 1 # k + 1 /\ m # k + 1
            BY <2>1, <4>2
          <5>2. m \in 1 .. k + 1 /\ m + 1 \in 1 .. k + 1
            BY <2>1
          <5>3. QED
            BY <3>1, <5>1, <5>2
        <4>3. QED
          BY <4>1, <4>2
      <3>5. QED
        BY <3>2, <3>3, <3>4 DEF Begins
    <2>4. QED
      BY <1>2, <2>3
  <1>5. QED
    BY <1>3, <1>4

\* What Begins says of a message.
LEMMA OffsetsAt ==
    ASSUME NEW n \in Nat, NEW size \in [1 .. n -> Nat],
           NEW off, Begins(off, size, n), NEW m \in 1 .. n
    PROVE  /\ m + 1 \in 1 .. n + 1
           /\ off[m] \in Nat /\ size[m] \in Nat
           /\ off[m + 1] = off[m] + size[m]
  <1>1. m \in 1 .. n + 1 /\ m + 1 \in 1 .. n + 1
    OBVIOUS
  <1>2. off \in [1 .. n + 1 -> Nat]
    BY DEF Begins
  <1>3. off[m + 1] = off[m] + size[m]
    BY DEF Begins
  <1>4. size[m] \in Nat
    OBVIOUS
  <1>5. QED
    BY <1>1, <1>2, <1>3, <1>4

\* A message begins where those before it have ended.
LEMMA OffsetsGrow ==
    ASSUME NEW n \in Nat, NEW size \in [1 .. n -> Nat],
           NEW off, Begins(off, size, n),
           NEW m \in 1 .. n, NEW l \in 1 .. n + 1, m < l
    PROVE  off[m] + size[m] <= off[l]
  <1> DEFINE Bad == {x \in 1 .. n + 1 : m < x /\ ~(off[m] + size[m] <= off[x])}
  <1>1. SUFFICES ASSUME Bad # {} PROVE FALSE
    OBVIOUS
  <1>2. PICK x \in Bad : \A y \in Bad : x <= y
    <2>1. Bad \in SUBSET Nat
      OBVIOUS
    <2>2. QED
      BY <1>1, <2>1, LeastNumber
  <1>3. /\ off \in [1 .. n + 1 -> Nat]
        /\ \A y \in 1 .. n : off[y + 1] = off[y] + size[y]
    BY DEF Begins
  <1>4. CASE x = m + 1
    BY <1>2, <1>3, <1>4
  <1>5. CASE x # m + 1
    <2>1. /\ x \in Nat /\ x - 1 \in 1 .. n /\ m < x - 1
          /\ ~(x <= x - 1) /\ (x - 1) + 1 = x
      BY <1>2, <1>5
    <2>2. off[m] + size[m] <= off[x - 1]
      BY <1>2, <2>1
    <2>3. off[(x - 1) + 1] = off[x - 1] + size[x - 1]
      BY <2>1, OffsetsAt
    <2>4. off[x] = off[x - 1] + size[x - 1]
      BY <2>1, <2>3
    <2>5. /\ off[m] \in Nat /\ size[m] \in Nat
          /\ off[x - 1] \in Nat /\ size[x - 1] \in Nat
      BY <2>1, OffsetsAt
    <2>6. off[m] + size[m] <= off[x]
      BY <2>2, <2>4, <2>5
    <2>7. QED
      BY <1>2, <2>6
  <1>6. QED
    BY <1>4, <1>5

\* The blocks of the messages have at least a header.
LEMMA ScriptOffsets ==
    ASSUME NEW script \in Seq([opcode : STRING, bodySize : Nat])
    PROVE  /\ Len(script) \in Nat
           /\ Begins(Offsets(script), Sizes(script), Len(script))
           /\ Sizes(script) \in [1 .. Len(script) -> Nat]
           /\ \A m \in 1 .. Len(script) :
                 /\ script[m].bodySize \in Nat
                 /\ Sizes(script)[m] = 2 + script[m].bodySize
  <1>1. ASSUME NEW m \in 1 .. Len(script)
        PROVE  script[m].bodySize \in Nat
    <2>1. script[m] \in [opcode : STRING, bodySize : Nat]
      BY ElementOfSeq
    <2>2. QED
      BY <2>1
  <1>2. Sizes(script) \in [1 .. Len(script) -> Nat]
    BY <1>1 DEF Sizes
  <1>3. Len(script) \in Nat
    BY LenProperties
  <1>4. \E off : Begins(off, Sizes(script), Len(script))
    BY <1>2, <1>3, OffsetsExist
  <1>5. Begins(Offsets(script), Sizes(script), Len(script))
    BY <1>4 DEF Offsets
  <1>6. \A m \in 1 .. Len(script) : Sizes(script)[m] = 2 + script[m].bodySize
    BY DEF Sizes
  <1>7. QED
    BY <1>1, <1>2, <1>3, <1>5, <1>6

\* Cell i of the block at ox is behind the lq cells from on, and no further than
\* lp cells that continue the block at om behind its k first.
Behind(ox, sx, i, om, sm, k, from, to, lq, lp) ==
    /\ {ox, om, sx, sm, k, from, to, lq, lp} \subseteq Nat
    /\ i \in 1 .. sx /\ lq = to - from /\ to = om + k /\ k + lp <= sm
    /\ ox + i - from \in 1 .. lq + lp
    /\ ox + i - from \notin 1 .. lq

\* Then it is in that block and in no other.
Continues(ox, sx, i, om, sm, k, from, to, lq, lp) ==
    /\ ~(ox + sx <= om)
    /\ ~(om + sm <= ox)
    /\ ox = om => /\ (ox + i - from) - lq = i - k
                  /\ i - k \in 1 .. lp
                  /\ ox + i - from \in lq + 1 .. lq + lp
                  /\ k + (i - k) = i

LEMMA InBlock ==
    ASSUME NEW ox, NEW om, NEW sx, NEW sm, NEW i, NEW k, NEW from, NEW to,
           NEW lq, NEW lp,
           Behind(ox, sx, i, om, sm, k, from, to, lq, lp)
    PROVE  Continues(ox, sx, i, om, sm, k, from, to, lq, lp)
  BY DEF Behind, Continues

\* A block, or a part of it, is written behind what is under way.
LEMMA Written ==
    ASSUME NEW n \in Nat, NEW size \in [1 .. n -> Nat],
           NEW off, Begins(off, size, n),
           NEW S, NEW q \in Seq(S), NEW p \in Seq(S),
           NEW from \in Nat, NEW to \in Nat, Carries(off, size, q, from, to),
           NEW m \in 1 .. n, NEW k \in Nat,
           to = off[m] + k, k + Len(p) <= size[m],
           \A i \in 1 .. Len(p) : p[i] = <<m, k + i>>
    PROVE  Carries(off, size, q \o p, from, to + Len(p))
  <1>1. Len(p) \in Nat /\ Len(q) \in Nat
    BY LenProperties
  <1>2. Len(q) = to - from
    BY DEF Carries
  <1>3. Len(q \o p) = Len(q) + Len(p)
    BY ConcatProperties
  <1>4. \A i \in 1 .. Len(q) : (q \o p)[i] = q[i]
    OBVIOUS
  <1>5. \A i \in Len(q) + 1 .. Len(q) + Len(p) : (q \o p)[i] = p[i - Len(q)]
    OBVIOUS
  <1>6. ASSUME NEW x \in 1 .. n, NEW i \in 1 .. size[x],
               off[x] + i - from \in 1 .. Len(q \o p)
        PROVE  (q \o p)[off[x] + i - from] = <<x, i>>
    <2>1. /\ off[x] \in Nat /\ off[m] \in Nat
          /\ size[x] \in Nat /\ size[m] \in Nat
      BY OffsetsAt
    <2>2. CASE off[x] + i - from \in 1 .. Len(q)
      <3>1. q[off[x] + i - from] = <<x, i>>
        BY <2>2 DEF Carries
      <3>2. QED
        BY <1>4, <2>2, <3>1
    <2>3. CASE off[x] + i - from \notin 1 .. Len(q)
      <3> DEFINE at == off[x] + i - from
      <3>1. i \in 1 .. size[x] /\ at \in 1 .. Len(q) + Len(p)
        BY <1>3, <1>6
      <3>2. /\ ~(off[x] + size[x] <= off[m])
            /\ ~(off[m] + size[m] <= off[x])
            /\ off[x] = off[m] =>
                  /\ at - Len(q) = i - k
                  /\ i - k \in 1 .. Len(p)
                  /\ at \in Len(q) + 1 .. Len(q) + Len(p)
                  /\ k + (i - k) = i
        <4>1. Behind(off[x], size[x], i, off[m], size[m], k, from, to,
                     Len(q), Len(p))
          BY <1>1, <1>2, <2>1, <2>3, <3>1 DEF Behind
        <4>2. Continues(off[x], size[x], i, off[m], size[m], k, from, to,
                        Len(q), Len(p))
          BY <4>1, InBlock, Zenon
        <4>3. QED
          BY <4>2 DEF Continues
      <3>3. ~(x < m)
        <4>1. SUFFICES ASSUME x < m PROVE FALSE
          OBVIOUS
        <4>2. m \in 1 .. n + 1
          OBVIOUS
        <4>3. off[x] + size[x] <= off[m]
          BY <4>1, <4>2, OffsetsGrow
        <4>4. QED
          BY <3>2, <4>3
      <3>4. ~(m < x)
        <4>1. SUFFICES ASSUME m < x PROVE FALSE
          OBVIOUS
        <4>2. x \in 1 .. n + 1
          OBVIOUS
        <4>3. off[m] + size[m] <= off[x]
          BY <4>1, <4>2, OffsetsGrow
        <4>4. QED
          BY <3>2, <4>3
      <3>5. x = m
        BY <3>3, <3>4
      <3>6. /\ at - Len(q) = i - k /\ i - k \in 1 .. Len(p)
            /\ at \in Len(q) + 1 .. Len(q) + Len(p) /\ k + (i - k) = i
        BY <3>2, <3>5
      <3>7. (q \o p)[at] = p[i - k]
        <4> HIDE DEF at
        <4>1. QED
          BY <1>5, <3>6
      <3>8. p[i - k] = <<m, k + (i - k)>>
        BY <3>6
      <3>9. QED
        BY <3>5, <3>6, <3>7, <3>8
    <2>4. QED
      BY <2>2, <2>3
  <1>7. Len(q \o p) = to + Len(p) - from
    BY <1>1, <1>2, <1>3
  <1>8. DOMAIN size = 1 .. n
    OBVIOUS
  <1>9. \A x \in DOMAIN size : \A i \in 1 .. size[x] :
           off[x] + i - from \in 1 .. Len(q \o p) =>
              (q \o p)[off[x] + i - from] = <<x, i>>
    <2>1. SUFFICES \A x \in 1 .. n : \A i \in 1 .. size[x] :
                      off[x] + i - from \in 1 .. Len(q \o p) =>
                         (q \o p)[off[x] + i - from] = <<x, i>>
      BY <1>8
    <2>2. QED
      BY <1>6, Zenon
  <1>10. PICK r, end : r = q \o p /\ end = to + Len(p)
    OBVIOUS
  <1>11. Len(r) = end - from
    BY <1>7, <1>10
  <1>12. \A x \in DOMAIN size : \A i \in 1 .. size[x] :
            off[x] + i - from \in 1 .. Len(r) => r[off[x] + i - from] = <<x, i>>
    BY <1>9, <1>10, Zenon
  <1>13. Carries(off, size, r, from, end)
    BY <1>11, <1>12, CarriesIntro, Zenon
  <1>14. QED
    BY <1>10, <1>13, Zenon

\* The first c cells of q are of the one block from whose k-th cell q begins.
PartOfBlock(off, size, n, q, from, c) ==
    \A m \in 1 .. n, k \in Nat :
        from = off[m] + k /\ k + c <= size[m] =>
            \A i \in 1 .. c : q[i] = <<m, k + i>>

\* The reader takes the first cells.
LEMMA TakenOff ==
    ASSUME NEW n \in Nat, NEW size \in [1 .. n -> Nat],
           NEW off, Begins(off, size, n),
           NEW S, NEW q \in Seq(S),
           NEW from \in Nat, NEW to \in Nat, Carries(off, size, q, from, to),
           NEW c \in 0 .. Len(q)
    PROVE  /\ Carries(off, size, SubSeq(q, c + 1, Len(q)), from + c, to)
           /\ PartOfBlock(off, size, n, q, from, c)
  <1>1. Len(q) \in Nat /\ c \in Nat /\ c <= Len(q)
    BY LenProperties
  <1>2. Len(q) = to - from
    BY DEF Carries
  <1>3. ASSUME NEW m \in 1 .. n, NEW k \in Nat,
               from = off[m] + k, k + c <= size[m], NEW i \in 1 .. c
        PROVE  q[i] = <<m, k + i>>
    <2>1. off[m] \in Nat /\ size[m] \in Nat
      BY OffsetsAt
    <2>2. k + i \in 1 .. size[m] /\ i \in 1 .. Len(q)
      BY <1>1, <1>3, <2>1
    <2>3. off[m] + (k + i) - from = i
      <3>1. PICK o \in Nat : o = off[m]
        BY <2>1
      <3>2. i \in Nat /\ from = o + k
        BY <1>1, <1>3, <3>1
      <3>3. o + (k + i) - from = i
        BY <3>2
      <3>4. QED
        BY <3>1, <3>3
    <2>4. off[m] + (k + i) - from \in 1 .. Len(q) =>
             q[off[m] + (k + i) - from] = <<m, k + i>>
      BY <2>2 DEF Carries
    <2>5. QED
      BY <2>2, <2>3, <2>4
  <1> DEFINE rest == SubSeq(q, c + 1, Len(q))
  <1>4. Len(rest) = Len(q) - c
    BY <1>1
  <1>5. \A i \in 1 .. Len(q) - c : rest[i] = q[i + c]
    BY <1>1
  <1>6. ASSUME NEW x \in 1 .. n, NEW i \in 1 .. size[x],
               off[x] + i - (from + c) \in 1 .. Len(rest)
        PROVE  rest[off[x] + i - (from + c)] = <<x, i>>
    <2>1. off[x] \in Nat /\ size[x] \in Nat
      BY OffsetsAt
    <2>2. i \in Nat
      BY <2>1
    <2>3. PICK o \in Nat : o = off[x]
      BY <2>1
    <2>4. PICK a \in Nat : a = Len(q) /\ Len(rest) = a - c
      BY <1>1, <1>4
    <2>5. o + i - (from + c) \in 1 .. a - c
      BY <1>6, <2>3, <2>4
    <2>6. off[x] + i - (from + c) + c = off[x] + i - from
      <3>1. o + i - (from + c) + c = o + i - from
        BY <2>2
      <3>2. QED
        BY <2>3, <3>1
    <2>7. off[x] + i - from \in 1 .. Len(q)
      <3>1. o + i - from \in 1 .. a
        BY <2>2, <2>5
      <3>2. QED
        BY <2>3, <2>4, <3>1
    <2>8. q[off[x] + i - from] = <<x, i>>
      BY <2>7 DEF Carries
    <2>9. rest[off[x] + i - (from + c)] = q[off[x] + i - (from + c) + c]
      BY <1>4, <1>5, <1>6
    <2>10. QED
      BY <2>6, <2>8, <2>9
  <1>7. Len(rest) = to - (from + c)
    BY <1>1, <1>2, <1>4
  <1>8. Carries(off, size, rest, from + c, to)
    BY <1>6, <1>7 DEF Carries
  <1>9. PartOfBlock(off, size, n, q, from, c)
    BY <1>3 DEF PartOfBlock
  <1>10. QED
    BY <1>8, <1>9

-----------------------------------------------------------------------------
(* What is under way: arrived behind which comes sending *)

\* What comes of a and s when the first c cells of a are taken.
ReadFrom(S, a, s, c) ==
    /\ SubSeq(a, 1, c) \in Seq(S) /\ Len(SubSeq(a, 1, c)) = c
    /\ SubSeq(a, c + 1, Len(a)) \in Seq(S)
    /\ Len(SubSeq(a, c + 1, Len(a))) = Len(a) - c
    /\ SubSeq(a, c + 1, Len(a)) \o s = SubSeq(a \o s, c + 1, Len(a \o s))
    /\ \A i \in 1 .. c : SubSeq(a, 1, c)[i] = (a \o s)[i]
    /\ a \o s \in Seq(S) /\ c \in 0 .. Len(a \o s)
    /\ Len(a \o s) = Len(a) + Len(s)

\* The first c of the cells that have arrived are read.
LEMMA QueueRead ==
    ASSUME NEW S, NEW a \in Seq(S), NEW s \in Seq(S), NEW c \in 0 .. Len(a)
    PROVE  ReadFrom(S, a, s, c)
  <1>1. Len(a) \in Nat /\ Len(s) \in Nat /\ c \in Nat /\ c <= Len(a)
    BY LenProperties
  <1>2. /\ a \o s \in Seq(S) /\ Len(a \o s) = Len(a) + Len(s)
        /\ \A i \in 1 .. Len(a) + Len(s) :
              (a \o s)[i] = IF i <= Len(a) THEN a[i] ELSE s[i - Len(a)]
    BY ConcatProperties
  <1> DEFINE rest == SubSeq(a, c + 1, Len(a))
             left == SubSeq(a \o s, c + 1, Len(a \o s))
  <1>3. /\ SubSeq(a, 1, c) \in Seq(S) /\ Len(SubSeq(a, 1, c)) = c
        /\ \A i \in 1 .. c : SubSeq(a, 1, c)[i] = a[i]
    BY <1>1
  <1>4. /\ rest \in Seq(S) /\ Len(rest) = Len(a) - c
        /\ \A i \in 1 .. Len(a) - c : rest[i] = a[c + i]
    BY <1>1
  <1>5. /\ left \in Seq(S) /\ Len(left) = Len(a) + Len(s) - c
        /\ \A i \in 1 .. Len(a) + Len(s) - c : left[i] = (a \o s)[c + i]
    BY <1>1, <1>2
  <1>6. /\ rest \o s \in Seq(S) /\ Len(rest \o s) = Len(rest) + Len(s)
        /\ \A i \in 1 .. Len(rest) + Len(s) :
              (rest \o s)[i] = IF i <= Len(rest) THEN rest[i]
                                                 ELSE s[i - Len(rest)]
    BY <1>4, ConcatProperties
  <1>7. ASSUME NEW i \in 1 .. Len(rest \o s) PROVE (rest \o s)[i] = left[i]
    <2>1. c + i \in 1 .. Len(a) + Len(s) /\ i \in 1 .. Len(rest) + Len(s)
      BY <1>1, <1>4, <1>6
    <2>2. left[i] = (a \o s)[c + i]
      BY <1>1, <1>4, <1>5, <1>6, <2>1
    <2>3. CASE i <= Len(rest)
      BY <1>1, <1>2, <1>4, <1>6, <2>1, <2>2, <2>3
    <2>4. CASE ~(i <= Len(rest))
      <3>1. ~(c + i <= Len(a)) /\ i - Len(rest) = (c + i) - Len(a)
        <4>1. Len(rest) = Len(a) - c /\ i \in Nat
          BY <1>4, <2>1
        <4> HIDE DEF rest
        <4>2. QED
          BY <1>1, <2>4, <4>1
      <3>2. QED
        BY <1>2, <1>6, <2>1, <2>2, <2>4, <3>1
    <2>5. QED
      BY <2>3, <2>4
  <1>8. Len(rest \o s) = Len(left)
    BY <1>1, <1>4, <1>5, <1>6
  <1>9. rest \o s = left
    <2> HIDE DEF rest, left
    <2>1. QED
      BY <1>5, <1>6, <1>7, <1>8, SeqEqual
  <1>10. \A i \in 1 .. c : SubSeq(a, 1, c)[i] = (a \o s)[i]
    BY <1>1, <1>2, <1>3
  <1>11. c \in 0 .. Len(a \o s)
    BY <1>1, <1>2
  <1>12. QED
    BY <1>2, <1>3, <1>4, <1>9, <1>10, <1>11 DEF ReadFrom

\* A cell is carried from the one kernel to the other.
LEMMA QueueCarried ==
    ASSUME NEW S, NEW a \in Seq(S), NEW s \in Seq(S), s # <<>>
    PROVE  /\ Append(a, Head(s)) \in Seq(S) /\ Tail(s) \in Seq(S)
           /\ Len(Append(a, Head(s))) + Len(Tail(s)) = Len(a) + Len(s)
           /\ Append(a, Head(s)) \o Tail(s) = a \o s
  <1>1. /\ Head(s) \in S /\ Tail(s) \in Seq(S) /\ Len(Tail(s)) = Len(s) - 1
        /\ \A i \in 1 .. Len(Tail(s)) : Tail(s)[i] = s[i + 1]
    BY HeadTailProperties
  <1>2. PICK h \in S, t \in Seq(S) : h = Head(s) /\ t = Tail(s)
    BY <1>1
  <1>3. Head(s) = s[1] /\ Len(s) \in Nat \ {0} /\ Len(a) \in Nat
    BY EmptySeq, LenProperties
  <1>4. /\ Append(a, h) \in Seq(S) /\ Len(Append(a, h)) = Len(a) + 1
        /\ Append(a, h) = a \o <<h>> /\ <<h>> \in Seq(S)
    BY AppendProperties, AppendIsConcat
  <1>5. (a \o <<h>>) \o t = a \o (<<h>> \o t)
    BY <1>4, ConcatAssociative
  <1>6. <<h>> \o t = s
    <2>1. /\ <<h>> \o t \in Seq(S) /\ Len(<<h>> \o t) = 1 + Len(t)
          /\ \A i \in 1 .. 1 + Len(t) :
                (<<h>> \o t)[i] = IF i <= 1 THEN h ELSE t[i - 1]
      BY <1>4, ConcatProperties
    <2>2. Len(<<h>> \o t) = Len(s)
      BY <1>1, <1>2, <1>3, <2>1
    <2>3. ASSUME NEW i \in 1 .. Len(<<h>> \o t)
          PROVE  (<<h>> \o t)[i] = s[i]
      <3>1. CASE i = 1
        BY <1>2, <1>3, <2>1, <3>1
      <3>2. CASE i # 1
        <4>1. i - 1 \in 1 .. Len(t) /\ (i - 1) + 1 = i /\ ~(i <= 1)
          BY <1>1, <1>2, <1>3, <2>1, <2>2, <3>2
        <4>2. t[i - 1] = s[i]
          BY <1>1, <1>2, <4>1
        <4>3. QED
          BY <2>1, <4>1, <4>2
      <3>3. QED
        BY <3>1, <3>2
    <2>4. QED
      BY <2>1, <2>2, <2>3, SeqEqual
  <1>7. Len(Append(a, Head(s))) + Len(Tail(s)) = Len(a) + Len(s)
    BY <1>1, <1>2, <1>3, <1>4
  <1>8. QED
    BY <1>1, <1>2, <1>4, <1>5, <1>6, <1>7

\* What is written comes behind what is under way.
Joined(a, s, p) == (a \o s) \o p = a \o (s \o p)

LEMMA QueueJoined ==
    ASSUME NEW S, NEW a \in Seq(S), NEW s \in Seq(S), NEW p \in Seq(S)
    PROVE  Joined(a, s, p)
  BY ConcatAssociative DEF Joined

\* The piece is the n cells of bits behind the first k, and s is written on.
ContinuesBy(S, a, s, bits, k, n, piece) ==
    /\ piece \in Seq(S) /\ Len(piece) = n
    /\ \A i \in 1 .. Len(piece) : piece[i] = bits[k + i]
    /\ s \o piece \in Seq(S) /\ Len(s \o piece) = Len(s) + n
    /\ a \o (s \o piece) = (a \o s) \o piece

\* Up to n of the cells that are left of a block are written.
LEMMA QueueWritten ==
    ASSUME NEW S, NEW a \in Seq(S), NEW s \in Seq(S), NEW bits \in Seq(S),
           NEW k \in 0 .. Len(bits), NEW n \in 0 .. Len(bits) - k
    PROVE  ContinuesBy(S, a, s, bits, k, n,
                       SubSeq(SubSeq(bits, k + 1, Len(bits)), 1, n))
  <1> DEFINE left == SubSeq(bits, k + 1, Len(bits))
             piece == SubSeq(left, 1, n)
  <1>1. Len(bits) \in Nat /\ k \in Nat /\ n \in Nat /\ k + n <= Len(bits)
    BY LenProperties
  <1>2. /\ left \in Seq(S) /\ Len(left) = Len(bits) - k
        /\ \A i \in 1 .. Len(bits) - k : left[i] = bits[k + i]
    BY <1>1
  <1>3. /\ piece \in Seq(S) /\ Len(piece) = n
        /\ \A i \in 1 .. n : piece[i] = left[i]
    BY <1>1, <1>2
  <1>4. \A i \in 1 .. Len(piece) : piece[i] = bits[k + i]
    BY <1>1, <1>2, <1>3
  <1>5. s \o piece \in Seq(S) /\ Len(s \o piece) = Len(s) + n
    BY <1>3, ConcatProperties
  <1>6. a \o (s \o piece) = (a \o s) \o piece
    <2>1. piece \in Seq(S)
      BY <1>3
    <2>2. PICK u \in Seq(S) : u = piece
      BY <2>1
    <2>3. (a \o s) \o u = a \o (s \o u)
      BY ConcatAssociative
    <2> HIDE DEF piece
    <2>4. QED
      BY <2>2, <2>3, Zenon
  <1>7. QED
    BY <1>3, <1>4, <1>5, <1>6 DEF ContinuesBy

-----------------------------------------------------------------------------
(* The reports *)

LEMMA ReportScriptFacts ==
    /\ Len(ReportScript) \in Nat
    /\ Up!Numbers = 1 .. Len(ReportScript)
    /\ Sizes(ReportScript) \in [1 .. Len(ReportScript) -> Nat]
    /\ Begins(Offsets(ReportScript), Sizes(ReportScript), Len(ReportScript))
    /\ ReportBuffer \in Nat
    /\ \A m \in 1 .. Len(ReportScript) :
          /\ ReportScript[m].bodySize \in Nat
          /\ Up!Size(m) = 2 + ReportScript[m].bodySize
          /\ Sizes(ReportScript)[m] = Up!Size(m)
          /\ ReportScript[m].opcode =
                IF m = Len(ReportScript) THEN "Finish" ELSE "Report"
  <1>1. ReportScript \in Seq([opcode : STRING, bodySize : Nat])
    BY ConnectionAssumption
  <1>2. /\ Len(ReportScript) \in Nat
        /\ Begins(Offsets(ReportScript), Sizes(ReportScript), Len(ReportScript))
        /\ Sizes(ReportScript) \in [1 .. Len(ReportScript) -> Nat]
        /\ \A m \in 1 .. Len(ReportScript) :
              /\ ReportScript[m].bodySize \in Nat
              /\ Sizes(ReportScript)[m] = 2 + ReportScript[m].bodySize
    BY <1>1, ScriptOffsets
  <1>3. Up!Numbers = 1 .. Len(ReportScript)
    BY DEF Up!Numbers
  <1>4. \A m \in 1 .. Len(ReportScript) :
           Up!Size(m) = 2 + ReportScript[m].bodySize
    BY DEF Up!Size, Up!HeaderSize
  <1>5. DOMAIN ReportScript = 1 .. Len(ReportScript)
    BY <1>1, LenProperties
  <1>6. \A m \in 1 .. Len(ReportScript) : ReportScript[m].opcode =
           IF m = Len(ReportScript) THEN "Finish" ELSE "Report"
    BY <1>5, ConnectionAssumption, Zenon
  <1>7. ReportBuffer \in Nat
    BY ConnectionAssumption
  <1>8. QED
    BY <1>2, <1>3, <1>4, <1>6, <1>7, Zenon

\* The block of a message.
LEMMA ReportBits ==
    ASSUME NEW m \in 1 .. Len(ReportScript)
    PROVE  /\ Up!ToBits(m) \in Seq(Up!Cells)
           /\ Len(Up!ToBits(m)) = Up!Size(m)
           /\ \A i \in 1 .. Up!Size(m) : Up!ToBits(m)[i] = <<m, i>>
           /\ Up!Size(m) \in Nat /\ 2 <= Up!Size(m)
  <1>1. Up!Size(m) \in Nat /\ 2 <= Up!Size(m) /\ m \in Up!Numbers
    BY ReportScriptFacts
  <1>2. \A i \in 1 .. Up!Size(m) : <<m, i>> \in Up!Cells
    BY <1>1 DEF Up!Cells
  <1>3. Up!ToBits(m) = [i \in 1 .. Up!Size(m) |-> <<m, i>>]
    BY DEF Up!ToBits
  <1>4. QED
    BY <1>1, <1>2, <1>3

\* Messages begun.
UpSent == IF written > 0 THEN writing ELSE writing - 1

\* Where the writer is.
LEMMA WriterAt ==
    ASSUME Up!TypeOK, written \in Nat, written > 0 => writing \in Up!Numbers
    PROVE  /\ writing \in 1 .. Len(ReportScript) + 1
           /\ writing \in 1 .. Len(ReportScript) =>
                 written < Sizes(ReportScript)[writing]
           /\ writing \notin 1 .. Len(ReportScript) => written = 0
           /\ Offsets(ReportScript)[writing] \in Nat
           /\ WritePlace \in Nat
           /\ UpSent \in 0 .. Len(ReportScript)

  <1>1. /\ writing \in 1 .. Len(ReportScript) + 1
        /\ writing \in Up!Numbers => written \in 0 .. Up!Size(writing) - 1
    BY DEF Up!TypeOK
  <1>2. Len(ReportScript) \in Nat /\ Up!Numbers = 1 .. Len(ReportScript)
    BY ReportScriptFacts
  <1>3. ASSUME writing \in 1 .. Len(ReportScript)
        PROVE  written < Sizes(ReportScript)[writing]
    <2>1. /\ Sizes(ReportScript)[writing] = Up!Size(writing)
          /\ Up!Size(writing) \in Nat
      BY <1>3, ReportScriptFacts, ReportBits
    <2>2. QED
      BY <1>1, <1>2, <1>3, <2>1
  <1>4. writing \notin 1 .. Len(ReportScript) => written = 0
    BY <1>2
  <1>5. Offsets(ReportScript)[writing] \in Nat
    BY <1>1, ReportScriptFacts DEF Begins
  <1>6. WritePlace \in Nat
    BY <1>5 DEF WritePlace
  <1>7. UpSent \in 0 .. Len(ReportScript)
    BY <1>1, <1>2 DEF UpSent
  <1>8. QED
    BY <1>1, <1>3, <1>4, <1>5, <1>6, <1>7

\* What is written of message x or behind it: it has been begun.
LEMMA BegunBefore ==
    ASSUME Up!TypeOK, written \in Nat, written > 0 => writing \in Up!Numbers,
           NEW x \in 1 .. Len(ReportScript) + 1,
           Offsets(ReportScript)[x] < WritePlace
    PROVE  x <= UpSent
  <1>1. /\ Begins(Offsets(ReportScript), Sizes(ReportScript), Len(ReportScript))
        /\ Sizes(ReportScript) \in [1 .. Len(ReportScript) -> Nat]
        /\ Len(ReportScript) \in Nat
    BY ReportScriptFacts
  <1>2. /\ writing \in 1 .. Len(ReportScript) + 1
        /\ writing \in 1 .. Len(ReportScript) =>
              written < Sizes(ReportScript)[writing]
        /\ writing \notin 1 .. Len(ReportScript) => written = 0
        /\ Offsets(ReportScript)[writing] \in Nat
        /\ Offsets(ReportScript)[x] < Offsets(ReportScript)[writing] + written
    BY WriterAt, Zenon DEF WritePlace
  <1>3. Offsets(ReportScript)[x] \in Nat
    BY <1>1 DEF Begins
  <1>4. ASSUME writing < x PROVE FALSE
    <2>1. writing \in 1 .. Len(ReportScript)
      BY <1>1, <1>2, <1>4
    <2>2. /\ Offsets(ReportScript)[writing] + Sizes(ReportScript)[writing]
                <= Offsets(ReportScript)[x]
          /\ Sizes(ReportScript)[writing] \in Nat
      BY <1>1, <1>4, <2>1, OffsetsGrow, OffsetsAt
    <2>3. written < Sizes(ReportScript)[writing]
      BY <1>2, <2>1
    <2>4. QED
      BY <1>2, <1>3, <2>2, <2>3
  <1>5. x <= writing
    BY <1>1, <1>2, <1>4
  <1>6. CASE written > 0
    BY <1>5, <1>6 DEF UpSent
  <1>7. CASE ~(written > 0)
    <2>1. written = 0
      BY <1>7
    <2>2. x # writing
      BY <1>2, <1>3, <2>1
    <2>3. QED
      BY <1>1, <1>2, <1>5, <1>7, <2>2 DEF UpSent
  <1>8. QED
    BY <1>6, <1>7

\* A step of the channel of whole reports, or none.
FifoStep == [Up!Fifo!Next]_(Up!Fifo!fifoVars)

LEMMA ReportsWritten ==
    ASSUME ReportInvariant, Up!Write
    PROVE  ReportInvariant' /\ FifoStep
  <1> DEFINE bits == Up!ToBits(writing)
             left == SubSeq(bits, written + 1, Len(bits))
             n == IF reader = "closed" THEN Len(left) ELSE Up!Taken(Len(left))
             piece == SubSeq(left, 1, n)
             off == Offsets(ReportScript)
             size == Sizes(ReportScript)
  <1>1. /\ writing \in 1 .. Len(ReportScript)
        /\ Up!TypeOK /\ written \in Nat
        /\ written > 0 => writing \in Up!Numbers
    BY ReportScriptFacts DEF ReportInvariant, Up!Write
  <1>2. /\ bits \in Seq(Up!Cells) /\ Len(bits) = Up!Size(writing)
        /\ \A i \in 1 .. Len(bits) : bits[i] = <<writing, i>>
        /\ Len(bits) \in Nat
    BY <1>1, ReportBits
  <1>3. written \in 0 .. Len(bits) - 1
    BY <1>1, <1>2, ReportScriptFacts DEF Up!TypeOK
  <1>4. /\ n > 0
        /\ reportSending' = IF reader = "closed" THEN reportSending
                            ELSE reportSending \o piece
        /\ writing' = IF n = Len(left) THEN writing + 1 ELSE writing
        /\ written' = IF n = Len(left) THEN 0 ELSE written + n
        /\ UNCHANGED <<reportArrived, writer, reader, headerBuffer, bodyBuffer,
                       handled>>
    BY <1>2 DEF Up!Write
  <1>5. left \in Seq(Up!Cells) /\ Len(left) = Len(bits) - written
    BY <1>2, <1>3
  <1>6. /\ reportArrived \in Seq(Up!Cells) /\ reportSending \in Seq(Up!Cells)
        /\ Len(reportArrived) \in Nat /\ Len(reportSending) \in Nat
        /\ Len(reportSending) + Len(reportArrived) <= ReportBuffer
        /\ ReportBuffer \in Nat
    BY <1>1, ReportScriptFacts, LenProperties DEF Up!TypeOK
  <1>7. /\ n \in 1 .. Len(bits) - written
        /\ reader # "closed" =>
              n <= ReportBuffer - Len(reportSending) - Len(reportArrived)
    <2>1. PICK l \in Nat : l = Len(left)
      BY <1>5, LenProperties
    <2> DEFINE room == ReportBuffer - Len(reportSending) - Len(reportArrived)
    <2>2. room \in Int
      <3>1. /\ ReportBuffer \in Nat /\ Len(reportSending) \in Nat
            /\ Len(reportArrived) \in Nat
        BY <1>6
      <3> HIDE DEF left, bits
      <3>2. QED
        BY <3>1
    <2>3. Up!Taken(l) = IF l < room THEN l ELSE room
      BY DEF Up!Taken
    <2>4. n = IF reader = "closed" THEN l ELSE IF l < room THEN l ELSE room
      BY <2>1, <2>3
    <2>5. l = Len(bits) - written /\ n > 0
      BY <1>4, <1>5, <2>1
    <2> HIDE DEF n, room
    <2>6. n \in 1 .. l /\ (reader # "closed" => n <= room)
      BY <2>2, <2>4, <2>5
    <2>7. QED
      BY <2>5, <2>6, Zenon DEF room
  <1> HIDE DEF n
  <1>8. /\ piece \in Seq(Up!Cells) /\ Len(piece) = n
        /\ \A i \in 1 .. Len(piece) : piece[i] = bits[written + i]
        /\ reportSending \o piece \in Seq(Up!Cells)
        /\ Len(reportSending \o piece) = Len(reportSending) + n
        /\ reportArrived \o (reportSending \o piece) =
              (reportArrived \o reportSending) \o piece
    <2>1. written \in 0 .. Len(bits) /\ n \in 0 .. Len(bits) - written
      BY <1>2, <1>3, <1>7
    <2>2. ContinuesBy(Up!Cells, reportArrived, reportSending, bits, written,
                      n, piece)
      <3> HIDE DEF bits
      <3>1. QED
        BY <1>2, <1>6, <2>1, QueueWritten, Zenon
    <2>3. QED
      BY <2>2 DEF ContinuesBy

  <1>9. /\ off[writing] \in Nat /\ size[writing] \in Nat
        /\ off[writing + 1] = off[writing] + size[writing]
        /\ size[writing] = Len(bits) /\ writing \in Nat
        /\ writing + 1 \in 1 .. Len(ReportScript) + 1
        /\ Up!Numbers = 1 .. Len(ReportScript) /\ Len(ReportScript) \in Nat
    <2>1. /\ off[writing] \in Nat /\ size[writing] \in Nat
          /\ off[writing + 1] = off[writing] + size[writing]
          /\ writing + 1 \in 1 .. Len(ReportScript) + 1
      BY <1>1, ReportScriptFacts, OffsetsAt
    <2>2. /\ size[writing] = Up!Size(writing)
          /\ Up!Numbers = 1 .. Len(ReportScript) /\ Len(ReportScript) \in Nat
      BY <1>1, ReportScriptFacts
    <2>3. writing \in Nat
      BY <1>1
    <2>4. QED
      BY <1>2, <2>1, <2>2, <2>3, Zenon
  <1> HIDE DEF left, piece, bits

  <1> DEFINE Place == /\ WritePlace' = WritePlace + n
                      /\ writing' \in 1 .. Len(ReportScript) + 1
                      /\ written' \in Nat
                      /\ written' > 0 => writing' \in Up!Numbers
                      /\ writing' \in Up!Numbers =>
                            written' \in 0 .. Up!Size(writing') - 1
                      /\ UpSent' = writing
  <1>10. ASSUME n = Len(left) PROVE Place
    <2>1. writing' = writing + 1 /\ written' = 0
      BY <1>4, <1>10
    <2>2. off[writing + 1] + 0 = (off[writing] + written) + n
      BY <1>3, <1>5, <1>9, <1>10
    <2>3. WritePlace' = WritePlace + n
      BY <2>1, <2>2 DEF WritePlace
    <2>4. writing' \in Up!Numbers => written' \in 0 .. Up!Size(writing') - 1
      <3>1. SUFFICES ASSUME writing' \in 1 .. Len(ReportScript)
                     PROVE  written' \in 0 .. Up!Size(writing') - 1
        BY <1>9
      <3>2. Up!Size(writing') \in Nat /\ 2 <= Up!Size(writing')
        BY <3>1, ReportBits
      <3>3. QED
        BY <2>1, <3>2
    <2>5. UpSent' = writing
      BY <1>9, <2>1 DEF UpSent
    <2>6. QED
      BY <1>9, <2>1, <2>3, <2>4, <2>5
  <1>11. ASSUME n # Len(left) PROVE Place
    <2>1. writing' = writing /\ written' = written + n
      BY <1>4, <1>11
    <2>2. /\ written + n \in Nat /\ written + n > 0
          /\ written + n \in 0 .. Len(bits) - 1
      BY <1>2, <1>3, <1>5, <1>7, <1>11
    <2>3. off[writing] + (written + n) = (off[writing] + written) + n
      BY <1>3, <1>7, <1>9
    <2>4. WritePlace' = WritePlace + n
      BY <2>1, <2>3 DEF WritePlace
    <2>5. UpSent' = writing
      BY <2>1, <2>2 DEF UpSent
    <2>6. QED
      BY <1>1, <1>2, <1>9, <2>1, <2>2, <2>4, <2>5
  <1>12. Place
    BY <1>10, <1>11
  <1> HIDE DEF Place
  <1>13. Up!TypeOK'
    <2>1. /\ reportSending' \in Seq(Up!Cells)
          /\ Len(reportSending') + Len(reportArrived') <= ReportBuffer
      <3>1. CASE reader = "closed"
        BY <1>4, <1>6, <3>1
      <3>2. CASE reader # "closed"
        <4>1. reportSending' = reportSending \o piece
          BY <1>4, <3>2
        <4>2. n \in Nat
              /\ n <= ReportBuffer - Len(reportSending) - Len(reportArrived)
          BY <1>2, <1>3, <1>7, <3>2
        <4>3. (Len(reportSending) + n) + Len(reportArrived) <= ReportBuffer
          BY <1>6, <4>2
        <4>4. QED
          BY <1>4, <1>8, <4>1, <4>3
      <3>3. QED
        BY <3>1, <3>2
    <2>2. QED
      BY <1>1, <1>4, <1>12, <2>1 DEF Up!TypeOK, Place

  <1>14. ASSUME reader' \in {"header", "body"}
         PROVE  Carries(off, size, reportArrived' \o reportSending',
                        ReadPlace', WritePlace')
    <2>1. /\ reader' = reader /\ handled' = handled
          /\ reportArrived' = reportArrived
          /\ reportSending' = reportSending \o piece
      BY <1>4, <1>14
    <2>2. Carries(off, size, reportArrived \o reportSending, ReadPlace, WritePlace)
      BY <1>14, <2>1 DEF ReportInvariant
    <2>3. ReadPlace \in Nat /\ WritePlace \in Nat /\ ReadPlace' = ReadPlace
      <3>1. ReadPlace \in Nat
        <4>1. Len(handled) + 1 \in 1 .. Len(ReportScript) + 1
          BY <1>9, LenProperties DEF ReportInvariant
        <4>2. off[Len(handled) + 1] \in Nat
          BY <4>1, ReportScriptFacts DEF Begins
        <4>3. QED
          BY <4>2 DEF ReadPlace
      <3>2. WritePlace \in Nat
        BY <1>1, WriterAt
      <3>3. QED
        BY <2>1, <3>1, <3>2 DEF ReadPlace
    <2>4. written + Len(piece) <= size[writing]
      BY <1>2, <1>3, <1>7, <1>8, <1>9
    <2>5. \A i \in 1 .. Len(piece) : piece[i] = <<writing, written + i>>
      <3>1. ASSUME NEW i \in 1 .. Len(piece)
            PROVE  piece[i] = <<writing, written + i>>
        <4>1. written + i \in 1 .. Len(bits)
          BY <1>2, <1>3, <1>7, <1>8
        <4>2. QED
          BY <1>2, <1>8, <4>1
      <3>2. QED
        BY <3>1
    <2>6. reportArrived \o reportSending \in Seq(Up!Cells)
      BY <1>6, ConcatProperties
    <2>7. WritePlace = off[writing] + written
      BY DEF WritePlace
    <2>8. /\ size \in [1 .. Len(ReportScript) -> Nat]
          /\ Begins(off, size, Len(ReportScript))
      BY ReportScriptFacts
    <2>9. Carries(off, size, (reportArrived \o reportSending) \o piece,
                  ReadPlace, WritePlace + Len(piece))
      <3> HIDE DEF off, size
      <3>1. QED
        BY <1>1, <1>3, <1>8, <1>9, <2>2, <2>3, <2>4, <2>5, <2>6, <2>7, <2>8,
           Written, Zenon
    <2>10. QED
      BY <1>8, <1>12, <2>1, <2>3, <2>9, Zenon DEF Place
  <1>15. ReportInvariant'
    BY <1>4, <1>12, <1>13, <1>14 DEF ReportInvariant, Place
  <1>16. FifoStep
    <2>1. UpSent' = UpSent \/ UpSent' = UpSent + 1
      <3>1. UpSent' = writing
        BY <1>12 DEF Place
      <3>2. UpSent = writing \/ UpSent + 1 = writing
        <4> HIDE DEF off, size
        <4>1. QED
          BY <1>9 DEF UpSent
      <3>3. QED
        BY <3>1, <3>2, Zenon
    <2>2. handled' = handled /\ Up!Concluded' = Up!Concluded
      BY <1>4 DEF Up!Concluded
    <2>3. QED
      BY <2>1, <2>2 DEF FifoStep, UpSent, Up!Fifo!Next, Up!Fifo!Send,
                        Up!Fifo!fifoVars
  <1>17. QED
    BY <1>15, <1>16

\* The reader's place is a number of cells.
LEMMA ReaderAt ==
    ASSUME ReportInvariant
    PROVE  /\ Len(handled) \in Nat
           /\ Len(handled) + 1 \in 1 .. Len(ReportScript) + 1
           /\ Offsets(ReportScript)[Len(handled) + 1] \in Nat
           /\ ReadPlace \in Nat
           /\ reportArrived \in Seq(Up!Cells) /\ reportSending \in Seq(Up!Cells)
           /\ Len(reportArrived) \in Nat /\ Len(reportSending) \in Nat
           /\ reportArrived \o reportSending \in Seq(Up!Cells)
           /\ Len(reportArrived \o reportSending) =
                 Len(reportArrived) + Len(reportSending)
           /\ WritePlace \in Nat
           /\ UpSent \in 0 .. Len(ReportScript)
  <1>1. Len(handled) \in Nat
    BY LenProperties DEF ReportInvariant
  <1>2. Len(handled) + 1 \in 1 .. Len(ReportScript) + 1
    BY <1>1, ReportScriptFacts DEF ReportInvariant
  <1>3. Offsets(ReportScript)[Len(handled) + 1] \in Nat
    BY <1>2, ReportScriptFacts DEF Begins
  <1>4. ReadPlace \in Nat
    BY <1>3 DEF ReadPlace
  <1>5. reportArrived \in Seq(Up!Cells) /\ reportSending \in Seq(Up!Cells)
    BY DEF ReportInvariant, Up!TypeOK
  <1>6. /\ reportArrived \o reportSending \in Seq(Up!Cells)
        /\ Len(reportArrived \o reportSending) =
              Len(reportArrived) + Len(reportSending)
    BY <1>5, ConcatProperties
  <1>7. Len(reportArrived) \in Nat /\ Len(reportSending) \in Nat
    BY <1>5, LenProperties
  <1>8. WritePlace \in Nat /\ UpSent \in 0 .. Len(ReportScript)
    BY WriterAt DEF ReportInvariant
  <1>9. QED
    BY <1>1, <1>2, <1>3, <1>4, <1>5, <1>6, <1>7, <1>8, Zenon

\* The writer is beyond the offset of what the reader gets c cells of.
Ahead(offset, k, c, read, write, l) ==
    /\ {offset, k, c, read, write, l} \subseteq Nat
    /\ l = write - read /\ read = offset + k /\ 0 < k + c /\ c <= l

LEMMA WriterAhead ==
    ASSUME NEW offset, NEW k, NEW c, NEW read, NEW write, NEW l,
           Ahead(offset, k, c, read, write, l)
    PROVE  offset < write
  BY DEF Ahead

\* The first c cells that have arrived follow the k first of the next message.
GetsBlock(k, c) ==
    /\ Len(handled) + 1 \in 1 .. Len(ReportScript)
    /\ Len(handled) < UpSent
    /\ SubSeq(reportArrived, 1, c) \in Seq(Up!Cells)
    /\ Len(SubSeq(reportArrived, 1, c)) = c
    /\ \A i \in 1 .. c : SubSeq(reportArrived, 1, c)[i] =
                            <<Len(handled) + 1, k + i>>
    /\ SubSeq(reportArrived, c + 1, Len(reportArrived)) \in Seq(Up!Cells)
    /\ Len(SubSeq(reportArrived, c + 1, Len(reportArrived))) =
          Len(reportArrived) - c
    /\ Carries(Offsets(ReportScript), Sizes(ReportScript),
               SubSeq(reportArrived, c + 1, Len(reportArrived))
                  \o reportSending,
               ReadPlace + c, WritePlace)

\* The reader waits at the k-th cell of a block, takes c more of it, and gets
\* those cells of the next message.
LEMMA BlockRead ==
    ASSUME ReportInvariant, reader \in {"header", "body"},
           NEW k \in Nat, NEW c \in 0 .. Len(reportArrived),
           ReadPlace = Offsets(ReportScript)[Len(handled) + 1] + k,
           0 < k + c,
           Len(handled) + 1 \in 1 .. Len(ReportScript) =>
              k + c <= Sizes(ReportScript)[Len(handled) + 1]
    PROVE  GetsBlock(k, c)
  <1> DEFINE q == reportArrived \o reportSending
             rest == SubSeq(reportArrived, c + 1, Len(reportArrived))
             off == Offsets(ReportScript)
             size == Sizes(ReportScript)
  <1>1. /\ Len(handled) \in Nat
        /\ Len(handled) + 1 \in 1 .. Len(ReportScript) + 1
        /\ off[Len(handled) + 1] \in Nat
        /\ ReadPlace \in Nat /\ WritePlace \in Nat
        /\ UpSent \in 0 .. Len(ReportScript)
    BY ReaderAt, Zenon
  <1>2. /\ reportArrived \in Seq(Up!Cells) /\ reportSending \in Seq(Up!Cells)
        /\ Len(reportArrived) \in Nat /\ Len(reportSending) \in Nat
        /\ q \in Seq(Up!Cells)
        /\ Len(q) = Len(reportArrived) + Len(reportSending)
    BY ReaderAt, Zenon
  <1>3. Carries(off, size, q, ReadPlace, WritePlace)
    BY DEF ReportInvariant
  <1>4. Len(q) = WritePlace - ReadPlace
    BY <1>3 DEF Carries
  <1>5. off[Len(handled) + 1] < WritePlace
    <2>1. Len(q) \in Nat /\ c \in Nat /\ c <= Len(q)
      BY <1>2
    <2>2. Ahead(off[Len(handled) + 1], k, c, ReadPlace, WritePlace, Len(q))
      BY <1>1, <1>4, <2>1 DEF Ahead
    <2>3. QED
      BY <2>2, WriterAhead, Zenon
  <1>6. Len(handled) + 1 <= UpSent
    BY <1>1, <1>5, BegunBefore DEF ReportInvariant
  <1>7. Len(handled) + 1 \in 1 .. Len(ReportScript) /\ Len(handled) < UpSent
    <2>1. Len(ReportScript) \in Nat
      BY ReportScriptFacts
    <2>2. QED
      BY <1>1, <1>6, <2>1
  <1>8. /\ SubSeq(reportArrived, 1, c) \in Seq(Up!Cells)
        /\ Len(SubSeq(reportArrived, 1, c)) = c
        /\ rest \in Seq(Up!Cells)
        /\ Len(rest) = Len(reportArrived) - c
        /\ rest \o reportSending = SubSeq(q, c + 1, Len(q))
        /\ \A i \in 1 .. c : SubSeq(reportArrived, 1, c)[i] = q[i]
        /\ c \in 0 .. Len(q)
    <2>1. ReadFrom(Up!Cells, reportArrived, reportSending, c)
      BY <1>2, QueueRead, Zenon
    <2>2. QED
      BY <2>1, Zenon DEF ReadFrom
  <1>9. /\ size \in [1 .. Len(ReportScript) -> Nat]
        /\ Begins(off, size, Len(ReportScript)) /\ Len(ReportScript) \in Nat
    BY ReportScriptFacts
  <1>10. /\ Carries(off, size, SubSeq(q, c + 1, Len(q)), ReadPlace + c,
                    WritePlace)
         /\ PartOfBlock(off, size, Len(ReportScript), q, ReadPlace, c)
    BY <1>1, <1>2, <1>3, <1>8, <1>9, TakenOff, Zenon
  <1>11. \A i \in 1 .. c : q[i] = <<Len(handled) + 1, k + i>>
    BY <1>7, <1>10, Zenon DEF PartOfBlock
  <1>12. \A i \in 1 .. c : SubSeq(reportArrived, 1, c)[i] =
                              <<Len(handled) + 1, k + i>>
    BY <1>8, <1>11, Zenon
  <1>13. Carries(off, size, rest \o reportSending, ReadPlace + c, WritePlace)
    BY <1>8, <1>10, Zenon
  <1>14. QED
    BY <1>7, <1>8, <1>12, <1>13, Zenon DEF GetsBlock

\* What a header of two cells says.
LEMMA HeaderOf ==
    ASSUME NEW m \in 1 .. Len(ReportScript), NEW h \in Seq(Up!Cells),
           Len(h) = 2, \A i \in 1 .. 2 : h[i] = <<m, i>>
    PROVE  /\ h = SubSeq(Up!ToBits(m), 1, 2)
           /\ Up!Opcode(h) = ReportScript[m].opcode
           /\ Up!BodySizes(h) = {ReportScript[m].bodySize}
  <1>1. h[1] = <<m, 1>> /\ h[2] = <<m, 2>>
    OBVIOUS
  <1>2. m \in Up!Numbers
    BY ReportScriptFacts
  <1>3. /\ Up!ToBits(m) \in Seq(Up!Cells)
        /\ Len(Up!ToBits(m)) = Up!Size(m)
        /\ \A i \in 1 .. Up!Size(m) : Up!ToBits(m)[i] = <<m, i>>
        /\ Up!Size(m) \in Nat /\ 2 <= Up!Size(m)
    BY ReportBits
  <1>4. PICK b \in Seq(Up!Cells) : b = Up!ToBits(m)
    BY <1>3
  <1>5. /\ SubSeq(b, 1, 2) \in Seq(Up!Cells) /\ Len(SubSeq(b, 1, 2)) = 2
        /\ \A i \in 1 .. 2 : SubSeq(b, 1, 2)[i] = b[i]
    BY <1>3, <1>4
  <1>6. \A i \in 1 .. 2 : b[i] = <<m, i>>
    BY <1>3, <1>4
  <1>7. h = SubSeq(b, 1, 2)
    <2>1. PICK u \in Seq(Up!Cells) : u = SubSeq(b, 1, 2)
      BY <1>5
    <2>2. Len(h) = Len(u)
      BY <1>5, <2>1
    <2>3. \A i \in 1 .. Len(h) : h[i] = u[i]
      BY <1>5, <1>6, <2>1
    <2>4. QED
      BY <2>1, <2>2, <2>3, SeqEqual
  <1>8. Up!Opcode(h) = ReportScript[m].opcode
    BY <1>1, <1>2 DEF Up!Opcode
  <1>9. Up!BodySizes(h) = {ReportScript[m].bodySize}
    BY <1>1, <1>2 DEF Up!BodySizes
  <1>10. QED
    BY <1>4, <1>7, <1>8, <1>9

\* Header and body are the block.
LEMMA WholeBlock ==
    ASSUME NEW m \in 1 .. Len(ReportScript), NEW b \in Seq(Up!Cells),
           Len(b) = ReportScript[m].bodySize,
           \A i \in 1 .. Len(b) : b[i] = <<m, 2 + i>>
    PROVE  SubSeq(Up!ToBits(m), 1, 2) \o b = Up!ToBits(m)
  <1>1. /\ Up!ToBits(m) \in Seq(Up!Cells)
        /\ Len(Up!ToBits(m)) = Up!Size(m)
        /\ \A i \in 1 .. Up!Size(m) : Up!ToBits(m)[i] = <<m, i>>
        /\ Up!Size(m) \in Nat /\ 2 <= Up!Size(m)
    BY ReportBits
  <1>2. Up!Size(m) = 2 + Len(b) /\ Len(b) \in Nat
    BY ReportScriptFacts
  <1>3. PICK t \in Seq(Up!Cells) : t = Up!ToBits(m)
    BY <1>1
  <1>4. /\ SubSeq(t, 1, 2) \in Seq(Up!Cells) /\ Len(SubSeq(t, 1, 2)) = 2
        /\ \A i \in 1 .. 2 : SubSeq(t, 1, 2)[i] = t[i]
    BY <1>1, <1>3
  <1>5. PICK h \in Seq(Up!Cells) : h = SubSeq(t, 1, 2)
    BY <1>4
  <1>6. /\ h \o b \in Seq(Up!Cells) /\ Len(h \o b) = 2 + Len(b)
        /\ \A i \in 1 .. 2 + Len(b) :
              (h \o b)[i] = IF i <= 2 THEN h[i] ELSE b[i - 2]
    BY <1>4, <1>5, ConcatProperties
  <1>7. ASSUME NEW i \in 1 .. 2 + Len(b) PROVE (h \o b)[i] = t[i]
    <2>1. t[i] = <<m, i>>
      BY <1>1, <1>2, <1>3
    <2>2. CASE i <= 2
      <3>1. i \in 1 .. 2
        BY <1>2, <2>2
      <3>2. QED
        BY <1>4, <1>5, <1>6, <2>2, <3>1
    <2>3. CASE ~(i <= 2)
      <3>1. i - 2 \in 1 .. Len(b) /\ 2 + (i - 2) = i
        BY <1>2, <2>3
      <3>2. b[i - 2] = <<m, i>>
        BY <3>1
      <3>3. QED
        BY <1>6, <2>1, <2>3, <3>2
    <2>4. QED
      BY <2>2, <2>3
  <1>8. h \o b = t
    BY <1>1, <1>2, <1>3, <1>6, <1>7, SeqEqual
  <1>9. QED
    BY <1>3, <1>5, <1>8

\* A message is handled: the channel delivers it.
LEMMA ReportHandled ==
    ASSUME ReportInvariant, reader \in {"header", "body"},
           Len(handled) + 1 \in 1 .. Len(ReportScript), Len(handled) < UpSent,
           handled' = Append(handled, Up!ToBits(Len(handled) + 1)),
           reader' \in {"header", "finished"},
           UNCHANGED <<writing, written>>
    PROVE  /\ handled' \in Seq(Seq(Up!Cells \cup {Up!Zero}))
           /\ Len(handled') = Len(handled) + 1
           /\ reader' = "header" =>
                 ReadPlace' = Offsets(ReportScript)[Len(handled) + 1]
                              + Up!Size(Len(handled) + 1)
           /\ WritePlace' = WritePlace
           /\ FifoStep
  <1>1. PICK m \in 1 .. Len(ReportScript) : m = Len(handled) + 1
    OBVIOUS
  <1>2. Up!ToBits(m) \in Seq(Up!Cells \cup {Up!Zero})
    BY ReportBits, SeqMonotonic
  <1>3. handled \in Seq(Seq(Up!Cells \cup {Up!Zero}))
    BY DEF ReportInvariant
  <1>4. /\ handled' \in Seq(Seq(Up!Cells \cup {Up!Zero}))
        /\ Len(handled') = Len(handled) + 1
    BY <1>1, <1>2, <1>3, AppendProperties
  <1>5. /\ Sizes(ReportScript) \in [1 .. Len(ReportScript) -> Nat]
        /\ Begins(Offsets(ReportScript), Sizes(ReportScript),
                  Len(ReportScript))
        /\ Len(ReportScript) \in Nat /\ Sizes(ReportScript)[m] = Up!Size(m)
    BY ReportScriptFacts
  <1>6. Offsets(ReportScript)[m + 1] =
           Offsets(ReportScript)[m] + Sizes(ReportScript)[m]
        /\ Offsets(ReportScript)[m + 1] \in Nat
    <2>1. m + 1 \in 1 .. Len(ReportScript) + 1
      BY <1>5
    <2>2. QED
      BY <1>5, <2>1, OffsetsAt DEF Begins
  <1>7. ASSUME reader' = "header"
        PROVE  ReadPlace' = Offsets(ReportScript)[m] + Up!Size(m)
    <2>1. ReadPlace' = Offsets(ReportScript)[m + 1] + 0
      BY <1>1, <1>4, <1>7 DEF ReadPlace
    <2>2. QED
      BY <1>5, <1>6, <2>1
  <1>8. WritePlace' = WritePlace
    BY DEF WritePlace
  <1>9. FifoStep
    <2>1. ~Up!Concluded /\ Up!Concluded' \in BOOLEAN
      BY DEF Up!Concluded
    <2>2. UpSent' = UpSent
      BY DEF UpSent
    <2>3. Up!Fifo!Handle
      BY <2>1, <2>2 DEF Up!Fifo!Handle, UpSent
    <2>4. QED
      BY <2>3 DEF FifoStep, Up!Fifo!Next
  <1>10. QED
    BY <1>1, <1>4, <1>7, <1>8, <1>9

LEMMA ReportHeaderRead ==
    ASSUME ReportInvariant, Up!HandleHeaderRead
    PROVE  ReportInvariant' /\ FifoStep
  <1> DEFINE m == Len(handled) + 1
             off == Offsets(ReportScript)
             size == Sizes(ReportScript)
  <1>1. /\ reader = "header" /\ 2 \in 0 .. Len(reportArrived)
        /\ headerBuffer' = SubSeq(reportArrived, 1, 2)
        /\ reportArrived' = SubSeq(reportArrived, 2 + 1, Len(reportArrived))
        /\ UNCHANGED <<reportSending, writer, writing, written>>
    <2>1. Len(reportArrived) \in Nat
      BY ReaderAt
    <2>2. QED
      BY <2>1 DEF Up!HandleHeaderRead, Up!HeaderSize, Up!Read, Up!Unread
  <1>2. /\ off[m] \in Nat /\ ReadPlace = off[m] + 0
        /\ Len(reportArrived) \in Nat /\ Len(reportSending) \in Nat
        /\ Len(handled) \in Nat
    BY <1>1, ReaderAt DEF ReadPlace
  <1>3. m \in 1 .. Len(ReportScript) => 0 + 2 <= size[m]
    BY ReportScriptFacts, ReportBits
  <1>4. /\ m \in 1 .. Len(ReportScript)
        /\ Len(handled) < UpSent
        /\ SubSeq(reportArrived, 1, 2) \in Seq(Up!Cells)
        /\ Len(SubSeq(reportArrived, 1, 2)) = 2
        /\ \A i \in 1 .. 2 : SubSeq(reportArrived, 1, 2)[i] = <<m, 0 + i>>
        /\ SubSeq(reportArrived, 2 + 1, Len(reportArrived)) \in Seq(Up!Cells)
        /\ Len(SubSeq(reportArrived, 2 + 1, Len(reportArrived))) =
              Len(reportArrived) - 2
        /\ Carries(off, size,
                   SubSeq(reportArrived, 2 + 1, Len(reportArrived))
                      \o reportSending,
                   ReadPlace + 2, WritePlace)
    <2>1. GetsBlock(0, 2)
      <3>1. 0 \in Nat /\ 0 < 0 + 2
        OBVIOUS
      <3> HIDE DEF off, size
      <3>2. QED
        BY <1>1, <1>2, <1>3, <3>1, BlockRead, Zenon DEF off, size
    <2>2. QED
      BY <2>1, Zenon DEF GetsBlock
  <1>5. /\ headerBuffer' = SubSeq(Up!ToBits(m), 1, 2)
        /\ headerBuffer' \in Seq(Up!Cells)
        /\ Up!Opcode(headerBuffer') = ReportScript[m].opcode
        /\ Up!BodySizes(headerBuffer') = {ReportScript[m].bodySize}
    <2>1. PICK h \in Seq(Up!Cells) : h = SubSeq(reportArrived, 1, 2)
      BY <1>4
    <2>2. Len(h) = 2 /\ \A i \in 1 .. 2 : h[i] = <<m, i>>
      BY <1>4, <2>1
    <2>3. QED
      BY <1>1, <1>4, <2>1, <2>2, HeaderOf
  <1>6. /\ ReportScript[m].bodySize \in Nat /\ m \in Up!Numbers
        /\ Len(ReportScript) \in Nat
        /\ Up!Size(m) = 2 + ReportScript[m].bodySize
    BY <1>4, ReportScriptFacts
  <1>7. /\ Len(reportSending') + Len(reportArrived') <= ReportBuffer
        /\ reportArrived' \in Seq(Up!Cells)
        /\ reportSending' \in Seq(Up!Cells)
    <2>1. /\ Len(reportSending) + Len(reportArrived) <= ReportBuffer
          /\ reportSending \in Seq(Up!Cells) /\ ReportBuffer \in Nat
      BY ReportScriptFacts DEF ReportInvariant, Up!TypeOK
    <2>2. Len(reportArrived') = Len(reportArrived) - 2
      BY <1>1, <1>4
    <2>3. Len(reportSending') + Len(reportArrived') <= ReportBuffer
      BY <1>1, <1>2, <2>1, <2>2
    <2>4. QED
      BY <1>1, <1>4, <2>1, <2>3
  <1>8. WritePlace' = WritePlace
    BY <1>1 DEF WritePlace
  <1> HIDE DEF m
  <1>9. CASE ReportScript[m].bodySize > 0
    <2>1. /\ bodyBuffer' = [i \in 1 .. ReportScript[m].bodySize |->
                IF i <= Len(bodyBuffer) THEN bodyBuffer[i] ELSE Up!Zero]
          /\ reader' = "body" /\ handled' = handled
      BY <1>5, <1>9 DEF Up!HandleHeaderRead
    <2>2. /\ bodyBuffer' \in Seq(Up!Cells \cup {Up!Zero})
          /\ Len(bodyBuffer') = ReportScript[m].bodySize
      <3>1. bodyBuffer \in Seq(Up!Cells \cup {Up!Zero})
        BY DEF ReportInvariant, Up!TypeOK
      <3>2. Len(bodyBuffer) \in Nat
        BY <3>1, LenProperties
      <3>3. ASSUME NEW i \in 1 .. ReportScript[m].bodySize
            PROVE  (IF i <= Len(bodyBuffer) THEN bodyBuffer[i] ELSE Up!Zero)
                      \in Up!Cells \cup {Up!Zero}
        <4>1. CASE i <= Len(bodyBuffer)
          <5>1. i \in 1 .. Len(bodyBuffer)
            BY <1>6, <3>2, <4>1
          <5>2. QED
            BY <3>1, <4>1, <5>1, ElementOfSeq
        <4>2. CASE ~(i <= Len(bodyBuffer))
          BY <4>2
        <4>3. QED
          BY <4>1, <4>2
      <3>4. QED
        BY <1>6, <2>1, <3>3
    <2>3. ReadPlace' = ReadPlace + 2
      <3>1. ReadPlace' = off[m] + 2
        BY <2>1 DEF ReadPlace, m
      <3>2. QED
        BY <1>2, <3>1
    <2>4. Up!TypeOK'
      BY <1>1, <1>5, <1>6, <1>7, <2>1, <2>2
         DEF ReportInvariant, Up!TypeOK, Up!HeaderSize
    <2>5. Len(handled') < Len(ReportScript)
      BY <1>2, <1>4, <1>6, <2>1 DEF m
    <2>6. ReportInvariant'
      BY <1>1, <1>4, <1>5, <1>8, <2>1, <2>2, <2>3, <2>4, <2>5
         DEF ReportInvariant, m
    <2>7. FifoStep
      <3>1. Up!Concluded' = Up!Concluded
        BY <1>1, <2>1 DEF Up!Concluded
      <3>2. QED
        BY <1>1, <2>1, <3>1 DEF FifoStep, Up!Fifo!fifoVars
    <2>8. QED
      BY <2>6, <2>7
  <1>10. CASE ~(ReportScript[m].bodySize > 0)
    <2>1. /\ handled' = Append(handled, headerBuffer' \o <<>>)
          /\ reader' = IF ReportScript[m].opcode = "Report"
                       THEN "header" ELSE "finished"
          /\ bodyBuffer' = bodyBuffer
      BY <1>5, <1>10 DEF Up!HandleHeaderRead, Up!HandleMessage
    <2>2. ReportScript[m].bodySize = 0
      BY <1>6, <1>10
    <2>3. headerBuffer' \o <<>> = Up!ToBits(m)
      <3>1. /\ <<>> \in Seq(Up!Cells) /\ Len(<<>>) = 0
            /\ m \in 1 .. Len(ReportScript)
        BY <1>4, EmptySeq DEF m
      <3>2. \A i \in 1 .. 0 : <<>>[i] = <<m, 2 + i>>
        OBVIOUS
      <3>3. SubSeq(Up!ToBits(m), 1, 2) \o <<>> = Up!ToBits(m)
        BY <2>2, <3>1, <3>2, WholeBlock
      <3>4. QED
        BY <1>5, <3>3, Zenon DEF m
    <2>4. /\ handled' \in Seq(Seq(Up!Cells \cup {Up!Zero}))
          /\ Len(handled') = m
          /\ reader' = "header" => ReadPlace' = off[m] + Up!Size(m)
          /\ FifoStep
      BY <1>1, <1>4, <2>1, <2>3, ReportHandled DEF m
    <2>5. reader' = "header" => ReadPlace' = ReadPlace + 2
      BY <1>2, <1>6, <2>2, <2>4
    <2>6. Up!TypeOK'
      BY <1>1, <1>5, <1>6, <1>7, <2>1
         DEF ReportInvariant, Up!TypeOK, Up!HeaderSize
    <2>7. ReportInvariant'
      BY <1>1, <1>4, <1>6, <1>8, <2>1, <2>4, <2>5, <2>6
         DEF ReportInvariant
    <2>8. QED
      BY <2>4, <2>7
  <1>11. QED
    BY <1>9, <1>10

LEMMA ReportBodyRead ==
    ASSUME ReportInvariant, Up!HandleBodyRead
    PROVE  ReportInvariant' /\ FifoStep
  <1> DEFINE m == Len(handled) + 1
             off == Offsets(ReportScript)
             size == Sizes(ReportScript)
             c == Len(bodyBuffer)
  <1>1. /\ reader = "body" /\ Len(reportArrived) >= c
        /\ bodyBuffer' = SubSeq(reportArrived, 1, c)
        /\ reportArrived' = SubSeq(reportArrived, c + 1, Len(reportArrived))
        /\ handled' = Append(handled, headerBuffer \o bodyBuffer')
        /\ reader' = IF Up!Opcode(headerBuffer) = "Report"
                     THEN "header" ELSE "finished"
        /\ UNCHANGED <<reportSending, writer, writing, written, headerBuffer>>
    BY DEF Up!HandleBodyRead, Up!HandleMessage, Up!Read, Up!Unread
  <1>2. /\ off[m] \in Nat /\ ReadPlace = off[m] + 2
        /\ Len(reportArrived) \in Nat /\ Len(reportSending) \in Nat
        /\ Len(handled) \in Nat
    BY <1>1, ReaderAt DEF ReadPlace
  <1>3. /\ m \in 1 .. Len(ReportScript)
        /\ headerBuffer = SubSeq(Up!ToBits(m), 1, 2)
        /\ c = ReportScript[m].bodySize
    <2>1. Len(handled) < Len(ReportScript)
      BY <1>1 DEF ReportInvariant
    <2>2. m \in 1 .. Len(ReportScript)
      BY <1>2, <2>1, ReportScriptFacts
    <2>3. QED
      BY <1>1, <2>2 DEF ReportInvariant
  <1>4. /\ ReportScript[m].bodySize \in Nat /\ m \in Up!Numbers
        /\ Len(ReportScript) \in Nat
        /\ Up!Size(m) = 2 + ReportScript[m].bodySize
        /\ size[m] = Up!Size(m)
    BY <1>3, ReportScriptFacts
  <1>5. c \in 0 .. Len(reportArrived) /\ 0 < 2 + c /\ 2 + c <= size[m]
    BY <1>1, <1>2, <1>3, <1>4
  <1>6. /\ Len(handled) < UpSent
        /\ SubSeq(reportArrived, 1, c) \in Seq(Up!Cells)
        /\ Len(SubSeq(reportArrived, 1, c)) = c
        /\ \A i \in 1 .. c : SubSeq(reportArrived, 1, c)[i] = <<m, 2 + i>>
        /\ SubSeq(reportArrived, c + 1, Len(reportArrived)) \in Seq(Up!Cells)
        /\ Len(SubSeq(reportArrived, c + 1, Len(reportArrived))) =
              Len(reportArrived) - c
        /\ Carries(off, size,
                   SubSeq(reportArrived, c + 1, Len(reportArrived))
                      \o reportSending,
                   ReadPlace + c, WritePlace)
    <2>1. GetsBlock(2, c)
      <3>1. 2 \in Nat /\ reader \in {"header", "body"}
        BY <1>1
      <3> HIDE DEF off, size, c
      <3>2. QED
        BY <1>2, <1>5, <3>1, BlockRead, Zenon DEF off, size
    <2>2. QED
      BY <2>1, Zenon DEF GetsBlock
  <1>7. /\ Len(reportSending') + Len(reportArrived') <= ReportBuffer
        /\ reportArrived' \in Seq(Up!Cells)
        /\ reportSending' \in Seq(Up!Cells)
    <2>1. /\ Len(reportSending) + Len(reportArrived) <= ReportBuffer
          /\ reportSending \in Seq(Up!Cells) /\ ReportBuffer \in Nat
      BY ReportScriptFacts DEF ReportInvariant, Up!TypeOK
    <2>2. Len(reportArrived') = Len(reportArrived) - c
      BY <1>1, <1>6
    <2> HIDE DEF c
    <2>3. Len(reportSending') + Len(reportArrived') <= ReportBuffer
      BY <1>1, <1>2, <1>5, <2>1, <2>2
    <2>4. QED
      BY <1>1, <1>6, <2>1, <2>3
  <1>8. /\ bodyBuffer' \in Seq(Up!Cells)
        /\ bodyBuffer' \in Seq(Up!Cells \cup {Up!Zero})
    BY <1>1, <1>6, SeqMonotonic
  <1>9. headerBuffer \o bodyBuffer' = Up!ToBits(m)
    <2>1. PICK b \in Seq(Up!Cells) : b = bodyBuffer'
      BY <1>8
    <2>2. Len(b) = ReportScript[m].bodySize
      BY <1>1, <1>3, <1>6, <2>1
    <2>3. \A i \in 1 .. Len(b) : b[i] = <<m, 2 + i>>
      BY <1>1, <1>6, <2>1
    <2>4. SubSeq(Up!ToBits(m), 1, 2) \o b = Up!ToBits(m)
      BY <1>3, <2>2, <2>3, WholeBlock
    <2>5. QED
      BY <1>3, <2>1, <2>4, Zenon
  <1>10. WritePlace' = WritePlace
    BY <1>1 DEF WritePlace
  <1>11. /\ handled' \in Seq(Seq(Up!Cells \cup {Up!Zero}))
         /\ Len(handled') = m
         /\ reader' = "header" => ReadPlace' = off[m] + Up!Size(m)
         /\ FifoStep
    BY <1>1, <1>3, <1>6, <1>9, ReportHandled
  <1> HIDE DEF m
  <1>12. reader' = "header" => ReadPlace' = ReadPlace + c
    <2>1. Up!Size(m) = 2 + c /\ c \in Nat
      BY <1>3, <1>4
    <2> HIDE DEF c, off
    <2>2. off[m] + Up!Size(m) = ReadPlace + c
      BY <1>2, <2>1
    <2>3. QED
      BY <1>11, <2>2 DEF off
  <1>13. Up!TypeOK'
    BY <1>1, <1>7, <1>8 DEF ReportInvariant, Up!TypeOK, Up!HeaderSize
  <1>14. ReportInvariant'
    BY <1>1, <1>3, <1>4, <1>6, <1>10, <1>11, <1>12, <1>13
       DEF ReportInvariant
  <1>15. QED
    BY <1>11, <1>14

\* Neither the report's writer nor what is under way has changed.
LEMMA ReportsElsewhere ==
    ASSUME ReportInvariant, UNCHANGED reportVars,
           writer' \in {"running", "done", "dead"}
    PROVE  ReportInvariant' /\ FifoStep
  <1>1. ReadPlace' = ReadPlace /\ WritePlace' = WritePlace
    BY DEF ReadPlace, WritePlace, reportVars
  <1>2. Up!TypeOK'
    BY DEF ReportInvariant, Up!TypeOK, reportVars
  <1>3. ReportInvariant'
    BY <1>1, <1>2 DEF ReportInvariant, reportVars
  <1>4. Up!Concluded' = Up!Concluded /\ UpSent' = UpSent
    BY DEF Up!Concluded, UpSent, reportVars
  <1>5. FifoStep
    BY <1>4 DEF FifoStep, Up!Fifo!fifoVars, reportVars, UpSent
  <1>6. QED
    BY <1>3, <1>5

LEMMA ReportsCarriedOn ==
    ASSUME ReportInvariant, Up!Carry
    PROVE  ReportInvariant' /\ FifoStep
  <1>1. /\ reportArrived \in Seq(Up!Cells) /\ reportSending \in Seq(Up!Cells)
        /\ reportSending # <<>>
        /\ reportArrived' = Append(reportArrived, Head(reportSending))
        /\ reportSending' = Tail(reportSending)
        /\ UNCHANGED <<writer, writing, written, reader, headerBuffer,
                       bodyBuffer, handled>>
    BY DEF ReportInvariant, Up!TypeOK, Up!Carry, Up!Transfer
  <1>2. /\ reportArrived' \in Seq(Up!Cells) /\ reportSending' \in Seq(Up!Cells)
        /\ Len(reportArrived') + Len(reportSending') =
              Len(reportArrived) + Len(reportSending)
        /\ reportArrived' \o reportSending' = reportArrived \o reportSending
    BY <1>1, QueueCarried
  <1>3. Len(reportSending') + Len(reportArrived') <= ReportBuffer
    <2>1. /\ Len(reportArrived) \in Nat /\ Len(reportSending) \in Nat
          /\ Len(reportArrived') \in Nat /\ Len(reportSending') \in Nat
      BY <1>1, <1>2, LenProperties
    <2>2. /\ Len(reportSending) + Len(reportArrived) <= ReportBuffer
          /\ ReportBuffer \in Nat
      BY ReportScriptFacts DEF ReportInvariant, Up!TypeOK
    <2>3. Len(reportArrived') + Len(reportSending') =
              Len(reportArrived) + Len(reportSending)
      BY <1>2
    <2>4. QED
      BY <2>1, <2>2, <2>3
  <1>4. Up!TypeOK'
    BY <1>1, <1>2, <1>3 DEF ReportInvariant, Up!TypeOK
  <1>5. ReadPlace' = ReadPlace /\ WritePlace' = WritePlace
    BY <1>1 DEF ReadPlace, WritePlace
  <1>6. ReportInvariant'
    BY <1>1, <1>2, <1>4, <1>5, Zenon DEF ReportInvariant
  <1>7. Up!Concluded' = Up!Concluded /\ UpSent' = UpSent
    BY <1>1 DEF Up!Concluded, UpSent
  <1>8. FifoStep
    BY <1>1, <1>7 DEF FifoStep, Up!Fifo!fifoVars, UpSent
  <1>9. QED
    BY <1>6, <1>8

\* The reader gives up, at an error or at the end of its process.
LEMMA ReportsGivenUp ==
    ASSUME ReportInvariant, Up!HandleReadError \/ Up!Close,
           writer' = writer
    PROVE  ReportInvariant' /\ FifoStep
  <1>1. /\ reader' \in {"disconnected", "closed"}
        /\ \/ UNCHANGED <<reportSending, reportArrived>>
           \/ reportSending' = <<>> /\ reportArrived' = <<>>
        /\ UNCHANGED <<writing, written, headerBuffer, bodyBuffer, handled>>
    BY DEF Up!HandleReadError, Up!Close
  <1>2. /\ reportSending' \in Seq(Up!Cells) /\ reportArrived' \in Seq(Up!Cells)
        /\ Len(reportSending') + Len(reportArrived') <= ReportBuffer
    <2>1. /\ <<>> \in Seq(Up!Cells) /\ Len(<<>>) = 0 /\ ReportBuffer \in Nat
      BY EmptySeq, ReportScriptFacts
    <2>2. CASE UNCHANGED <<reportSending, reportArrived>>
      BY <2>2 DEF ReportInvariant, Up!TypeOK
    <2>3. CASE reportSending' = <<>> /\ reportArrived' = <<>>
      BY <2>1, <2>3
    <2>4. QED
      BY <1>1, <2>2, <2>3
  <1>3. Up!TypeOK'
    BY <1>1, <1>2 DEF ReportInvariant, Up!TypeOK
  <1>4. ReportInvariant'
    BY <1>1, <1>3 DEF ReportInvariant
  <1>5. Up!Concluded' = TRUE /\ Up!Concluded \in BOOLEAN /\ UpSent' = UpSent
    BY <1>1 DEF Up!Concluded, UpSent
  <1>6. FifoStep
    BY <1>1, <1>5 DEF FifoStep, UpSent, Up!Fifo!Next, Up!Fifo!GiveUp,
                      Up!Fifo!fifoVars
  <1>7. QED
    BY <1>4, <1>6

LEMMA ReportInit ==
    ASSUME Init
    PROVE  ReportInvariant /\ Up!Fifo!Init
  <1>1. /\ reportSending = <<>> /\ reportArrived = <<>>
        /\ writer = "running" /\ writing = 1 /\ written = 0
        /\ reader = "header" /\ headerBuffer = <<>> /\ bodyBuffer = <<>>
        /\ handled = <<>>
    BY DEF Init, Up!Init
  <1>2. /\ <<>> \in Seq(Up!Cells) /\ Len(<<>>) = 0
        /\ <<>> \in Seq(Up!Cells \cup {Up!Zero})
        /\ <<>> \in Seq(Seq(Up!Cells \cup {Up!Zero}))
    BY EmptySeq
  <1>3. /\ Len(ReportScript) \in Nat /\ ReportBuffer \in Nat
        /\ Up!Numbers = 1 .. Len(ReportScript)
        /\ Begins(Offsets(ReportScript), Sizes(ReportScript),
                  Len(ReportScript))
    BY ReportScriptFacts
  <1>4. 1 \in Up!Numbers => 0 \in 0 .. Up!Size(1) - 1
    BY <1>3, ReportBits
  <1>5. Up!TypeOK
    BY <1>1, <1>2, <1>3, <1>4 DEF Up!TypeOK
  <1>6. Offsets(ReportScript)[1] = 0
    BY <1>3 DEF Begins
  <1>7. ReadPlace = 0 /\ WritePlace = 0
    BY <1>1, <1>6 DEF ReadPlace, WritePlace
  <1>8. Carries(Offsets(ReportScript), Sizes(ReportScript),
                reportArrived \o reportSending, ReadPlace, WritePlace)
    <2>1. reportArrived \o reportSending = <<>>
      BY <1>1
    <2>2. Carries(Offsets(ReportScript), Sizes(ReportScript), <<>>, 0, 0)
      BY DEF Carries
    <2>3. QED
      BY <1>7, <2>1, <2>2, Zenon
  <1>9. ReportInvariant
    BY <1>1, <1>2, <1>3, <1>5, <1>8 DEF ReportInvariant
  <1>10. Up!Fifo!Init
    BY <1>1 DEF Up!Fifo!Init, Up!Concluded
  <1>11. QED
    BY <1>9, <1>10

\* One step of the connection.
LEMMA ReportStep ==
    ASSUME ReportInvariant, [Next]_vars
    PROVE  ReportInvariant' /\ FifoStep
  <1>1. writer \in {"running", "done", "dead"}
    BY DEF ReportInvariant, Up!TypeOK
  <1>2. ASSUME UNCHANGED reportVars, writer' \in {writer, "dead"}
        PROVE  ReportInvariant' /\ FifoStep
    BY <1>1, <1>2, ReportsElsewhere
  <1>3. CASE ControllerReads
    BY <1>2, <1>3 DEF ControllerReads
  <1>4. CASE ControllerWrites
    <2>1. CASE Up!Write
      BY <2>1, ReportsWritten
    <2>2. CASE Up!WriteError \/ Up!Finishes
      BY <2>2, ReportsElsewhere
         DEF Up!WriteError, Up!Finishes, Up!WriterEnds, reportVars
    <2>3. QED
      BY <1>4, <2>1, <2>2 DEF ControllerWrites, Up!WriteStep
  <1>5. CASE ControllerDies
    BY <1>2, <1>5 DEF ControllerDies, Up!Die, Up!WriterEnds, reportVars
  <1>6. CASE MasterSends
    BY <1>2, <1>6 DEF MasterSends
  <1>7. CASE MasterReads
    <2>1. CASE Up!HandleHeaderRead
      BY <2>1, ReportHeaderRead
    <2>2. CASE Up!HandleBodyRead
      BY <2>2, ReportBodyRead
    <2>3. CASE Up!HandleReadError
      BY <2>3, ReportsGivenUp DEF Up!HandleReadError
    <2>4. QED
      BY <1>7, <2>1, <2>2, <2>3 DEF MasterReads, Up!ReadStep
  <1>8. CASE MasterEnds
    BY <1>8, ReportsGivenUp DEF MasterEnds, Up!Close
  <1>9. CASE StartCarried
    BY <1>2, <1>9 DEF StartCarried
  <1>10. CASE ReportsCarried
    BY <1>10, ReportsCarriedOn DEF ReportsCarried
  <1>11. CASE Finished \/ UNCHANGED vars
    BY <1>2, <1>11 DEF Finished, vars
  <1>12. QED
    BY <1>3, <1>4, <1>5, <1>6, <1>7, <1>8, <1>9, <1>10, <1>11 DEF Next

(***************************************************************************)
(* The master handles the controller's reports whole, in order and once,   *)
(* nothing after a disconnection, and not one cell of a report cut short:  *)
(* handleHeaderRead, handleBodyRead and their error path                   *)
(* (ControllerConnection.cpp) make of the bytes of a socket the channel of *)
(* messages that the rest of the master takes it for. For any reports, any *)
(* cut of the blocks, and any end of the two processes.                    *)
(***************************************************************************)
THEOREM ReportsAreFifo == FairSpec => []Up!TypeOK /\ Up!ImplementsFifo
  <1>1. Init => ReportInvariant /\ Up!Fifo!Init
    BY ReportInit
  <1>2. ReportInvariant /\ [Next]_vars => ReportInvariant' /\ FifoStep
    BY ReportStep
  <1>3. ReportInvariant => Up!TypeOK
    BY DEF ReportInvariant
  <1>4. QED
    BY <1>1, <1>2, <1>3, PTL DEF FairSpec, Up!ImplementsFifo, Up!Fifo!Spec,
                                 FifoStep

-----------------------------------------------------------------------------
(* The messages that start a controller *)

LEMMA StartScriptFacts ==
    /\ Len(StartScript) = 3 /\ Down!Numbers = 1 .. 3
    /\ StartScript[1].opcode = "DhtType"
    /\ StartScript[2].opcode = "Profile"
    /\ StartScript[3].opcode = "Start"
    /\ Sizes(StartScript) \in [1 .. 3 -> Nat]
    /\ Begins(Offsets(StartScript), Sizes(StartScript), 3)
    /\ StartBuffer \in Nat
    /\ \A m \in 1 .. 3 :
          /\ StartScript[m].bodySize \in Nat
          /\ Down!Size(m) = 2 + StartScript[m].bodySize
          /\ Sizes(StartScript)[m] = Down!Size(m)
  <1>1. StartScript \in Seq([opcode : STRING, bodySize : Nat])
    BY ConnectionAssumption
  <1>2. /\ Len(StartScript) \in Nat
        /\ Begins(Offsets(StartScript), Sizes(StartScript), Len(StartScript))
        /\ Sizes(StartScript) \in [1 .. Len(StartScript) -> Nat]
        /\ \A m \in 1 .. Len(StartScript) :
              /\ StartScript[m].bodySize \in Nat
              /\ Sizes(StartScript)[m] = 2 + StartScript[m].bodySize
    BY <1>1, ScriptOffsets
  <1>3. DOMAIN StartScript = 1 .. Len(StartScript)
    BY <1>1, LenProperties
  <1> DEFINE opcodes == [m \in DOMAIN StartScript |-> StartScript[m].opcode]
  <1>4. opcodes = <<"DhtType", "Profile", "Start">>
    BY ConnectionAssumption
  <1>5. DOMAIN opcodes = 1 .. 3
    <2> HIDE DEF opcodes
    <2>1. QED
      BY <1>4
  <1>6. Len(StartScript) = 3
    BY <1>2, <1>3, <1>5
  <1>7. /\ opcodes[1] = "DhtType" /\ opcodes[2] = "Profile"
        /\ opcodes[3] = "Start"
    <2> HIDE DEF opcodes
    <2>1. QED
      BY <1>4
  <1>8. /\ StartScript[1].opcode = "DhtType"
        /\ StartScript[2].opcode = "Profile"
        /\ StartScript[3].opcode = "Start"
    BY <1>3, <1>6, <1>7
  <1>9. \A m \in 1 .. 3 : Down!Size(m) = 2 + StartScript[m].bodySize
    BY DEF Down!Size, Down!HeaderSize
  <1>10. StartBuffer \in Nat
    BY ConnectionAssumption
  <1>11. Down!Numbers = 1 .. 3
    BY <1>6 DEF Down!Numbers
  <1>12. QED
    BY <1>2, <1>6, <1>8, <1>9, <1>10, <1>11

LEMMA StartOffset ==
    ASSUME NEW m \in 1 .. 3
    PROVE  Offsets(StartScript)[m] \in Nat
  BY 3 \in Nat, StartScriptFacts, OffsetsAt

LEMMA StartBits ==
    ASSUME NEW m \in 1 .. 3
    PROVE  /\ Down!ToBits(m) \in Seq(Down!AllCells)
           /\ Len(Down!ToBits(m)) = Down!Size(m)
           /\ \A i \in 1 .. Down!Size(m) : Down!ToBits(m)[i] = <<m, i>>
           /\ Down!Size(m) \in Nat /\ 2 <= Down!Size(m)
           /\ \A i \in DOMAIN Down!ToBits(m) : Down!ToBits(m)[i] # Down!Zero
  <1>1. Down!Size(m) \in Nat /\ 2 <= Down!Size(m) /\ m \in Down!Numbers
    BY StartScriptFacts
  <1>2. \A i \in 1 .. Down!Size(m) : <<m, i>> \in Down!AllCells
    BY <1>1 DEF Down!Cells, Down!AllCells
  <1>3. Down!ToBits(m) = [i \in 1 .. Down!Size(m) |-> <<m, i>>]
    BY DEF Down!ToBits
  <1>4. \A i \in 1 .. Down!Size(m) : <<m, i>> # Down!Zero
    BY DEF Down!Zero
  <1>5. QED
    BY <1>1, <1>2, <1>3, <1>4

\* What a header of two cells says.
LEMMA StartHeaderOf ==
    ASSUME NEW m \in 1 .. 3, NEW h \in Seq(Down!AllCells),
           Len(h) = 2, \A i \in 1 .. 2 : h[i] = <<m, i>>
    PROVE  /\ h = SubSeq(Down!ToBits(m), 1, 2)
           /\ Down!Opcode(h) = StartScript[m].opcode
           /\ Down!BodySizes(h) = {StartScript[m].bodySize}
  <1>1. h[1] = <<m, 1>> /\ h[2] = <<m, 2>> /\ m \in Down!Numbers
    BY StartScriptFacts
  <1>2. PICK b \in Seq(Down!AllCells) : b = Down!ToBits(m)
    BY StartBits
  <1>3. 2 <= Len(b) /\ Len(b) \in Nat /\ \A i \in 1 .. 2 : b[i] = <<m, i>>
    BY <1>2, StartBits
  <1>4. /\ SubSeq(b, 1, 2) \in Seq(Down!AllCells) /\ Len(SubSeq(b, 1, 2)) = 2
        /\ \A i \in 1 .. 2 : SubSeq(b, 1, 2)[i] = b[i]
    BY <1>3
  <1>5. h = SubSeq(b, 1, 2)
    <2>1. PICK u \in Seq(Down!AllCells) : u = SubSeq(b, 1, 2)
      BY <1>4
    <2>2. Len(h) = Len(u)
      BY <1>4, <2>1
    <2>3. \A i \in 1 .. Len(h) : h[i] = u[i]
      BY <1>3, <1>4, <2>1
    <2>4. QED
      BY <2>1, <2>2, <2>3, SeqEqual
  <1>6. Down!Opcode(h) = StartScript[m].opcode
    BY <1>1 DEF Down!Opcode
  <1>7. Down!BodySizes(h) = {StartScript[m].bodySize}
    BY <1>1 DEF Down!BodySizes
  <1>8. QED
    BY <1>2, <1>5, <1>6, <1>7

\* Header and body are the block.
LEMMA StartBlock ==
    ASSUME NEW m \in 1 .. 3, NEW b \in Seq(Down!AllCells),
           Len(b) = StartScript[m].bodySize,
           \A i \in 1 .. Len(b) : b[i] = <<m, 2 + i>>
    PROVE  SubSeq(Down!ToBits(m), 1, 2) \o b = Down!ToBits(m)
  <1>1. PICK t \in Seq(Down!AllCells) : t = Down!ToBits(m)
    BY StartBits
  <1>2. /\ Len(t) = 2 + Len(b) /\ Len(b) \in Nat
        /\ \A i \in 1 .. Len(t) : t[i] = <<m, i>>
    BY <1>1, StartBits, StartScriptFacts
  <1>3. /\ SubSeq(t, 1, 2) \in Seq(Down!AllCells) /\ Len(SubSeq(t, 1, 2)) = 2
        /\ \A i \in 1 .. 2 : SubSeq(t, 1, 2)[i] = t[i]
    BY <1>2
  <1>4. PICK h \in Seq(Down!AllCells) : h = SubSeq(t, 1, 2)
    BY <1>3
  <1>5. /\ h \o b \in Seq(Down!AllCells) /\ Len(h \o b) = 2 + Len(b)
        /\ \A i \in 1 .. 2 + Len(b) :
              (h \o b)[i] = IF i <= 2 THEN h[i] ELSE b[i - 2]
    BY <1>3, <1>4, ConcatProperties
  <1>6. ASSUME NEW i \in 1 .. 2 + Len(b) PROVE (h \o b)[i] = t[i]
    <2>1. t[i] = <<m, i>>
      BY <1>2
    <2>2. CASE i <= 2
      <3>1. i \in 1 .. 2
        BY <1>2, <2>2
      <3>2. QED
        BY <1>3, <1>4, <1>5, <2>2, <3>1
    <2>3. CASE ~(i <= 2)
      <3>1. i - 2 \in 1 .. Len(b) /\ 2 + (i - 2) = i
        BY <1>2, <2>3
      <3>2. b[i - 2] = <<m, i>>
        BY <3>1
      <3>3. QED
        BY <1>5, <2>1, <2>3, <3>2
    <2>4. QED
      BY <2>2, <2>3
  <1>7. h \o b = t
    BY <1>2, <1>5, <1>6, SeqEqual
  <1>8. QED
    BY <1>1, <1>4, <1>7

LEMMA StartAt ==
    ASSUME StartInvariant
    PROVE  /\ arrived \in Seq(Down!AllCells) /\ sending \in Seq(Down!AllCells)
           /\ Len(arrived) \in Nat /\ Len(sending) \in Nat
           /\ Len(sending) + Len(arrived) <= StartBuffer
           /\ arrived \o sending \in Seq(Down!AllCells)
           /\ Len(arrived \o sending) = Len(arrived) + Len(sending)
           /\ sent \in 0 .. 3
           /\ \A m \in 1 .. 3 : /\ taken[m] \in 0 .. Down!Size(m)
                                /\ Down!Size(m) \in Nat
                                /\ sent < m => taken[m] = 0
           /\ taken \in [1 .. 3 -> Nat]
           /\ Len(received) \in 0 .. 3
  <1>1. arrived \in Seq(Down!AllCells) /\ sending \in Seq(Down!AllCells)
    BY DEF StartInvariant, Down!TypeOK
  <1>2. Len(arrived) \in Nat /\ Len(sending) \in Nat
    BY <1>1, LenProperties
  <1>3. /\ arrived \o sending \in Seq(Down!AllCells)
        /\ Len(arrived \o sending) = Len(arrived) + Len(sending)
    BY <1>1, ConcatProperties
  <1>4. /\ sent \in 0 .. 3 /\ taken \in [1 .. 3 -> Nat]
        /\ \A m \in 1 .. 3 : taken[m] <= IF m <= sent THEN Down!Size(m) ELSE 0
        /\ Len(sending) + Len(arrived) <= StartBuffer
    BY StartScriptFacts DEF StartInvariant, Down!TypeOK
  <1>5. ASSUME NEW m \in 1 .. 3
        PROVE  /\ taken[m] \in 0 .. Down!Size(m)
               /\ Down!Size(m) \in Nat
               /\ sent < m => taken[m] = 0
    <2>1. Down!Size(m) \in Nat
      BY StartBits
    <2>2. taken[m] \in Nat /\ taken[m] <= IF m <= sent THEN Down!Size(m) ELSE 0
      BY <1>4
    <2>3. m \in Nat /\ sent \in Nat
      BY <1>4
    <2>4. QED
      BY <2>1, <2>2, <2>3
  <1>6. Len(received) \in 0 .. 3
    <2>1. Len(received) \in Nat
      BY LenProperties DEF StartInvariant, Down!TypeOK
    <2>2. PICK l \in Nat : l = Len(received)
      BY <2>1
    <2>3. l <= 3
      BY <2>2 DEF StartInvariant, GetInvariant
    <2>4. QED
      BY <2>2, <2>3
  <1>7. QED
    BY <1>1, <1>2, <1>3, <1>4, <1>5, <1>6

\* Where the next block begins.
LEMMA SentUpTo ==
    ASSUME StartInvariant
    PROVE  /\ SentPlace \in Nat
           /\ sent < 3 => SentPlace = Offsets(StartScript)[sent + 1]
  <1>1. /\ sent \in 0 .. 3
        /\ \A m \in 1 .. 3 : taken[m] \in 0 .. Down!Size(m)
    BY StartAt, Zenon
  <1>2. /\ Sizes(StartScript) \in [1 .. 3 -> Nat]
        /\ Begins(Offsets(StartScript), Sizes(StartScript), 3)
        /\ \A m \in 1 .. 3 : Sizes(StartScript)[m] = Down!Size(m)
    BY StartScriptFacts
  <1>3. CASE sent = 0
    <2>1. Offsets(StartScript)[1] = 0
      BY <1>2 DEF Begins
    <2>2. QED
      BY <1>3, <2>1 DEF SentPlace
  <1>4. CASE sent # 0
    <2>1. sent \in 1 .. 3
      BY <1>1, <1>4
    <2>2. /\ Offsets(StartScript)[sent] \in Nat
          /\ Offsets(StartScript)[sent + 1] =
                Offsets(StartScript)[sent] + Sizes(StartScript)[sent]
      BY <1>2, <2>1, 3 \in Nat, OffsetsAt
    <2>3. SentPlace = Offsets(StartScript)[sent] + taken[sent]
      BY <1>4 DEF SentPlace
    <2>4. taken[sent] \in Nat
      BY <1>1, <2>1, StartBits
    <2>5. SentPlace \in Nat
      BY <2>2, <2>3, <2>4
    <2>6. ASSUME sent < 3 PROVE SentPlace = Offsets(StartScript)[sent + 1]
      <3>1. sent \in {1, 2}
        BY <2>1, <2>6
      <3>2. taken[sent] = Sizes(StartScript)[sent]
        BY <1>2, <2>1, <3>1 DEF StartInvariant, BufferInvariant
      <3>3. QED
        BY <2>2, <2>3, <3>2
    <2>7. QED
      BY <2>5, <2>6
  <1>5. QED
    BY <1>3, <1>4

\* What has cells under way has been begun.
LEMMA SentBefore ==
    ASSUME StartInvariant, NEW x \in 1 .. 3,
           Offsets(StartScript)[x] < SentPlace
    PROVE  x <= sent
  <1>1. SUFFICES ASSUME sent < x PROVE FALSE
    BY StartAt
  <1>2. sent \in 0 .. 3
    BY StartAt, Zenon
  <1>3. sent < 3 /\ sent + 1 \in 1 .. 3 /\ x \in 1 .. 3 + 1
    BY <1>1, <1>2
  <1>4. SentPlace = Offsets(StartScript)[sent + 1] /\ SentPlace \in Nat
    BY <1>3, SentUpTo
  <1>5. /\ Sizes(StartScript) \in [1 .. 3 -> Nat]
        /\ Begins(Offsets(StartScript), Sizes(StartScript), 3)
    BY StartScriptFacts
  <1>6. CASE x = sent + 1
    BY <1>4, <1>6
  <1>7. CASE x # sent + 1
    <2>1. sent + 1 < x
      BY <1>1, <1>2, <1>7
    <2>2. Offsets(StartScript)[sent + 1] + Sizes(StartScript)[sent + 1] <=
             Offsets(StartScript)[x]
      BY <1>3, <1>5, <2>1, OffsetsGrow
    <2>3. Sizes(StartScript)[sent + 1] \in Nat /\ Offsets(StartScript)[x] \in Nat
      BY <1>3, <1>5, OffsetsAt
    <2>4. QED
      BY <1>4, <2>2, <2>3
  <1>8. QED
    BY <1>6, <1>7

\* A part of a block goes to the kernel.
LEMMA PieceSent ==
    ASSUME StartInvariant, NEW m \in 1 .. 3, NEW k \in Nat, NEW n \in Nat,
           k + n <= Down!Size(m),
           n <= StartBuffer - Len(sending) - Len(arrived),
           SentPlace = Offsets(StartScript)[m] + k,
           sending' = sending \o SubSeq(Down!ToBits(m), k + 1, k + n),
           arrived' = arrived
    PROVE  /\ sending' \in Seq(Down!AllCells)
           /\ Len(sending') = Len(sending) + n
           /\ Len(sending') + Len(arrived') <= StartBuffer
           /\ \A from \in Nat :
                 Carries(Offsets(StartScript), Sizes(StartScript),
                         arrived \o sending, from, SentPlace) =>
                    Carries(Offsets(StartScript), Sizes(StartScript),
                            arrived' \o sending', from, SentPlace + n)
  <1>1. PICK b \in Seq(Down!AllCells) : b = Down!ToBits(m)
    BY StartBits
  <1>2. /\ Len(b) = Down!Size(m) /\ Len(b) \in Nat
        /\ \A i \in 1 .. Len(b) : b[i] = <<m, i>>
    BY <1>1, StartBits
  <1>3. k + n <= Len(b)
    BY <1>2
  <1>4. /\ SubSeq(b, k + 1, k + n) \in Seq(Down!AllCells)
        /\ Len(SubSeq(b, k + 1, k + n)) = n
        /\ \A i \in 1 .. n : SubSeq(b, k + 1, k + n)[i] = b[k + i]
    BY <1>2, <1>3
  <1>5. PICK p \in Seq(Down!AllCells) : p = SubSeq(b, k + 1, k + n)
    BY <1>4
  <1>6. Len(p) = n /\ \A i \in 1 .. Len(p) : p[i] = <<m, k + i>>
    <2>1. ASSUME NEW i \in 1 .. n PROVE p[i] = <<m, k + i>>
      <3>1. k + i \in 1 .. Len(b)
        BY <1>2, <1>3
      <3>2. QED
        BY <1>2, <1>4, <1>5, <3>1
    <2>2. QED
      BY <1>4, <1>5, <2>1
  <1>7. sending' = sending \o p
    BY <1>1, <1>5
  <1>8. /\ arrived \in Seq(Down!AllCells) /\ sending \in Seq(Down!AllCells)
        /\ Len(arrived) \in Nat /\ Len(sending) \in Nat
        /\ arrived \o sending \in Seq(Down!AllCells)
    BY StartAt, Zenon
  <1>9. /\ sending' \in Seq(Down!AllCells)
        /\ Len(sending') = Len(sending) + n
    BY <1>6, <1>7, <1>8, ConcatProperties
  <1>10. Len(sending') + Len(arrived') <= StartBuffer
    <2>1. StartBuffer \in Nat
      BY StartScriptFacts
    <2>2. QED
      BY <1>8, <1>9, <2>1
  <1>11. arrived' \o sending' = (arrived \o sending) \o p
    <2>1. (arrived \o sending) \o p = arrived \o (sending \o p)
      <3>1. Joined(arrived, sending, p)
        BY <1>8, QueueJoined
      <3>2. QED
        BY <3>1 DEF Joined
    <2>2. QED
      BY <1>7, <2>1
  <1>12. /\ Sizes(StartScript) \in [1 .. 3 -> Nat]
         /\ Begins(Offsets(StartScript), Sizes(StartScript), 3)
         /\ SentPlace \in Nat
         /\ Sizes(StartScript)[m] = Down!Size(m)
    BY StartScriptFacts, SentUpTo
  <1>13. k + Len(p) <= Sizes(StartScript)[m] /\ 3 \in Nat
    BY <1>6, <1>12
  <1>14. ASSUME NEW from \in Nat,
                Carries(Offsets(StartScript), Sizes(StartScript),
                        arrived \o sending, from, SentPlace)
         PROVE  Carries(Offsets(StartScript), Sizes(StartScript),
                        arrived' \o sending', from, SentPlace + n)
    <2>1. Carries(Offsets(StartScript), Sizes(StartScript),
                  (arrived \o sending) \o p, from, SentPlace + Len(p))
      BY <1>6, <1>8, <1>12, <1>13, <1>14, Written, Zenon
    <2>2. QED
      BY <1>6, <1>11, <2>1, Zenon
  <1>15. QED
    BY <1>9, <1>10, <1>14

StartFifoStep == [Down!Fifo!Next]_(Down!Fifo!fifoVars)

\* The kernel takes no more than it is given, and no more than it has room for.
LEMMA TakenAtOnce ==
    ASSUME StartInvariant, NEW l \in Nat
    PROVE  /\ Down!Taken(l) \in 0 .. l
           /\ Down!Taken(l) <= StartBuffer - Len(sending) - Len(arrived)
           /\ l <= StartBuffer - Len(sending) - Len(arrived) =>
                 Down!Taken(l) = l
  <1> DEFINE room == StartBuffer - Len(sending) - Len(arrived)
  <1>1. room \in Nat
    BY StartAt, StartScriptFacts
  <1>2. Down!Taken(l) = IF l < room THEN l ELSE room
    BY DEF Down!Taken
  <1> HIDE DEF room
  <1>3. /\ Down!Taken(l) \in 0 .. l /\ Down!Taken(l) <= room
        /\ l <= room => Down!Taken(l) = l
    BY <1>1, <1>2
  <1>4. QED
    BY <1>3 DEF room

\* While the master is up, the controller has whole blocks.
LEMMA WholeWhileUp ==
    ASSUME StartInvariant, master = "up"
    PROVE  /\ ~Down!GotLast
           /\ \A k \in 1 .. Len(received) : received[k] = Down!ToBits(k)
  <1>1. ~Down!GotLast
    BY DEF Down!GotLast, Down!CutShort
  <1>2. QED
    BY <1>1 DEF StartInvariant, GetInvariant

\* Then a step that leaves the reader alone leaves what it has unchanged.
LEMMA SameWhileUp ==
    ASSUME StartInvariant, master = "up", master' \in {"up", "down"},
           UNCHANGED <<controller, header, received>>
    PROVE  /\ ~Down!GotLast' /\ ~Down!GotLast
           /\ Down!Waiting' = Down!Waiting
  <1>1. ~Down!GotLast /\ \A k \in 1 .. Len(received) :
                            received[k] = Down!ToBits(k)
    BY WholeWhileUp
  <1>2. ASSUME Down!GotLast' PROVE FALSE
    <2>1. /\ received # <<>>
          /\ \E i \in DOMAIN received[Len(received)] :
                received[Len(received)][i] = Down!Zero
      BY <1>2 DEF Down!GotLast, Down!CutShort, Down!Zero
    <2>2. Len(received) \in 1 .. 3
      <3>1. Len(received) # 0
        BY <2>1, EmptySeq DEF StartInvariant, Down!TypeOK
      <3>2. QED
        BY <3>1, StartAt
    <2>3. received[Len(received)] = Down!ToBits(Len(received))
      BY <1>1, <2>2
    <2>4. QED
      BY <2>1, <2>2, <2>3, StartBits
  <1>3. Down!Waiting' = Down!Waiting
    BY DEF Down!Waiting
  <1>4. QED
    BY <1>1, <1>2, <1>3

\* The master's part of a step that sends n cells of block m.
LEMMA CellsSent ==
    ASSUME StartInvariant, master = "up", master' = "up",
           NEW m \in 1 .. 3, NEW k \in Nat, NEW n \in Nat,
           k + n <= Down!Size(m),
           n <= StartBuffer - Len(sending) - Len(arrived),
           SentPlace = Offsets(StartScript)[m] + k,
           sending' = sending \o SubSeq(Down!ToBits(m), k + 1, k + n),
           SentPlace' = SentPlace + n,
           UNCHANGED <<arrived, controller, header, received>>
    PROVE  GetInvariant'
  <1>1. /\ ~Down!GotLast' /\ ~Down!GotLast /\ Down!Waiting' = Down!Waiting
    BY SameWhileUp
  <1>2. \A from \in Nat :
           Carries(Offsets(StartScript), Sizes(StartScript),
                   arrived \o sending, from, SentPlace) =>
              Carries(Offsets(StartScript), Sizes(StartScript),
                      arrived' \o sending', from, SentPlace + n)
    BY PieceSent
  <1>3. Len(received) <= 3 /\ \A i \in 1 .. Len(received) :
                                 received[i] = Down!ToBits(i)
    <2>1. Len(received) <= 3
      BY DEF StartInvariant, GetInvariant
    <2>2. QED
      BY <2>1, WholeWhileUp
  <1>4. ASSUME Down!Waiting
        PROVE  /\ Len(received) < 3
               /\ controller = StartScript[Len(received) + 1].opcode
               /\ header # <<>> =>
                     header = SubSeq(Down!ToBits(Len(received) + 1), 1, 2)
               /\ Carries(Offsets(StartScript), Sizes(StartScript),
                          arrived' \o sending',
                          Offsets(StartScript)[Len(received) + 1] + Len(header),
                          SentPlace + n)
    <2>1. /\ Len(received) < 3
          /\ controller = StartScript[Len(received) + 1].opcode
          /\ header # <<>> =>
                header = SubSeq(Down!ToBits(Len(received) + 1), 1, 2)
          /\ Carries(Offsets(StartScript), Sizes(StartScript),
                     arrived \o sending,
                     Offsets(StartScript)[Len(received) + 1] + Len(header),
                     SentPlace)
      BY <1>1, <1>4, Zenon DEF StartInvariant, GetInvariant
    <2>2. Offsets(StartScript)[Len(received) + 1] + Len(header) \in Nat
      <3>1. PICK l \in 1 .. 3 : l = Len(received) + 1
        <4>1. Len(received) \in 0 .. 3
          BY StartAt, Zenon
        <4>2. Len(received) < 3
          BY <2>1
        <4>3. QED
          BY <4>1, <4>2
      <3>2. Offsets(StartScript)[l] \in Nat
        BY 3 \in Nat, StartScriptFacts, OffsetsAt
      <3>3. Len(header) \in Nat
        BY DEF StartInvariant, Down!TypeOK, Down!HeaderSize
      <3>4. QED
        BY <3>1, <3>2, <3>3
    <2>3. QED
      BY <1>2, <2>1, <2>2, Zenon
  <1>5. QED
    BY <1>1, <1>3, <1>4, Zenon DEF GetInvariant

LEMMA StartMessageSent ==
    ASSUME StartInvariant, Down!SendMessage,
           Down!Size(1) + Down!Size(2) <= StartBuffer
    PROVE  StartInvariant' /\ StartFifoStep
  <1> DEFINE n == Down!Taken(Down!Size(sent'))
  <1>1. /\ master = "up" /\ sent < Len(StartScript)
        /\ sent' = sent + 1
        /\ taken' = [taken EXCEPT ![sent'] = n]
        /\ sending' = sending \o SubSeq(Down!ToBits(sent'), 1, n)
        /\ UNCHANGED <<arrived, master, controller, header, received>>
    BY DEF Down!SendMessage
  <1>2. PICK m \in 1 .. 3 : /\ m = sent' /\ sent = m - 1 /\ sent \in 0 .. 2
                            /\ sent + 1 = m /\ sent < 3
    <2>1. sent \in 0 .. 3
      BY StartAt, Zenon
    <2>2. sent < 3
      BY <1>1, StartScriptFacts
    <2>3. QED
      BY <1>1, <2>1, <2>2
  <1>3. Down!Size(m) \in Nat
    BY StartBits
  <1>4. /\ n \in 0 .. Down!Size(m)
        /\ n <= StartBuffer - Len(sending) - Len(arrived)
        /\ Down!Size(m) <= StartBuffer - Len(sending) - Len(arrived) =>
              n = Down!Size(m)
    BY <1>2, <1>3, TakenAtOnce
  <1> HIDE DEF n
  <1>5. /\ Len(sending) \in Nat /\ Len(arrived) \in Nat /\ StartBuffer \in Nat
        /\ Down!Size(1) \in Nat /\ Down!Size(2) \in Nat
    BY StartAt, StartBits, StartScriptFacts
  <1>6. /\ m = 1 => Len(sending) = 0 /\ Len(arrived) = 0
        /\ m = 2 => Len(sending) + Len(arrived) <= Down!Size(1)
    BY <1>2, EmptySeq DEF StartInvariant, BufferInvariant
  <1>7. m \in {1, 2} => n = Down!Size(m)
    <2>1. CASE m = 1
      BY <1>4, <1>5, <1>6, <2>1
    <2>2. CASE m = 2
      BY <1>4, <1>5, <1>6, <2>2
    <2>3. QED
      BY <2>1, <2>2
  <1>8. taken \in [1 .. 3 -> Nat] /\ n \in Nat
    <2>1. taken \in [1 .. 3 -> Nat]
      BY StartAt, Zenon
    <2>2. QED
      BY <1>3, <1>4, <2>1
  <1>9. taken' = [taken EXCEPT ![m] = n] /\ taken'[m] = n
    BY <1>1, <1>2, <1>8
  <1>10. /\ SentPlace \in Nat
         /\ SentPlace = Offsets(StartScript)[m] + 0
         /\ SentPlace' = SentPlace + n
    <2>1. SentPlace \in Nat /\ SentPlace = Offsets(StartScript)[m]
      <3>1. sent < 3 /\ sent + 1 = m
        BY <1>2, Zenon
      <3>2. QED
        BY <3>1, SentUpTo
    <2>2. SentPlace' = Offsets(StartScript)[m] + n
      <3>1. sent' # 0
        BY <1>2
      <3>2. SentPlace' = Offsets(StartScript)[sent'] + taken'[sent']
        BY <3>1 DEF SentPlace
      <3>3. QED
        BY <1>2, <1>9, <3>2
    <2>3. QED
      BY <2>1, <2>2
  <1>11. /\ sending' = sending \o SubSeq(Down!ToBits(m), 0 + 1, 0 + n)
         /\ 0 + n <= Down!Size(m)
    BY <1>1, <1>2, <1>3, <1>4
  <1>12. /\ sending' \in Seq(Down!AllCells)
         /\ Len(sending') = Len(sending) + n
         /\ Len(sending') + Len(arrived') <= StartBuffer
    BY <1>1, <1>4, <1>8, <1>10, <1>11, PieceSent
  <1>13. GetInvariant'
    BY <1>1, <1>4, <1>8, <1>10, <1>11, CellsSent
  <1>14. BufferInvariant'
    <2>1. ASSUME NEW x \in {1, 2}, x <= sent' PROVE taken'[x] = Down!Size(x)
      <3>1. CASE x = m
        BY <1>7, <1>9, <3>1
      <3>2. CASE x # m
        <4>1. x <= sent
          <5>1. x \in Nat /\ m \in Nat /\ x <= m /\ x # m /\ sent = m - 1
            BY <1>2, <2>1, <3>2
          <5>2. QED
            BY <5>1
        <4>2. taken[x] = Down!Size(x)
          BY <4>1 DEF StartInvariant, BufferInvariant
        <4>3. QED
          BY <1>8, <1>9, <3>2, <4>2
      <3>3. QED
        BY <3>1, <3>2
    <2>2. sent' # 0
      BY <1>2
    <2>3. sent' = 1 => Len(sending') + Len(arrived') <= Down!Size(1)
      BY <1>1, <1>2, <1>5, <1>6, <1>7, <1>12
    <2>4. QED
      BY <2>1, <2>2, <2>3 DEF BufferInvariant
  <1>15. Down!TypeOK'
    <2>1. taken' \in [1 .. 3 -> Nat]
      BY <1>8, <1>9
    <2>2. ASSUME NEW x \in 1 .. 3
          PROVE  taken'[x] <= IF x <= sent' THEN Down!Size(x) ELSE 0
      <3>1. CASE x = m
        BY <1>2, <1>3, <1>4, <1>9, <3>1
      <3>2. CASE x # m
        <4>1. taken'[x] = taken[x]
          BY <1>8, <1>9, <3>2
        <4>2. taken[x] \in 0 .. Down!Size(x) /\ (sent < x => taken[x] = 0)
          BY StartAt, Zenon
        <4>3. Down!Size(x) \in Nat
          BY StartBits
        <4>4. QED
          <5>1. x \in Nat /\ m \in Nat /\ x # m /\ sent = m - 1 /\ sent' = m
            BY <1>2, <3>2
          <5>2. CASE x < m
            BY <4>1, <4>2, <4>3, <5>1, <5>2
          <5>3. CASE ~(x < m)
            <6>1. sent < x /\ ~(x <= sent')
              BY <5>1, <5>3
            <6>2. QED
              BY <4>1, <4>2, <6>1
          <5>4. QED
            BY <5>2, <5>3
      <3>3. QED
        BY <3>1, <3>2
    <2>3. sent' \in 0 .. 3
      BY <1>2
    <2>4. QED
      BY <1>1, <1>12, <2>1, <2>2, <2>3, StartScriptFacts
         DEF StartInvariant, Down!TypeOK
  <1>16. StartFifoStep
    <2>1. ~Down!GotLast' /\ ~Down!GotLast /\ Down!Waiting' = Down!Waiting
      BY <1>1, SameWhileUp
    <2>2. QED
      BY <1>1, <2>1 DEF StartFifoStep, Down!Fifo!Next, Down!Fifo!Send
  <1>17. QED
    BY <1>13, <1>14, <1>15, <1>16 DEF StartInvariant

\* Only the last block is written in more than one piece, and from its own
\* memory.
LEMMA StartWrittenOn ==
    ASSUME StartInvariant, NEW m \in Down!Numbers, Down!WriteMore(m)
    PROVE  StartInvariant' /\ StartFifoStep
  <1> DEFINE n == Down!Taken(Down!Size(m) - taken[m])
  <1>1. /\ master = "up" /\ m <= sent /\ taken[m] < Down!Size(m)
        /\ taken' = [taken EXCEPT ![m] = taken[m] + n]
        /\ UNCHANGED <<arrived, master, sent, controller, header, received>>
    BY DEF Down!WriteMore
  <1>2. m \in 1 .. 3 /\ sent \in 0 .. 3
    BY StartScriptFacts, StartAt
  <1>3. m = 3 /\ sent = 3
    <2>1. m \notin {1, 2}
      <3>1. SUFFICES ASSUME m \in {1, 2} PROVE FALSE
        OBVIOUS
      <3>2. taken[m] = Down!Size(m) /\ Down!Size(m) \in Nat
        BY <1>1, <1>2, <3>1, StartBits DEF StartInvariant, BufferInvariant
      <3>3. QED
        BY <1>1, <3>2
    <2>2. m = 3
      BY <1>2, <2>1
    <2>3. QED
      BY <1>1, <1>2, <2>2
  <1>4. /\ Down!Size(3) \in Nat /\ taken[3] \in Nat
        /\ taken \in [1 .. 3 -> Nat]
        /\ Down!Size(3) - taken[3] \in Nat
    <2>1. Down!Size(3) \in Nat
      BY StartBits
    <2>2. taken \in [1 .. 3 -> Nat]
      BY StartAt, Zenon
    <2>3. taken[3] \in Nat
      BY <2>2
    <2>4. taken[3] < Down!Size(3)
      BY <1>1, <1>3
    <2>5. QED
      BY <2>1, <2>2, <2>3, <2>4
  <1>5. sending' = sending \o SubSeq(Down!ToBits(3), taken[3] + 1, taken[3] + n)
    BY <1>3 DEF Down!WriteMore, Down!Memory
  <1>6. /\ n \in 0 .. Down!Size(3) - taken[3]
        /\ n <= StartBuffer - Len(sending) - Len(arrived)
    BY <1>3, <1>4, TakenAtOnce
  <1> HIDE DEF n
  <1>7. n \in Nat /\ taken[3] + n <= Down!Size(3)
    BY <1>4, <1>6
  <1>8. taken' = [taken EXCEPT ![3] = taken[3] + n] /\ taken'[3] = taken[3] + n
    BY <1>1, <1>3, <1>4
  <1>9. /\ SentPlace = Offsets(StartScript)[3] + taken[3]
        /\ SentPlace' = SentPlace + n
    <2>1. Offsets(StartScript)[3] \in Nat
      BY StartOffset
    <2>2. SentPlace = Offsets(StartScript)[3] + taken[3]
      BY <1>3 DEF SentPlace
    <2>3. SentPlace' = Offsets(StartScript)[3] + (taken[3] + n)
      BY <1>1, <1>3, <1>8 DEF SentPlace
    <2>4. QED
      BY <1>4, <1>7, <2>1, <2>2, <2>3
  <1>10. /\ sending' \in Seq(Down!AllCells)
         /\ Len(sending') + Len(arrived') <= StartBuffer
    <2>1. 3 \in 1 .. 3
      OBVIOUS
    <2>2. QED
      BY <1>1, <1>4, <1>5, <1>6, <1>7, <1>9, <2>1, PieceSent
  <1>11. GetInvariant'
    <2>1. 3 \in 1 .. 3 /\ master' = "up"
      BY <1>1
    <2>2. QED
      BY <1>1, <1>4, <1>5, <1>6, <1>7, <1>9, <2>1, CellsSent
  <1>12. BufferInvariant'
    <2>1. \A x \in {1, 2} : taken'[x] = taken[x]
      BY <1>4, <1>8
    <2>2. \A x \in {1, 2} : x <= sent => taken[x] = Down!Size(x)
      BY DEF StartInvariant, BufferInvariant
    <2>3. QED
      BY <1>1, <1>3, <2>1, <2>2 DEF BufferInvariant
  <1>13. Down!TypeOK'
    <2>1. taken' \in [1 .. 3 -> Nat]
      BY <1>4, <1>7, <1>8
    <2>2. ASSUME NEW x \in 1 .. 3
          PROVE  taken'[x] <= IF x <= sent' THEN Down!Size(x) ELSE 0
      <3>1. x <= sent'
        BY <1>1, <1>3
      <3>2. CASE x = 3
        BY <1>7, <1>8, <3>1, <3>2
      <3>3. CASE x # 3
        <4>1. taken'[x] = taken[x]
          BY <1>4, <1>8, <3>3
        <4>2. taken[x] \in 0 .. Down!Size(x)
          BY StartAt, Zenon
        <4>3. QED
          BY <3>1, <4>1, <4>2, StartBits
      <3>4. QED
        BY <3>2, <3>3
    <2>3. QED
      BY <1>1, <1>10, <2>1, <2>2, StartScriptFacts
         DEF StartInvariant, Down!TypeOK
  <1>14. StartFifoStep
    <2>1. ~Down!GotLast' /\ ~Down!GotLast /\ Down!Waiting' = Down!Waiting
      BY <1>1, SameWhileUp
    <2>2. QED
      BY <1>1, <2>1 DEF StartFifoStep, Down!Fifo!fifoVars
  <1>15. QED
    BY <1>11, <1>12, <1>13, <1>14 DEF StartInvariant

LEMMA StartMasterDies ==
    ASSUME StartInvariant, Down!Die
    PROVE  StartInvariant' /\ StartFifoStep
  <1>1. /\ master = "up" /\ master' = "down"
        /\ UNCHANGED <<sending, arrived, sent, taken, controller, header,
                       received>>
    BY DEF Down!Die
  <1>2. ~Down!GotLast' /\ ~Down!GotLast /\ Down!Waiting' = Down!Waiting
    BY <1>1, SameWhileUp
  <1>3. Down!TypeOK' /\ BufferInvariant'
    BY <1>1 DEF StartInvariant, Down!TypeOK, BufferInvariant
  <1>4. SentPlace' = SentPlace
    BY <1>1 DEF SentPlace
  <1>5. GetInvariant'
    BY <1>1, <1>2, <1>4 DEF StartInvariant, GetInvariant
  <1>6. StartFifoStep
    BY <1>1, <1>2 DEF StartFifoStep, Down!Fifo!fifoVars
  <1>7. QED
    BY <1>3, <1>5, <1>6 DEF StartInvariant

LEMMA StartCarriedOn ==
    ASSUME StartInvariant, Down!Carry
    PROVE  StartInvariant' /\ StartFifoStep
  <1>1. /\ arrived \in Seq(Down!AllCells) /\ sending \in Seq(Down!AllCells)
        /\ sending # <<>>
        /\ arrived' = Append(arrived, Head(sending))
        /\ sending' = Tail(sending)
        /\ UNCHANGED <<master, sent, taken, controller, header, received>>
    BY StartAt DEF Down!Carry, Down!Transfer
  <1>2. /\ arrived' \in Seq(Down!AllCells) /\ sending' \in Seq(Down!AllCells)
        /\ Len(arrived') + Len(sending') = Len(arrived) + Len(sending)
        /\ arrived' \o sending' = arrived \o sending
    BY <1>1, QueueCarried
  <1>3. Len(sending') + Len(arrived') = Len(sending) + Len(arrived)
    <2>1. /\ Len(arrived) \in Nat /\ Len(sending) \in Nat
          /\ Len(arrived') \in Nat /\ Len(sending') \in Nat
      BY <1>1, <1>2, LenProperties
    <2>2. Len(arrived') + Len(sending') = Len(arrived) + Len(sending)
      BY <1>2
    <2>3. QED
      BY <2>1, <2>2
  <1>4. Down!TypeOK'
    BY <1>1, <1>2, <1>3 DEF StartInvariant, Down!TypeOK
  <1>5. BufferInvariant'
    BY <1>1, <1>3 DEF StartInvariant, BufferInvariant
  <1>6. /\ SentPlace' = SentPlace /\ Down!GotLast' = Down!GotLast
        /\ Down!Waiting' = Down!Waiting
    BY <1>1 DEF SentPlace, Down!GotLast, Down!CutShort, Down!Zero, Down!Waiting
  <1>7. GetInvariant'
    BY <1>1, <1>2, <1>6, Zenon DEF StartInvariant, GetInvariant
  <1>8. StartFifoStep
    BY <1>1, <1>6 DEF StartFifoStep, Down!Fifo!fifoVars
  <1>9. QED
    BY <1>4, <1>5, <1>7, <1>8 DEF StartInvariant

\* The first c cells that have arrived follow the k first of the next message.
StartGets(k, c) ==
    /\ Len(received) + 1 \in 1 .. 3
    /\ Len(received) < sent
    /\ SubSeq(arrived, 1, c) \in Seq(Down!AllCells)
    /\ Len(SubSeq(arrived, 1, c)) = c
    /\ \A i \in 1 .. c : SubSeq(arrived, 1, c)[i] = <<Len(received) + 1, k + i>>
    /\ SubSeq(arrived, c + 1, Len(arrived)) \in Seq(Down!AllCells)
    /\ Len(SubSeq(arrived, c + 1, Len(arrived))) = Len(arrived) - c
    /\ Carries(Offsets(StartScript), Sizes(StartScript),
               SubSeq(arrived, c + 1, Len(arrived)) \o sending,
               (Offsets(StartScript)[Len(received) + 1] + k) + c, SentPlace)

LEMMA StartRead ==
    ASSUME StartInvariant, Down!Waiting, ~Down!GotLast,
           NEW k \in Nat, NEW c \in 0 .. Len(arrived), Len(header) = k,
           0 < k + c, k + c <= Down!Size(Len(received) + 1)
    PROVE  StartGets(k, c)
  <1> DEFINE q == arrived \o sending
             rest == SubSeq(arrived, c + 1, Len(arrived))
             off == Offsets(StartScript)
             size == Sizes(StartScript)
  <1>1. PICK m \in 1 .. 3 : m = Len(received) + 1 /\ Len(received) = m - 1
    <2>1. Len(received) \in 0 .. 3
      BY StartAt, Zenon
    <2>2. Len(received) < 3
      BY DEF StartInvariant, GetInvariant
    <2>3. QED
      BY <2>1, <2>2
  <1>2. off[m] \in Nat /\ SentPlace \in Nat
    BY StartOffset, SentUpTo
  <1>3. PICK from \in Nat : from = off[m] + k
    BY <1>2
  <1>4. Carries(off, size, q, from, SentPlace)
    BY <1>1, <1>3, Zenon DEF StartInvariant, GetInvariant
  <1>5. /\ arrived \in Seq(Down!AllCells) /\ sending \in Seq(Down!AllCells)
        /\ Len(arrived) \in Nat /\ Len(sending) \in Nat
        /\ q \in Seq(Down!AllCells) /\ Len(q) = Len(arrived) + Len(sending)
    BY StartAt, Zenon
  <1>6. Len(q) = SentPlace - from
    BY <1>4 DEF Carries
  <1>7. off[m] < SentPlace
    <2>1. Len(q) \in Nat /\ c \in Nat /\ c <= Len(q)
      BY <1>5
    <2>2. Ahead(off[m], k, c, from, SentPlace, Len(q))
      BY <1>2, <1>3, <1>6, <2>1 DEF Ahead
    <2>3. QED
      BY <2>2, WriterAhead, Zenon
  <1>8. Len(received) < sent
    <2>1. m <= sent
      BY <1>7, SentBefore
    <2>2. sent \in 0 .. 3
      BY StartAt, Zenon
    <2>3. QED
      BY <1>1, <2>1, <2>2
  <1>9. /\ SubSeq(arrived, 1, c) \in Seq(Down!AllCells)
        /\ Len(SubSeq(arrived, 1, c)) = c
        /\ rest \in Seq(Down!AllCells)
        /\ Len(rest) = Len(arrived) - c
        /\ rest \o sending = SubSeq(q, c + 1, Len(q))
        /\ \A i \in 1 .. c : SubSeq(arrived, 1, c)[i] = q[i]
        /\ c \in 0 .. Len(q)
    <2>1. ReadFrom(Down!AllCells, arrived, sending, c)
      BY <1>5, QueueRead, Zenon
    <2>2. QED
      BY <2>1, Zenon DEF ReadFrom
  <1>10. /\ size \in [1 .. 3 -> Nat] /\ Begins(off, size, 3)
         /\ size[m] = Down!Size(m) /\ 3 \in Nat
    BY StartScriptFacts
  <1>11. /\ Carries(off, size, SubSeq(q, c + 1, Len(q)), from + c, SentPlace)
         /\ PartOfBlock(off, size, 3, q, from, c)
    BY <1>2, <1>4, <1>5, <1>9, <1>10, TakenOff, Zenon
  <1>12. k + c <= size[m]
    BY <1>1, <1>10
  <1>13. \A i \in 1 .. c : q[i] = <<m, k + i>>
    BY <1>3, <1>11, <1>12, Zenon DEF PartOfBlock
  <1>14. \A i \in 1 .. c : SubSeq(arrived, 1, c)[i] =
                              <<Len(received) + 1, k + i>>
    BY <1>1, <1>9, <1>13, Zenon
  <1>15. Carries(off, size, rest \o sending,
                 (off[Len(received) + 1] + k) + c, SentPlace)
    BY <1>1, <1>3, <1>9, <1>11, Zenon
  <1>16. Len(received) + 1 \in 1 .. 3
    BY <1>1, Zenon
  <1>17. QED
    BY <1>8, <1>9, <1>14, <1>15, <1>16, Zenon DEF StartGets

\* A controller that waits, with something to read, has whole blocks so far.
LEMMA StartReads ==
    ASSUME StartInvariant, Down!Waiting,
           arrived # <<>> \/ sending # <<>> \/ header # <<>>
    PROVE  /\ ~Down!GotLast
           /\ Len(received) + 1 \in 1 .. 3 /\ Len(received) \in 0 .. 2
           /\ \A k \in 1 .. Len(received) : received[k] = Down!ToBits(k)
           /\ controller = StartScript[Len(received) + 1].opcode
           /\ header # <<>> =>
                 header = SubSeq(Down!ToBits(Len(received) + 1), 1, 2)
  <1>1. ~Down!GotLast
    BY DEF StartInvariant, GetInvariant
  <1>2. Len(received) + 1 \in 1 .. 3 /\ Len(received) \in 0 .. 2
    <2>1. Len(received) \in 0 .. 3
      BY StartAt, Zenon
    <2>2. Len(received) < 3
      BY <1>1 DEF StartInvariant, GetInvariant
    <2>3. QED
      BY <2>1, <2>2
  <1>3. /\ controller = StartScript[Len(received) + 1].opcode
        /\ header # <<>> =>
              header = SubSeq(Down!ToBits(Len(received) + 1), 1, 2)
    BY <1>1, Zenon DEF StartInvariant, GetInvariant
  <1>4. \A k \in 1 .. Len(received) : received[k] = Down!ToBits(k)
    BY <1>1 DEF StartInvariant, GetInvariant
  <1>5. QED
    BY <1>1, <1>2, <1>3, <1>4

LEMMA StartHeaderRead ==
    ASSUME StartInvariant, Down!ReadHeader
    PROVE  StartInvariant' /\ StartFifoStep
  <1> DEFINE m == Len(received) + 1
  <1>1. /\ Down!Waiting /\ header = <<>> /\ Len(arrived) >= 2
        /\ arrived' = SubSeq(arrived, 2 + 1, Len(arrived))
        /\ UNCHANGED <<sending, master, sent, taken, received>>
        /\ IF Down!Opcode(SubSeq(arrived, 1, 2)) = controller
           THEN header' = SubSeq(arrived, 1, 2) /\ controller' = controller
           ELSE controller' = "exit" /\ header' = header
    BY DEF Down!ReadHeader, Down!HeaderSize, Down!Read, Down!Unread
  <1>2. /\ 2 \in 0 .. Len(arrived) /\ arrived # <<>>
        /\ Len(arrived) \in Nat /\ Len(sending) \in Nat
    BY <1>1, StartAt
  <1>3. /\ ~Down!GotLast /\ m \in 1 .. 3
        /\ controller = StartScript[m].opcode
    BY <1>1, <1>2, StartReads
  <1>4. StartGets(0, 2)
    <2>1. 0 \in Nat /\ 0 < 0 + 2 /\ Len(header) = 0
      BY <1>1
    <2>2. 0 + 2 <= Down!Size(m)
      BY <1>3, StartBits
    <2>3. QED
      BY <1>1, <1>2, <1>3, <2>1, <2>2, StartRead, Zenon
  <1>5. /\ SubSeq(arrived, 1, 2) \in Seq(Down!AllCells)
        /\ Len(SubSeq(arrived, 1, 2)) = 2
        /\ \A i \in 1 .. 2 : SubSeq(arrived, 1, 2)[i] = <<m, 0 + i>>
        /\ arrived' \in Seq(Down!AllCells)
        /\ Len(arrived') = Len(arrived) - 2
        /\ Carries(Offsets(StartScript), Sizes(StartScript),
                   arrived' \o sending,
                   (Offsets(StartScript)[m] + 0) + 2, SentPlace)
    BY <1>1, <1>4, Zenon DEF StartGets
  <1>6. PICK h \in Seq(Down!AllCells) : h = SubSeq(arrived, 1, 2)
    BY <1>5
  <1>7. Len(h) = 2 /\ \A i \in 1 .. 2 : h[i] = <<m, i>>
    BY <1>5, <1>6
  <1>8. /\ h = SubSeq(Down!ToBits(m), 1, 2)
        /\ Down!Opcode(h) = StartScript[m].opcode
    BY <1>3, <1>7, StartHeaderOf
  <1>9. header' = h /\ controller' = controller
    BY <1>1, <1>3, <1>6, <1>8
  <1>10. SentPlace' = SentPlace /\ Down!GotLast' = Down!GotLast
         /\ Down!Waiting' = Down!Waiting
    BY <1>1, <1>9
       DEF SentPlace, Down!GotLast, Down!CutShort, Down!Zero, Down!Waiting
  <1>11. /\ Len(sending') + Len(arrived') <= Len(sending) + Len(arrived)
         /\ Len(sending) + Len(arrived) <= StartBuffer /\ StartBuffer \in Nat
         /\ Len(sending') + Len(arrived') <= StartBuffer
    <2>1. Len(sending) + Len(arrived) <= StartBuffer /\ StartBuffer \in Nat
      BY StartAt, StartScriptFacts
    <2>2. Len(arrived') = Len(arrived) - 2 /\ sending' = sending
      BY <1>1, <1>5
    <2>3. QED
      BY <1>2, <2>1, <2>2
  <1>12. BufferInvariant'
    <2>1. sent # 0
      BY <1>2 DEF StartInvariant, BufferInvariant
    <2>2. sent = 1 => Len(sending') + Len(arrived') <= Down!Size(1)
      <3>1. sent = 1 => Len(sending) + Len(arrived) <= Down!Size(1)
        BY DEF StartInvariant, BufferInvariant
      <3>2. Down!Size(1) \in Nat /\ Len(arrived') = Len(arrived) - 2
            /\ sending' = sending
        BY <1>1, <1>5, StartBits
      <3>3. QED
        BY <1>2, <3>1, <3>2
    <2>3. QED
      BY <1>1, <2>1, <2>2 DEF StartInvariant, BufferInvariant
  <1>13. Down!TypeOK'
    <2>1. h \in [1 .. 2 -> Down!AllCells]
      BY <1>7, LenProperties
    <2>2. Down!Opcode(h)' = Down!Opcode(h)
      BY DEF Down!Opcode
    <2>3. header' \in [1 .. 2 -> Down!AllCells] /\ Down!Opcode(header') = controller'
      BY <1>3, <1>8, <1>9, <2>1
    <2>4. QED
      BY <1>1, <1>5, <1>9, <1>11, <2>3
         DEF StartInvariant, Down!TypeOK, Down!HeaderSize
  <1>14. GetInvariant'
    <2>1. Len(received) < 3 /\ Len(header') = 2 /\ Len(received) <= 3
      BY <1>3, <1>7, <1>9, StartAt
    <2>2. Offsets(StartScript)[m] + Len(header') =
             (Offsets(StartScript)[m] + 0) + 2
      BY <1>3, <2>1, StartOffset
    <2>3. Carries(Offsets(StartScript), Sizes(StartScript),
                  arrived' \o sending',
                  Offsets(StartScript)[Len(received') + 1] + Len(header'),
                  SentPlace')
      BY <1>1, <1>5, <1>10, <2>2, Zenon
    <2>4. \A k \in 1 .. Len(received) : received[k] = Down!ToBits(k)
      BY <1>1, <1>2, StartReads
    <2>5. QED
      BY <1>1, <1>3, <1>8, <1>9, <1>10, <2>1, <2>3, <2>4, Zenon
         DEF GetInvariant
  <1>15. StartFifoStep
    BY <1>1, <1>10 DEF StartFifoStep, Down!Fifo!fifoVars
  <1>16. QED
    BY <1>12, <1>13, <1>14, <1>15 DEF StartInvariant

LEMMA StartHeaderError ==
    ASSUME StartInvariant, Down!HeaderError
    PROVE  StartInvariant' /\ StartFifoStep
  <1>1. /\ Down!Waiting /\ header = <<>> /\ controller' = "exit"
        /\ UNCHANGED <<sending, arrived, master, sent, taken, header, received>>
    BY DEF Down!HeaderError
  <1>2. ~Down!Waiting' /\ Down!GotLast' = Down!GotLast
    BY <1>1 DEF Down!Waiting, Down!GotLast, Down!CutShort, Down!Zero
  <1>3. Down!TypeOK' /\ BufferInvariant'
    BY <1>1 DEF StartInvariant, Down!TypeOK, BufferInvariant
  <1>4. GetInvariant'
    BY <1>1, <1>2 DEF StartInvariant, GetInvariant
  <1>5. Down!GotLast \in BOOLEAN
    BY DEF Down!GotLast
  <1>6. StartFifoStep
    BY <1>1, <1>2, <1>5 DEF StartFifoStep, Down!Fifo!Next, Down!Fifo!GiveUp,
                            Down!Fifo!fifoVars
  <1>7. QED
    BY <1>3, <1>4, <1>6 DEF StartInvariant

\* What the controller waits for behind message m.
Following(m) == IF m = 3 THEN "started" ELSE StartScript[m + 1].opcode

LEMMA AfterSays ==
    ASSUME NEW m \in 1 .. 3, NEW body, NEW size,
           NEW c \in Down!After(StartScript[m].opcode, body, size)
    PROVE  c \in {"exit", "aborted"} \/ c = Following(m)
  <1>1. CASE m = 1
    BY <1>1, StartScriptFacts DEF Down!After, Following
  <1>2. CASE m = 2
    BY <1>2, StartScriptFacts DEF Down!After, Following
  <1>3. CASE m = 3
    BY <1>3, StartScriptFacts DEF Down!After, Following
  <1>4. QED
    BY <1>1, <1>2, <1>3

\* The end of the second read: what ReadBody does, in terms of message m.
LEMMA StartBodyFacts ==
    ASSUME StartInvariant, Down!ReadBody
    PROVE  \E m \in 1 .. 3, n \in Nat, body \in Seq(Down!AllCells) :
              /\ m = Len(received) + 1 /\ Len(received) = m - 1
              /\ Down!Waiting /\ ~Down!GotLast
              /\ header = SubSeq(Down!ToBits(m), 1, 2) /\ Len(header) = 2
              /\ header \in Seq(Down!AllCells)
              /\ n = IF Len(arrived) < StartScript[m].bodySize
                     THEN Len(arrived) ELSE StartScript[m].bodySize
              /\ Len(arrived) < StartScript[m].bodySize =>
                    master = "down" /\ sending = <<>>
              /\ Len(body) = StartScript[m].bodySize
              /\ \A i \in 1 .. Len(body) :
                    body[i] = IF i <= n THEN arrived[i] ELSE Down!Zero
              /\ arrived' = SubSeq(arrived, n + 1, Len(arrived))
              /\ controller' \in {"exit", "aborted", Following(m)}
              /\ received' = IF controller' \in {"exit", "aborted"}
                             THEN received ELSE Append(received, header \o body)
              /\ header' = <<>>
              /\ UNCHANGED <<sending, master, sent, taken>>
  <1>1. header # <<>>
    BY DEF Down!ReadBody
  <1>2. /\ header \in [1 .. 2 -> Down!AllCells]
        /\ Down!Opcode(header) = controller
        /\ controller \in {"DhtType", "Profile", "Start", "started", "exit",
                           "aborted"}
    BY <1>1 DEF StartInvariant, Down!TypeOK, Down!HeaderSize
  <1>3. Down!Waiting
    BY <1>2, StartScriptFacts DEF Down!Opcode, Down!Waiting
  <1>4. /\ ~Down!GotLast
        /\ Len(received) + 1 \in 1 .. 3 /\ Len(received) \in 0 .. 2
        /\ controller = StartScript[Len(received) + 1].opcode
        /\ header = SubSeq(Down!ToBits(Len(received) + 1), 1, 2)
    BY <1>1, <1>3, StartReads
  <1>5. PICK m \in 1 .. 3 : m = Len(received) + 1 /\ Len(received) = m - 1
    BY <1>4
  <1>6. header \in Seq(Down!AllCells) /\ Len(header) = 2
    <2>1. header \in [1 .. 2 -> Down!AllCells] /\ 2 \in Nat
      BY <1>2
    <2>2. header \in Seq(Down!AllCells)
      BY <2>1, SeqDef
    <2>3. Len(header) \in Nat /\ DOMAIN header = 1 .. Len(header)
      BY <2>2, LenProperties
    <2>4. DOMAIN header = 1 .. 2
      BY <2>1
    <2>5. PICK l \in Nat : l = Len(header) /\ 1 .. l = 1 .. 2
      BY <2>3, <2>4
    <2>6. l = 2
      BY <2>5
    <2>7. QED
      BY <2>2, <2>5, <2>6
  <1>7. \A i \in 1 .. 2 : header[i] = <<m, i>>
    <2>1. PICK t \in Seq(Down!AllCells) : t = Down!ToBits(m)
      BY StartBits
    <2>2. 2 <= Len(t) /\ Len(t) \in Nat /\ \A i \in 1 .. 2 : t[i] = <<m, i>>
      BY <2>1, StartBits
    <2>3. /\ SubSeq(t, 1, 2) \in Seq(Down!AllCells) /\ Len(SubSeq(t, 1, 2)) = 2
          /\ \A i \in 1 .. 2 : SubSeq(t, 1, 2)[i] = t[i]
      BY <2>2
    <2>4. header = SubSeq(t, 1, 2)
      BY <1>4, <1>5, <2>1
    <2>5. QED
      BY <2>2, <2>3, <2>4
  <1>8. Down!BodySizes(header) = {StartScript[m].bodySize}
    BY <1>6, <1>7, StartHeaderOf
  <1> DEFINE size == StartScript[m].bodySize
             n == IF Len(arrived) < size THEN Len(arrived) ELSE size
             body == [i \in 1 .. size |-> IF i <= n THEN arrived[i]
                                                    ELSE Down!Zero]
  <1>9. /\ Len(arrived) >= size \/ Down!Truncated(size)
        /\ arrived' = SubSeq(arrived, n + 1, Len(arrived))
        /\ controller' \in Down!After(controller, body, size)
        /\ received' = IF controller' \in {"exit", "aborted"}
                       THEN received ELSE Append(received, header \o body)
        /\ header' = <<>>
        /\ UNCHANGED <<sending, master, sent, taken>>
    BY <1>8 DEF Down!ReadBody, Down!Unread
  <1>10. controller' \in {"exit", "aborted", Following(m)}
    BY <1>4, <1>5, <1>9, AfterSays
  <1>11. /\ arrived \in Seq(Down!AllCells) /\ Len(arrived) \in Nat
         /\ size \in Nat
    BY StartAt, StartScriptFacts
  <1>12. Len(arrived) < size => master = "down" /\ sending = <<>>
    BY <1>9, <1>11 DEF Down!Truncated
  <1>13. n \in Nat /\ n <= Len(arrived)
    BY <1>11
  <1>14. body \in Seq(Down!AllCells) /\ Len(body) = size
         /\ \A i \in 1 .. Len(body) :
               body[i] = IF i <= n THEN arrived[i] ELSE Down!Zero
    <2>1. ASSUME NEW i \in 1 .. size
          PROVE  (IF i <= n THEN arrived[i] ELSE Down!Zero) \in Down!AllCells
      <3>1. CASE i <= n
        <4>1. i \in 1 .. Len(arrived)
          BY <1>11, <1>13, <3>1
        <4>2. QED
          BY <1>11, <3>1, <4>1, ElementOfSeq
      <3>2. CASE ~(i <= n)
        BY <3>2 DEF Down!AllCells
      <3>3. QED
        BY <3>1, <3>2
    <2>2. size \in Nat
      BY <1>11
    <2> HIDE DEF n, size
    <2>3. QED
      BY <2>1, <2>2
  <1> HIDE DEF body, n, size
  <1>15. QED
    BY <1>3, <1>4, <1>5, <1>6, <1>9, <1>10, <1>12, <1>13, <1>14 DEF n, size

\* The last element is taken off again.
LEMMA FrontOfAppend ==
    ASSUME NEW S, NEW s \in Seq(S), NEW e \in S
    PROVE  SubSeq(Append(s, e), 1, Len(s)) = s
  <1>1. PICK t \in Seq(S) : t = Append(s, e)
    BY AppendProperties
  <1>2. /\ Len(t) = Len(s) + 1 /\ \A i \in 1 .. Len(s) : t[i] = s[i]
        /\ Len(s) \in Nat
    BY <1>1, AppendProperties, LenProperties
  <1>3. /\ SubSeq(t, 1, Len(s)) \in Seq(S)
        /\ Len(SubSeq(t, 1, Len(s))) = Len(s)
        /\ \A i \in 1 .. Len(s) : SubSeq(t, 1, Len(s))[i] = t[i]
    BY <1>2
  <1>4. SubSeq(t, 1, Len(s)) = s
    BY <1>2, <1>3, SeqEqual
  <1>5. QED
    BY <1>1, <1>4

LEMMA StartBodyRead ==
    ASSUME StartInvariant, Down!ReadBody
    PROVE  StartInvariant' /\ StartFifoStep
  <1>1. PICK m \in 1 .. 3, n \in Nat, body \in Seq(Down!AllCells) :
              /\ m = Len(received) + 1 /\ Len(received) = m - 1
              /\ Down!Waiting /\ ~Down!GotLast
              /\ header = SubSeq(Down!ToBits(m), 1, 2) /\ Len(header) = 2
              /\ header \in Seq(Down!AllCells)
              /\ n = IF Len(arrived) < StartScript[m].bodySize
                     THEN Len(arrived) ELSE StartScript[m].bodySize
              /\ Len(arrived) < StartScript[m].bodySize =>
                    master = "down" /\ sending = <<>>
              /\ Len(body) = StartScript[m].bodySize
              /\ \A i \in 1 .. Len(body) :
                    body[i] = IF i <= n THEN arrived[i] ELSE Down!Zero
              /\ arrived' = SubSeq(arrived, n + 1, Len(arrived))
              /\ controller' \in {"exit", "aborted", Following(m)}
              /\ received' = IF controller' \in {"exit", "aborted"}
                             THEN received ELSE Append(received, header \o body)
              /\ header' = <<>>
              /\ UNCHANGED <<sending, master, sent, taken>>
    BY StartBodyFacts, Zenon
  <1>2. /\ Len(arrived) \in Nat /\ Len(sending) \in Nat
        /\ arrived \in Seq(Down!AllCells) /\ sending \in Seq(Down!AllCells)
        /\ StartScript[m].bodySize \in Nat
        /\ Down!Size(m) = 2 + StartScript[m].bodySize
        /\ Len(sending) + Len(arrived) <= StartBuffer
    BY StartAt, StartScriptFacts
  <1>3. n \in 0 .. Len(arrived) /\ n <= StartScript[m].bodySize
    BY <1>1, <1>2
  <1>4. /\ arrived' \in Seq(Down!AllCells) /\ Len(arrived') = Len(arrived) - n
        /\ Len(arrived') \in Nat
    <2>1. ReadFrom(Down!AllCells, arrived, sending, n)
      BY <1>2, <1>3, QueueRead, Zenon
    <2>2. arrived' \in Seq(Down!AllCells) /\ Len(arrived') = Len(arrived) - n
      BY <1>1, <2>1, Zenon DEF ReadFrom
    <2>3. QED
      BY <1>2, <1>3, <2>2
  <1>5. \A k \in 1 .. Len(received) : received[k] = Down!ToBits(k)
    BY <1>1 DEF StartInvariant, GetInvariant
  <1>6. /\ received \in Seq(Seq(Down!AllCells))
        /\ header \o body \in Seq(Down!AllCells)
        /\ Len(header \o body) = 2 + Len(body)
        /\ \A i \in 1 .. Len(body) : (header \o body)[2 + i] = body[i]
    <2>1. header \o body \in Seq(Down!AllCells)
          /\ Len(header \o body) = 2 + Len(body)
          /\ \A i \in 1 .. 2 + Len(body) :
                (header \o body)[i] = IF i <= 2 THEN header[i] ELSE body[i - 2]
      BY <1>1, ConcatProperties
    <2>2. Len(body) \in Nat
      BY LenProperties
    <2>3. ASSUME NEW i \in 1 .. Len(body)
          PROVE  (header \o body)[2 + i] = body[i]
      <3>1. 2 + i \in 1 .. 2 + Len(body) /\ ~(2 + i <= 2) /\ (2 + i) - 2 = i
        BY <2>2
      <3>2. QED
        BY <2>1, <3>1
    <2>4. QED
      BY <2>1, <2>3 DEF StartInvariant, Down!TypeOK
  <1>7. /\ Append(received, header \o body) \in Seq(Seq(Down!AllCells))
        /\ Len(Append(received, header \o body)) = m
        /\ Append(received, header \o body)[m] = header \o body
        /\ \A k \in 1 .. m - 1 :
              Append(received, header \o body)[k] = Down!ToBits(k)
    BY <1>1, <1>5, <1>6, AppendProperties
  <1>8. /\ received' \in Seq(Seq(Down!AllCells))
        /\ controller' \in {"DhtType", "Profile", "Start", "started", "exit",
                            "aborted"}
    <2>1. received' \in Seq(Seq(Down!AllCells))
      BY <1>1, <1>6, <1>7
    <2>2. Following(m) \in {"DhtType", "Profile", "Start", "started"}
      BY StartScriptFacts DEF Following
    <2>3. QED
      BY <1>1, <2>1, <2>2
  <1>9. /\ Len(sending') = Len(sending) /\ sending' = sending
        /\ Len(sending') + Len(arrived') <= Len(sending) + Len(arrived)
        /\ Len(sending') + Len(arrived') <= StartBuffer
    <2>1. sending' = sending
      BY <1>1
    <2>2. StartBuffer \in Nat
      BY StartScriptFacts
    <2>3. QED
      BY <1>2, <1>3, <1>4, <2>1, <2>2
  <1>10. Down!TypeOK'
    BY <1>1, <1>4, <1>8, <1>9 DEF StartInvariant, Down!TypeOK
  <1>11. BufferInvariant'
    <2>1. sent = 0 => sending' = <<>> /\ arrived' = <<>>
      <3>1. SUFFICES ASSUME sent = 0 PROVE sending' = <<>> /\ arrived' = <<>>
        OBVIOUS
      <3>2. sending = <<>> /\ arrived = <<>>
        BY <3>1 DEF StartInvariant, BufferInvariant
      <3>3. Len(arrived') = 0
        BY <1>3, <1>4, <3>2
      <3>4. QED
        BY <1>4, <1>9, <3>2, <3>3, EmptySeq
    <2>2. sent = 1 => Len(sending') + Len(arrived') <= Down!Size(1)
      <3>1. sent = 1 => Len(sending) + Len(arrived) <= Down!Size(1)
        BY DEF StartInvariant, BufferInvariant
      <3>2. Down!Size(1) \in Nat
        BY StartBits
      <3>3. QED
        BY <1>2, <1>4, <1>9, <3>1, <3>2
    <2>3. QED
      BY <1>1, <2>1, <2>2 DEF StartInvariant, BufferInvariant
  <1>12. CASE controller' \in {"exit", "aborted"}
    <2>1. received' = received /\ master' = master /\ ~Down!Waiting'
      BY <1>1, <1>12 DEF Down!Waiting
    <2>2. ~Down!GotLast'
      BY <1>1, <2>1 DEF Down!GotLast, Down!CutShort, Down!Zero
    <2>3. Len(received) <= 3
      BY <1>1
    <2>4. GetInvariant'
      BY <1>5, <2>1, <2>2, <2>3 DEF GetInvariant
    <2>5. StartFifoStep
      BY <1>1, <2>1, <2>2
         DEF StartFifoStep, Down!Fifo!Next, Down!Fifo!GiveUp
    <2>6. QED
      BY <1>10, <1>11, <2>4, <2>5 DEF StartInvariant
  <1>13. CASE controller' \notin {"exit", "aborted"}
    <2>1. /\ received' = Append(received, header \o body)
          /\ controller' = Following(m)
      BY <1>1, <1>13
    <2> DEFINE result == Append(received, header \o body)
    <2>2. received' = result /\ Len(received') = m /\ m \in Nat
          /\ received'[m] = header \o body /\ received' # <<>>
          /\ \A k \in 1 .. m - 1 : received'[k] = Down!ToBits(k)
      <3>1. result # <<>>
        BY <1>6, AppendProperties
      <3>2. QED
        BY <1>7, <2>1, <3>1
    <2>3. CASE n < StartScript[m].bodySize
      <3>1. /\ n = Len(arrived) /\ master = "down" /\ master' = "down"
            /\ sending = <<>> /\ sending' = <<>>
        BY <1>1, <1>2, <2>3
      <3>2. arrived' = <<>>
        <4>1. Len(arrived') = 0
          BY <1>2, <1>4, <3>1
        <4>2. QED
          BY <1>4, <4>1, EmptySeq
      <3>3. Down!GotLast'
        <4>1. Len(body) \in 1 .. Len(body) /\ ~(Len(body) <= n)
          BY <1>1, <1>2, <1>3, <2>3
        <4>2. body[Len(body)] = Down!Zero
          BY <1>1, <4>1
        <4>3. (header \o body)[2 + Len(body)] = Down!Zero
          BY <1>6, <4>1, <4>2
        <4>4. 2 + Len(body) \in DOMAIN (header \o body)
          <5>1. DOMAIN (header \o body) = 1 .. Len(header \o body)
            BY <1>6, LenProperties
          <5>2. QED
            BY <1>6, <4>1, <5>1
        <4>5. PICK block : block = header \o body
          OBVIOUS
        <4>6. \E i \in DOMAIN block : block[i] = Down!Zero
          BY <4>3, <4>4, <4>5
        <4>7. received'[Len(received')] = block
          BY <2>2, <4>5
        <4>8. QED
          BY <2>2, <3>1, <4>6, <4>7
             DEF Down!GotLast, Down!CutShort, Down!Zero
      <3>4. GetInvariant'
        <4>1. ASSUME NEW k \in 1 .. Len(received')
              PROVE  received'[k] = Down!ToBits(k) \/ k = Len(received')
          BY <2>2
        <4>2. Len(received') <= 3
          BY <2>2
        <4>3. QED
          BY <1>1, <3>1, <3>2, <3>3, <4>1, <4>2 DEF GetInvariant
      <3>5. SubSeq(received', 1, Len(received') - 1) = received
        <4>1. Len(received') - 1 = Len(received)
          BY <1>1, <2>2
        <4>2. SubSeq(Append(received, header \o body), 1, Len(received))
                 = received
          BY <1>6, FrontOfAppend
        <4>3. QED
          BY <2>1, <4>1, <4>2
      <3>6. StartFifoStep
        BY <1>1, <3>3, <3>5
           DEF StartFifoStep, Down!Fifo!Next, Down!Fifo!GiveUp
      <3>7. QED
        BY <1>10, <1>11, <3>4, <3>6 DEF StartInvariant
    <2>4. CASE ~(n < StartScript[m].bodySize)
      <3>1. n = StartScript[m].bodySize /\ n \in Nat /\ Len(body) = n
        BY <1>1, <1>2, <1>3, <2>4
      <3>2. StartGets(2, n)
        <4>1. /\ 2 \in Nat /\ 0 < 2 + n
              /\ 2 + n <= Down!Size(Len(received) + 1)
          BY <1>1, <1>2, <3>1
        <4>2. QED
          BY <1>1, <1>3, <4>1, StartRead, Zenon
      <3>3. /\ Len(received) < sent
            /\ \A i \in 1 .. n : SubSeq(arrived, 1, n)[i] = <<m, 2 + i>>
            /\ Carries(Offsets(StartScript), Sizes(StartScript),
                       arrived' \o sending,
                       (Offsets(StartScript)[m] + 2) + n, SentPlace)
        BY <1>1, <3>2, Zenon DEF StartGets
      <3>4. \A i \in 1 .. Len(body) : body[i] = <<m, 2 + i>>
        <4>1. /\ SubSeq(arrived, 1, n) \in Seq(Down!AllCells)
              /\ \A i \in 1 .. n : SubSeq(arrived, 1, n)[i] = arrived[i]
          BY <1>2, <1>3
        <4>2. \A i \in 1 .. n : body[i] = arrived[i]
          BY <1>1, <3>1
        <4>3. QED
          BY <3>1, <3>3, <4>1, <4>2
      <3>5. header \o body = Down!ToBits(m)
        BY <1>1, <3>4, StartBlock
      <3>6. \A k \in 1 .. m : received'[k] = Down!ToBits(k)
        <4>1. \A k \in 1 .. m : k = m \/ k \in 1 .. m - 1
          OBVIOUS
        <4>2. received'[m] = Down!ToBits(m)
          BY <2>2, <3>5
        <4>3. QED
          BY <2>2, <4>1, <4>2
      <3>7. ~Down!GotLast'
        <4>1. received'[Len(received')] = Down!ToBits(m)
          BY <2>2, <3>5
        <4>2. QED
          BY <4>1, StartBits DEF Down!GotLast, Down!CutShort, Down!Zero
      <3>8. ASSUME Down!Waiting'
            PROVE  /\ m < 3 /\ controller' = StartScript[m + 1].opcode
                   /\ Carries(Offsets(StartScript), Sizes(StartScript),
                              arrived' \o sending',
                              Offsets(StartScript)[m + 1] + 0, SentPlace')
        <4>1. m # 3
          BY <2>1, <3>8 DEF Following, Down!Waiting
        <4>2. m < 3 /\ controller' = StartScript[m + 1].opcode
          BY <2>1, <4>1 DEF Following
        <4>3. Offsets(StartScript)[m + 1] + 0 = (Offsets(StartScript)[m] + 2) + n
          <5>1. /\ Offsets(StartScript)[m + 1] =
                      Offsets(StartScript)[m] + Sizes(StartScript)[m]
                /\ Sizes(StartScript)[m] = 2 + n
            BY <1>2, <3>1, 3 \in Nat, StartScriptFacts, OffsetsAt
          <5>2. Offsets(StartScript)[m] \in Nat
            BY StartOffset
          <5>3. QED
            BY <3>1, <5>1, <5>2
        <4>4. SentPlace' = SentPlace /\ sending' = sending
          BY <1>1 DEF SentPlace
        <4>5. QED
          BY <3>3, <4>2, <4>3, <4>4, Zenon
      <3>9. GetInvariant'
        <4>1. Len(received') <= 3 /\ Len(header') = 0 /\ header' = <<>>
          BY <1>1, <2>2
        <4>2. \A k \in 1 .. Len(received') : received'[k] = Down!ToBits(k)
          BY <2>2, <3>6
        <4>3. ASSUME Down!Waiting'
              PROVE  /\ Len(received') < 3
                     /\ controller' = StartScript[Len(received') + 1].opcode
                     /\ Carries(Offsets(StartScript), Sizes(StartScript),
                                arrived' \o sending',
                                Offsets(StartScript)[Len(received') + 1]
                                   + Len(header'), SentPlace')
          BY <2>2, <3>8, <4>1, <4>3, Zenon
        <4>4. QED
          BY <3>7, <4>1, <4>2, <4>3, Zenon DEF GetInvariant
      <3>10. StartFifoStep
        <4>1. received' = Append(received, Down!ToBits(Len(received) + 1))
          BY <1>1, <2>1, <3>5
        <4>2. Down!Fifo!Handle
          BY <1>1, <3>3, <3>7, <4>1 DEF Down!Fifo!Handle, Down!Waiting
        <4>3. QED
          BY <4>2 DEF StartFifoStep, Down!Fifo!Next
      <3>11. QED
        BY <1>10, <1>11, <3>9, <3>10 DEF StartInvariant
    <2>5. QED
      BY <2>3, <2>4
  <1>14. QED
    BY <1>12, <1>13

\* What happens in the other direction.
LEMMA StartElsewhere ==
    ASSUME StartInvariant, UNCHANGED startVars
    PROVE  StartInvariant' /\ StartFifoStep
  <1>1. SentPlace' = SentPlace
    BY DEF SentPlace, startVars
  <1>2. Down!GotLast' = Down!GotLast /\ Down!Waiting' = Down!Waiting
    BY DEF Down!GotLast, Down!CutShort, Down!Waiting, startVars
  <1>3. Down!TypeOK' /\ BufferInvariant'
    BY DEF StartInvariant, Down!TypeOK, BufferInvariant, startVars
  <1>4. GetInvariant'
    BY <1>1, <1>2 DEF StartInvariant, GetInvariant, startVars
  <1>5. StartFifoStep
    BY <1>2 DEF StartFifoStep, Down!Fifo!fifoVars, startVars
  <1>6. QED
    BY <1>3, <1>4, <1>5 DEF StartInvariant

\* Before anything is sent.
LEMMA StartInit ==
    ASSUME Init
    PROVE  StartInvariant /\ Down!Fifo!Init
  <1>1. /\ sending = <<>> /\ arrived = <<>>
        /\ master = "up" /\ sent = 0
        /\ taken = [m \in Down!Numbers |-> 0]
        /\ controller = "DhtType" /\ header = <<>> /\ received = <<>>
    BY DEF Init, Down!Init
  <1>2. /\ <<>> \in Seq(Down!AllCells) /\ Len(<<>>) = 0
        /\ <<>> \in Seq(Seq(Down!AllCells))
    BY EmptySeq
  <1>3. /\ Len(StartScript) = 3 /\ Down!Numbers = 1 .. 3
        /\ StartScript[1].opcode = "DhtType"
        /\ Begins(Offsets(StartScript), Sizes(StartScript), 3)
        /\ StartBuffer \in Nat
    BY StartScriptFacts
  <1>4. Offsets(StartScript)[1] = 0 /\ SentPlace = 0
    BY <1>1, <1>3 DEF Begins, SentPlace
  <1>5. /\ ~Down!GotLast /\ Down!Waiting
        /\ Down!GotLast \in BOOLEAN
    BY <1>1 DEF Down!GotLast, Down!Waiting
  <1>6. Down!TypeOK
    BY <1>1, <1>2, <1>3 DEF Down!TypeOK
  <1>7. BufferInvariant
    BY <1>1 DEF BufferInvariant
  <1>8. Carries(Offsets(StartScript), Sizes(StartScript), arrived \o sending,
                Offsets(StartScript)[Len(received) + 1] + Len(header),
                SentPlace)
    <2>1. arrived \o sending = <<>>
      BY <1>1
    <2>2. Offsets(StartScript)[Len(received) + 1] + Len(header) = 0
      BY <1>1, <1>2, <1>4
    <2>3. Carries(Offsets(StartScript), Sizes(StartScript), <<>>, 0, 0)
      BY DEF Carries
    <2>4. QED
      BY <1>4, <2>1, <2>2, <2>3, Zenon
  <1>9. GetInvariant
    BY <1>1, <1>2, <1>3, <1>5, <1>8 DEF GetInvariant
  <1>10. Down!Fifo!Init
    BY <1>1, <1>5 DEF Down!Fifo!Init
  <1>11. QED
    BY <1>6, <1>7, <1>9, <1>10 DEF StartInvariant

\* One step of the connection, when writeBuffer_ is free for each message.
LEMMA StartStep ==
    ASSUME Down!Size(1) + Down!Size(2) <= StartBuffer,
           StartInvariant, [Next]_vars
    PROVE  StartInvariant' /\ StartFifoStep
  <1>1. ASSUME UNCHANGED startVars PROVE StartInvariant' /\ StartFifoStep
    BY <1>1, StartElsewhere
  <1>2. CASE ControllerReads
    BY <1>2, StartHeaderRead, StartHeaderError, StartBodyRead
       DEF ControllerReads, Down!ReadStep
  <1>3. CASE MasterSends
    BY <1>3, StartMessageSent, StartWrittenOn
       DEF MasterSends, Down!MasterStep
  <1>4. CASE MasterEnds
    BY <1>4, StartMasterDies DEF MasterEnds
  <1>5. CASE StartCarried
    BY <1>5, StartCarriedOn DEF StartCarried
  <1>6. CASE \/ ControllerWrites \/ ControllerDies \/ MasterReads
             \/ ReportsCarried
    BY <1>1, <1>6 DEF ControllerWrites, ControllerDies, MasterReads,
                      ReportsCarried
  <1>7. CASE Finished \/ UNCHANGED vars
    BY <1>1, <1>7 DEF Finished, vars
  <1>8. QED
    BY <1>2, <1>3, <1>4, <1>5, <1>6, <1>7 DEF Next

(***************************************************************************)
(* A controller acts upon DhtType, Profile and Start, whole and in order,  *)
(* and its master upon the reports. sendMessage (ControllerConnection.cpp) *)
(* assigns to writeBuffer_ while an async_write may still read from it, so *)
(* this needs the kernels to take DhtType and Profile at once, which the   *)
(* hypothesis says: they have room for both. It needs nothing else: a      *)
(* Start of any size may be written in pieces, getNextMessage              *)
(* (DhtperfController.cpp) may take a body of which the master's end cut   *)
(* off a part, and each process may end at any time.                       *)
(***************************************************************************)
THEOREM ConnectionCorrect ==
    ASSUME Down!Size(1) + Down!Size(2) <= StartBuffer
    PROVE  FairSpec => ConnectionIsFifo
  <1>1. Init => StartInvariant /\ Down!Fifo!Init
    BY StartInit
  <1>2. StartInvariant /\ [Next]_vars => StartInvariant' /\ StartFifoStep
    BY StartStep
  <1>3. StartInvariant => Down!TypeOK
    BY DEF StartInvariant
  <1>4. FairSpec => []Down!TypeOK /\ Down!ImplementsFifo
    BY <1>1, <1>2, <1>3, PTL DEF FairSpec, Down!ImplementsFifo,
                                 Down!Fifo!Spec, StartFifoStep
  <1>5. []TypeOK <=> []Down!TypeOK /\ []Up!TypeOK
    BY PTL DEF TypeOK
  <1>6. QED
    BY <1>4, <1>5, ReportsAreFifo, PTL DEF ConnectionIsFifo
=============================================================================
