------------------------- MODULE MasterFilesProofs --------------------------
(***************************************************************************)
(* Theorems about the files of the master: the workload file that          *)
(* loadConfig reads, with any number of lines of any pool in any order,    *)
(* and the files that process() appends to, over any number of masters.    *)
(***************************************************************************)
EXTENDS Workload, Results, FiniteSetTheorems, SequenceTheorems,
        WellFoundedInduction, TLAPS

(***************************************************************************)
(* What loadConfig knows after each line is what the lines so far say.     *)
(***************************************************************************)
CountsFollow == nodes = NodesSaid(Len(lines)) /\ duration = DurationSaid

ProfilesFollow ==
    /\ DOMAIN profiles = Declared
    /\ currentProfile = {File[k].name : k \in {LastOf(Of("profile"))} \ {0}}

TextsFollow ==
    outcome # "exit" =>
        \A name \in Declared : \A op \in Operations :
            TextsOf(name, op) = {profiles[name][op]} \ {0}

\* The profile of node i.
NodeFollows(i) ==
    IF AssignmentOf(i) = 0
    THEN i \notin DOMAIN nodeProfiles
    ELSE /\ i \in DOMAIN nodeProfiles
         /\ nodeProfiles[i] = File[AssignmentOf(i)].name

OutcomeFollows ==
    /\ outcome = "loaded" => Checks
    /\ outcome = "rejected" =>
          ~Checks \/ \E k \in Of("operation") : BlockOf(k) = 0

FileInvariant ==
    /\ TypeOK
    /\ CountsFollow /\ ProfilesFollow /\ TextsFollow /\ OutcomeFollows
    /\ \A i \in Nat : NodeFollows(i)

(***************************************************************************)
(* What process() has written, in this run and in those before. The files  *)
(* of this run are one row ahead of those it has yet to come to.           *)
(***************************************************************************)
Rows(k) == files[OutputOrder[k]].rows
Written(k) == phase = "processing" /\ k <= processed
Complete(k) == IF Written(k) THEN completed + 1 ELSE completed

OutputTypeOK ==
    /\ files \in [Range(OutputOrder) -> [headers : Nat, rows : Nat]]
    /\ completed \in Nat /\ processed \in 0 .. Len(OutputOrder)
    /\ phase = "running" => processed = 0

OneHeader ==
    \A f \in Range(OutputOrder) :
        files[f].headers = IF files[f].rows = 0 THEN 0 ELSE 1

RowsInOrder ==
    \A j, k \in DOMAIN OutputOrder :
        j < k => /\ Rows(j) >= Rows(k)
                 /\ Written(j) /\ ~Written(k) => Rows(j) > Rows(k)

RunsCounted == Rows(Len(OutputOrder)) = Complete(Len(OutputOrder))

OutputInvariant == OutputTypeOK /\ OneHeader /\ RowsInOrder /\ RunsCounted

-----------------------------------------------------------------------------
(* The first and the last of some lines *)

\* A set of natural numbers has a least one.
LEMMA LeastNumber ==
    ASSUME NEW S \in SUBSET Nat, S # {}
    PROVE  \E n \in S : \A k \in S : n <= k
  <1> DEFINE R == OpToRel(<, Nat)
  <1>1. IsWellFoundedOn(R, Nat)
    BY NatLessThanWellFounded
  <1>2. PICK n \in S : \A k \in S : ~(<<k, n>> \in R)
    <2> HIDE DEF R
    <2>1. QED
      BY <1>1, WFMin, Zenon
  <1>3. \A k \in S : ~(k < n)
    BY <1>2 DEF OpToRel
  <1>4. QED
    BY <1>3

LEMMA MinIs ==
    ASSUME NEW n \in Nat, NEW S \in SUBSET (1 .. n), S # {}
    PROVE  Min(S) \in S /\ \A k \in S : Min(S) <= k
  <1>1. \E x \in S : \A y \in S : x <= y
    BY LeastNumber
  <1>2. QED
    BY <1>1 DEF Min

\* A later number does not change the first.
LEMMA MinStays ==
    ASSUME NEW n \in Nat, NEW S \in SUBSET (1 .. n), S # {}
    PROVE  Min(S \cup {n + 1}) = Min(S)
  <1>1. Min(S) \in S /\ \A k \in S : Min(S) <= k
    BY MinIs
  <1> DEFINE T == S \cup {n + 1}
  <1>2. T \in SUBSET (1 .. n + 1) /\ T # {} /\ n + 1 \in Nat
    OBVIOUS
  <1>3. \E t \in T : t = Min(T) /\ \A k \in T : t <= k
    <2> HIDE DEF T
    <2>1. QED
      BY <1>2, MinIs
  <1>4. PICK s \in S : s = Min(S) /\ \A k \in S : s <= k
    BY <1>1
  <1>5. PICK t \in T : t = Min(T) /\ \A k \in T : t <= k
    BY <1>3
  <1>6. t <= s /\ s \in 1 .. n
    BY <1>5
  <1>7. t \in S
    BY <1>6
  <1>8. s <= t /\ t \in 1 .. n
    BY <1>4, <1>7
  <1>9. t = s
    BY <1>6, <1>8
  <1>10. QED
    BY <1>4, <1>5, <1>9

LEMMA LastOfIs ==
    ASSUME NEW n \in Nat, NEW S \in SUBSET (1 .. n)
    PROVE  /\ LastOf(S) \in 0 .. n
           /\ S = {} => LastOf(S) = 0
           /\ S # {} => LastOf(S) \in S /\ LastOf(S) # 0
           /\ \A k \in S : k <= LastOf(S)
  <1>1. CASE S = {}
    BY <1>1 DEF LastOf
  <1>2. CASE S # {}
    <2> DEFINE T == {n - k : k \in S}
    <2>1. T \in SUBSET Nat
      OBVIOUS
    <2>2. PICK t \in T : \A u \in T : t <= u
      <3>1. T # {}
        <4>1. PICK y \in S : TRUE
          BY <1>2
        <4>2. n - y \in T
          OBVIOUS
        <4>3. QED
          BY <4>2
      <3>2. QED
        BY <2>1, <3>1, LeastNumber
    <2>3. PICK x \in S : t = n - x
      BY <2>2
    <2>4. \A y \in S : n - x <= n - y
      BY <2>2, <2>3
    <2>5. \A y \in S : x >= y
      BY <2>4
    <2>6. Max(S) \in S /\ \A y \in S : Max(S) >= y
      BY <2>5 DEF Max
    <2>7. LastOf(S) = Max(S)
      BY <1>2 DEF LastOf
    <2>8. PICK m \in S : m = LastOf(S) /\ \A y \in S : m >= y
      BY <2>6, <2>7
    <2>9. m \in 0 .. n /\ m # 0 /\ \A y \in S : y <= m
      BY <2>8
    <2>10. QED
      BY <1>2, <2>8, <2>9
  <1>3. QED
    BY <1>1, <1>2

\* A later number is the last.
LEMMA LastOfGrows ==
    ASSUME NEW n \in Nat, NEW S \in SUBSET (1 .. n)
    PROVE  LastOf(S \cup {n + 1}) = n + 1
  <1> DEFINE T == S \cup {n + 1}
  <1>1. T \in SUBSET (1 .. n + 1) /\ T # {} /\ n + 1 \in T /\ n + 1 \in Nat
    OBVIOUS
  <1>2. LastOf(T) \in T /\ n + 1 <= LastOf(T) /\ LastOf(T) \in 0 .. n + 1
    BY <1>1, LastOfIs
  <1>3. QED
    BY <1>2

-----------------------------------------------------------------------------
(* One more line *)

\* The file read so far is a sequence of lines.
LEMMA FileIsLines ==
    ASSUME TypeOK
    PROVE  /\ Len(lines) \in Nat
           /\ \A j \in 1 .. Len(lines) :
                 /\ lines[j] \in DOMAIN pool /\ File[j] = pool[lines[j]]
                 /\ File[j] \in Line
           /\ \A k \in DOMAIN pool : pool[k] \in Line
  <1>1. pool \in Seq(Line) /\ lines \in Seq(DOMAIN pool)
    BY PoolsAssumption DEF TypeOK
  <1>2. Len(lines) \in Nat /\ \A j \in 1 .. Len(lines) : lines[j] \in DOMAIN pool
    BY <1>1
  <1>3. \A k \in DOMAIN pool : pool[k] \in Line
    BY <1>1
  <1>4. QED
    BY <1>2, <1>3 DEF File

\* Line k of the pool comes next.
NextLine(k) == k \in DOMAIN pool /\ lines' = Append(lines, k) /\ pool' = pool
               /\ option' = option

LEMMA FileGrows ==
    ASSUME TypeOK, NEW k, NextLine(k)
    PROVE  /\ lines' \in Seq(DOMAIN pool)
           /\ Len(lines') = Len(lines) + 1
           /\ \A j \in 1 .. Len(lines) : File'[j] = File[j]
           /\ File'[Len(lines) + 1] = pool[k]
  <1>1. lines \in Seq(DOMAIN pool) /\ k \in DOMAIN pool
        /\ lines' = Append(lines, k) /\ pool' = pool
    BY DEF TypeOK, NextLine
  <1>2. PICK n \in Nat : n = Len(lines)
    BY <1>1
  <1>3. /\ lines' \in Seq(DOMAIN pool) /\ Len(lines') = n + 1
        /\ \A j \in 1 .. n : lines'[j] = lines[j]
        /\ lines'[n + 1] = k
    BY <1>1, <1>2
  <1>4. File' = [j \in 1 .. n + 1 |-> pool[lines'[j]]]
    BY <1>1, <1>3 DEF File
  <1>5. File = [j \in 1 .. n |-> pool[lines[j]]]
    BY <1>2 DEF File
  <1>6. /\ \A j \in 1 .. n : File'[j] = File[j]
        /\ File'[n + 1] = pool[k]
    BY <1>3, <1>4, <1>5
  <1>7. QED
    BY <1>2, <1>3, <1>6

LEMMA OfIs ==
    ASSUME TypeOK, NEW kind
    PROVE  Of(kind) \in SUBSET (1 .. Len(lines))
  BY DEF Of

LEMMA OfGrows ==
    ASSUME TypeOK, NEW k, NextLine(k), NEW kind
    PROVE  Of(kind)' = IF pool[k].kind = kind THEN Of(kind) \cup {Len(lines) + 1}
                                              ELSE Of(kind)
  <1>1. PICK n \in Nat : n = Len(lines)
    BY FileIsLines
  <1>2. /\ Len(lines') = n + 1
        /\ \A j \in 1 .. n : File'[j] = File[j]
        /\ File'[n + 1] = pool[k]
    BY <1>1, FileGrows
  <1>3. Of(kind)' = {j \in 1 .. n + 1 : File'[j].kind = kind}
    BY <1>2 DEF Of
  <1>4. Of(kind) = {j \in 1 .. n : File[j].kind = kind}
    BY <1>1 DEF Of
  <1>5. 1 .. n + 1 = (1 .. n) \cup {n + 1}
    BY <1>1
  <1>6. QED
    BY <1>1, <1>2, <1>3, <1>4, <1>5

\* The lines before it still say what they said.
LEMMA SaidBefore ==
    ASSUME TypeOK, NEW k, NextLine(k), NEW m \in 0 .. Len(lines)
    PROVE  NodesSaid(m)' = NodesSaid(m)
  <1>1. PICK n \in Nat : n = Len(lines)
    BY FileIsLines
  <1>2. \A j \in 1 .. n : File'[j] = File[j]
    BY <1>1, FileGrows
  <1> DEFINE said == {j \in Of("nodes") : j <= m /\ File[j].value # 0}
             saidNow == {j \in Of("nodes")' : j <= m /\ File'[j].value # 0}
  <1>3. Of("nodes") \in SUBSET (1 .. n)
    BY <1>1, OfIs
  <1>4. Of("nodes")' \in {Of("nodes"), Of("nodes") \cup {n + 1}}
    BY <1>1, OfGrows
  <1>5. m \in 0 .. n /\ ~(n + 1 <= m)
    BY <1>1
  <1>6. saidNow = said
    <2>1. ASSUME NEW j \in saidNow PROVE j \in said
      <3>1. j \in Of("nodes") \/ j = n + 1
        BY <1>4
      <3>2. j \in Of("nodes") /\ j \in 1 .. n
        BY <1>3, <1>5, <3>1
      <3>3. QED
        BY <1>2, <3>2
    <2>2. ASSUME NEW j \in said PROVE j \in saidNow
      <3>1. j \in Of("nodes") /\ j \in 1 .. n
        BY <1>3
      <3>2. QED
        BY <1>2, <1>4, <3>1
    <2>3. QED
      BY <2>1, <2>2
  <1>7. said # {} => Min(said) \in 1 .. n
    <2>1. said \in SUBSET (1 .. n)
      BY <1>3
    <2> HIDE DEF said
    <2>2. QED
      BY <2>1, MinIs
  <1>8. NodesSaid(m) = IF option # 0 THEN option
                       ELSE IF said = {} THEN 0 ELSE File[Min(said)].value
    BY DEF NodesSaid
  <1>9. NodesSaid(m)' = IF option' # 0 THEN option'
                        ELSE IF saidNow = {} THEN 0
                        ELSE File'[Min(saidNow)].value
    BY DEF NodesSaid
  <1>10. option' = option
    BY DEF NextLine
  <1> HIDE DEF said, saidNow
  <1>11. QED
    BY <1>2, <1>6, <1>7, <1>8, <1>9, <1>10

\* The number of nodes is the first that is not 0.
LEMMA SaidNow ==
    ASSUME TypeOK, NEW k, NextLine(k)
    PROVE  /\ NodesSaid(Len(lines)) \in Nat
           /\ NodesSaid(Len(lines))' =
                 IF pool[k].kind = "nodes" /\ NodesSaid(Len(lines)) = 0
                 THEN pool[k].value ELSE NodesSaid(Len(lines))
           /\ \A m \in {Len(lines) + 1} :
                 NodesSaid(m)' = NodesSaid(Len(lines))'
  <1>1. PICK n \in Nat : n = Len(lines)
    BY FileIsLines
  <1>2. /\ \A j \in 1 .. n : File'[j] = File[j]
        /\ File'[n + 1] = pool[k]
    BY <1>1, FileGrows
  <1> DEFINE said == {j \in Of("nodes") : j <= n /\ File[j].value # 0}
             saidNow == {j \in Of("nodes")' : j <= n + 1 /\ File'[j].value # 0}
             counts == pool[k].kind = "nodes" /\ pool[k].value # 0
  <1>3. Of("nodes") \in SUBSET (1 .. n)
    BY <1>1, OfIs
  <1>4. Of("nodes")' = IF pool[k].kind = "nodes" THEN Of("nodes") \cup {n + 1}
                                                 ELSE Of("nodes")
    BY <1>1, OfGrows
  <1>5. saidNow = IF counts THEN said \cup {n + 1} ELSE said
    <2>1. \A j \in Of("nodes") : j <= n /\ j <= n + 1 /\ j # n + 1
                                 /\ File'[j] = File[j]
      BY <1>2, <1>3
    <2>2. n + 1 <= n + 1
      OBVIOUS
    <2>3. QED
      BY <1>2, <1>4, <2>1, <2>2
  <1>6. said \in SUBSET (1 .. n)
    BY <1>3
  <1>7. \A j \in said : File[j].value \in Nat /\ File[j].value # 0
    <2>1. ASSUME NEW j \in said PROVE File[j].value \in Nat
      <3>1. j \in 1 .. Len(lines) /\ File[j].kind = "nodes"
        BY <1>1, <1>6 DEF Of
      <3>2. File[j] \in Line
        BY <3>1, FileIsLines
      <3>3. QED
        BY <3>1, <3>2 DEF Line
    <2>2. QED
      BY <2>1
  <1>8. option \in Nat
    BY NodesOptionsAssumption DEF TypeOK
  <1>9. NodesSaid(n) = IF option # 0 THEN option
                       ELSE IF said = {} THEN 0 ELSE File[Min(said)].value
    BY DEF NodesSaid
  <1>10. NodesSaid(n + 1)' = IF option' # 0 THEN option'
                             ELSE IF saidNow = {} THEN 0
                             ELSE File'[Min(saidNow)].value
    BY DEF NodesSaid
  <1>11. option' = option
    BY DEF NextLine
  <1> HIDE DEF said, saidNow
  <1>12. said # {} => /\ Min(said) \in said /\ Min(said) \in 1 .. n
                      /\ Min(said \cup {n + 1}) = Min(said)
    BY <1>6, MinIs, MinStays
  <1>13. NodesSaid(n) \in Nat
    BY <1>7, <1>8, <1>9, <1>12
  <1> DEFINE goal == NodesSaid(n + 1)' = IF pool[k].kind = "nodes" /\ NodesSaid(n) = 0
                                       THEN pool[k].value ELSE NodesSaid(n)
  <1>14. ASSUME option # 0 PROVE goal
    BY <1>9, <1>10, <1>11, <1>14, <1>13
  <1>15. ASSUME option = 0, said # {} PROVE goal
    <2>1. NodesSaid(n) = File[Min(said)].value /\ NodesSaid(n) # 0
      BY <1>7, <1>9, <1>12, <1>15
    <2>2. saidNow # {} /\ Min(saidNow) = Min(said)
      BY <1>5, <1>12, <1>15
    <2>3. NodesSaid(n + 1)' = File'[Min(said)].value
      BY <1>10, <1>11, <1>15, <2>2
    <2>4. NodesSaid(n + 1)' = NodesSaid(n)
      BY <1>2, <1>12, <1>15, <2>1, <2>3
    <2>5. QED
      BY <1>13, <2>1, <2>4
  <1>16. ASSUME option = 0, said = {} PROVE goal
    <2>1. NodesSaid(n) = 0
      BY <1>9, <1>16
    <2>2. CASE counts
      <3>1. saidNow = {n + 1}
        BY <1>5, <1>16, <2>2
      <3>2. Min({n + 1}) = n + 1
        <4>1. {n + 1} \in SUBSET (1 .. n + 1) /\ n + 1 \in Nat /\ {n + 1} # {}
          OBVIOUS
        <4>2. QED
          BY <4>1, MinIs
      <3>3. NodesSaid(n + 1)' = pool[k].value
        BY <1>2, <1>10, <1>11, <1>16, <3>1, <3>2
      <3>4. QED
        BY <2>1, <2>2, <3>3
    <2>3. CASE ~counts
      <3>1. NodesSaid(n + 1)' = 0
        BY <1>5, <1>10, <1>11, <1>16, <2>3
      <3>2. QED
        BY <2>1, <2>3, <3>1
    <2>4. QED
      BY <2>2, <2>3
  <1>17. NodesSaid(Len(lines))' = NodesSaid(n + 1)'
    <2>1. Len(lines)' = n + 1
      BY <1>1, FileGrows
    <2>2. QED
      BY <2>1
  <1>18. goal
    BY <1>14, <1>15, <1>16
  <1>19. QED
    BY <1>1, <1>13, <1>17, <1>18

LEMMA DurationGrows ==
    ASSUME TypeOK, NEW k, NextLine(k)
    PROVE  DurationSaid' = IF pool[k].kind = "duration" THEN pool[k].value
                                                        ELSE DurationSaid
  <1>1. PICK n \in Nat : n = Len(lines)
    BY FileIsLines
  <1>2. /\ \A j \in 1 .. n : File'[j] = File[j]
        /\ File'[n + 1] = pool[k]
    BY <1>1, FileGrows
  <1>3. PICK S \in SUBSET (1 .. n) : S = Of("duration")
    BY <1>1, OfIs
  <1>4. Of("duration")' = IF pool[k].kind = "duration" THEN S \cup {n + 1}
                                                       ELSE S
    BY <1>1, <1>3, OfGrows
  <1>5. /\ S # {} => Max(S) \in 1 .. n
        /\ Max(S \cup {n + 1}) = n + 1
    <2>1. S # {} => LastOf(S) = Max(S) /\ LastOf(S) \in S
      BY LastOfIs DEF LastOf
    <2>2. LastOf(S \cup {n + 1}) = Max(S \cup {n + 1})
      BY DEF LastOf
    <2>3. QED
      BY <2>1, <2>2, LastOfGrows
  <1>6. DurationSaid = IF S = {} THEN 0 ELSE File[Max(S)].value
    BY <1>3 DEF DurationSaid
  <1>7. DurationSaid' = IF Of("duration")' = {} THEN 0
                        ELSE File'[Max(Of("duration")')].value
    BY DEF DurationSaid
  <1>8. CASE pool[k].kind = "duration"
    BY <1>2, <1>4, <1>5, <1>7, <1>8
  <1>9. CASE pool[k].kind # "duration"
    <2>1. Of("duration")' = S
      BY <1>4, <1>9
    <2>2. QED
      BY <1>2, <1>5, <1>6, <1>7, <1>9, <2>1
  <1>10. QED
    BY <1>8, <1>9

-----------------------------------------------------------------------------
(* Profiles *)

LEMMA BlockOfIs ==
    ASSUME TypeOK, NEW j \in Nat
    PROVE  /\ BlockOf(j) \in 0 .. Len(lines)
           /\ BlockOf(j) # 0 => BlockOf(j) < j /\ BlockOf(j) \in Of("profile")
  <1> DEFINE S == {i \in Of("profile") : i < j}
  <1>1. S \in SUBSET (1 .. Len(lines)) /\ Len(lines) \in Nat
    BY OfIs, FileIsLines
  <1>2. BlockOf(j) = LastOf(S)
    BY DEF BlockOf
  <1>3. LastOf(S) \in 0 .. Len(lines)
        /\ (S = {} => LastOf(S) = 0) /\ (S # {} => LastOf(S) \in S)
    <2> HIDE DEF S
    <2>1. QED
      BY <1>1, LastOfIs
  <1>4. QED
    BY <1>2, <1>3

LEMMA BlockOfStays ==
    ASSUME TypeOK, NEW k, NextLine(k)
    PROVE  /\ \A j \in 1 .. Len(lines) : BlockOf(j)' = BlockOf(j)
           /\ \A j \in {Len(lines) + 1} : BlockOf(j)' = LastOf(Of("profile"))
  <1>1. PICK n \in Nat : n = Len(lines)
    BY FileIsLines
  <1>2. PICK S \in SUBSET (1 .. n) : S = Of("profile")
    BY <1>1, OfIs
  <1>3. Of("profile")' \in {S, S \cup {n + 1}}
    BY <1>1, <1>2, OfGrows
  <1>4. ASSUME NEW j \in 1 .. n
        PROVE  BlockOf(j)' = BlockOf(j)
    <2> DEFINE T == Of("profile")'
    <2>1. T \in {S, S \cup {n + 1}}
      BY <1>3
    <2>2. \A i \in T : i < j => i \in S
      <3> HIDE DEF T
      <3>1. ~(n + 1 < j)
        OBVIOUS
      <3>2. QED
        BY <2>1, <3>1
    <2>3. {i \in T : i < j} = {i \in S : i < j}
      <3> HIDE DEF T
      <3>1. QED
        BY <2>1, <2>2
    <2>4. QED
      BY <1>2, <2>3 DEF BlockOf
  <1>5. ASSUME NEW j \in {n + 1}
        PROVE  BlockOf(j)' = LastOf(S)
    <2> DEFINE T == Of("profile")'
    <2>1. T \in {S, S \cup {n + 1}}
      BY <1>3
    <2>2. j = n + 1 /\ ~(n + 1 < j) /\ \A i \in S : i < j
      OBVIOUS
    <2>3. {i \in T : i < j} = S
      <3> HIDE DEF T
      <3>1. QED
        BY <2>1, <2>2
    <2>4. QED
      BY <2>3 DEF BlockOf
  <1>6. QED
    BY <1>1, <1>2, <1>4, <1>5

LEMMA DeclarationIs ==
    ASSUME TypeOK, NEW name
    PROVE  /\ Declaration(name) \in 0 .. Len(lines)
           /\ Declaration(name) # 0 <=> name \in Declared
           /\ Declaration(name) # 0 =>
                 /\ Declaration(name) \in Of("profile")
                 /\ File[Declaration(name)].name = name
           /\ \A j \in Of("profile") :
                 File[j].name = name => j <= Declaration(name)
  <1> DEFINE S == {i \in Of("profile") : File[i].name = name}
  <1>1. S \in SUBSET (1 .. Len(lines)) /\ Len(lines) \in Nat
    BY OfIs, FileIsLines
  <1>2. Declaration(name) = LastOf(S)
    BY DEF Declaration
  <1>3. /\ LastOf(S) \in 0 .. Len(lines)
        /\ S = {} => LastOf(S) = 0
        /\ S # {} => LastOf(S) \in S /\ LastOf(S) # 0
        /\ \A j \in S : j <= LastOf(S)
    <2> HIDE DEF S
    <2>1. QED
      BY <1>1, LastOfIs
  <1>4. S # {} <=> name \in Declared
    BY DEF Declared
  <1>5. QED
    BY <1>2, <1>3, <1>4

LEMMA DeclarationGrows ==
    ASSUME TypeOK, NEW k, NextLine(k), NEW name
    PROVE  Declaration(name)' =
              IF pool[k].kind = "profile" /\ pool[k].name = name
              THEN Len(lines) + 1 ELSE Declaration(name)
  <1>1. PICK n \in Nat : n = Len(lines)
    BY FileIsLines
  <1>2. /\ \A j \in 1 .. n : File'[j] = File[j]
        /\ File'[n + 1] = pool[k]
    BY <1>1, FileGrows
  <1>3. PICK S \in SUBSET (1 .. n) :
           S = {i \in Of("profile") : File[i].name = name}
    BY <1>1, OfIs
  <1>4. Of("profile") \in SUBSET (1 .. n)
    BY <1>1, OfIs
  <1>5. Of("profile")' = IF pool[k].kind = "profile"
                         THEN Of("profile") \cup {n + 1} ELSE Of("profile")
    BY <1>1, OfGrows
  <1>6. {i \in Of("profile")' : File'[i].name = name} =
           IF pool[k].kind = "profile" /\ pool[k].name = name
           THEN S \cup {n + 1} ELSE S
    BY <1>2, <1>3, <1>4, <1>5
  <1>7. LastOf(S \cup {n + 1}) = n + 1
    BY LastOfGrows
  <1>8. Declaration(name) = LastOf(S)
    BY <1>3 DEF Declaration
  <1>9. Declaration(name)' = LastOf({i \in Of("profile")' : File'[i].name = name})
    BY DEF Declaration
  <1>10. QED
    BY <1>1, <1>6, <1>7, <1>8, <1>9

LEMMA DeclaredGrows ==
    ASSUME TypeOK, NEW k, NextLine(k)
    PROVE  Declared' = IF pool[k].kind = "profile"
                       THEN Declared \cup {pool[k].name} ELSE Declared
  <1>1. PICK n \in Nat : n = Len(lines)
    BY FileIsLines
  <1>2. /\ \A j \in 1 .. n : File'[j] = File[j]
        /\ File'[n + 1] = pool[k]
    BY <1>1, FileGrows
  <1>3. PICK S \in SUBSET (1 .. n) : S = Of("profile")
    BY <1>1, OfIs
  <1>4. Of("profile")' = IF pool[k].kind = "profile" THEN S \cup {n + 1} ELSE S
    BY <1>1, <1>3, OfGrows
  <1>5. Declared = {File[i].name : i \in S}
    BY <1>3 DEF Declared
  <1>6. Declared' = {File'[i].name : i \in Of("profile")'}
    BY DEF Declared
  <1>7. \A i \in S : File'[i].name = File[i].name
    BY <1>2
  <1> DEFINE T == Of("profile")'
  <1>8. CASE pool[k].kind = "profile"
    <2>1. T = S \cup {n + 1}
      BY <1>4, <1>8
    <2>2. {File'[i].name : i \in T} =
             {File'[i].name : i \in S} \cup {File'[n + 1].name}
      <3> HIDE DEF T
      <3>1. QED
        BY <2>1
    <2>3. {File'[i].name : i \in S} = {File[i].name : i \in S}
      BY <1>7
    <2>4. QED
      BY <1>2, <1>5, <1>6, <1>8, <2>2, <2>3
  <1>9. CASE pool[k].kind # "profile"
    <2>1. T = S
      BY <1>4, <1>9
    <2>2. {File'[i].name : i \in T} = {File'[i].name : i \in S}
      <3> HIDE DEF T
      <3>1. QED
        BY <2>1
    <2>3. {File'[i].name : i \in S} = {File[i].name : i \in S}
      BY <1>7
    <2>4. QED
      BY <1>5, <1>6, <1>9, <2>2, <2>3
  <1>10. QED
    BY <1>8, <1>9

\* The texts of a profile: a profile line starts them over, an operation line
\* adds one to the profile it is below.
LEMMA TextsGrow ==
    ASSUME TypeOK, NEW k, NextLine(k), NEW name, NEW op
    PROVE  TextsOf(name, op)' =
              IF pool[k].kind = "profile" /\ pool[k].name = name THEN {}
              ELSE IF /\ pool[k].kind = "operation" /\ pool[k].op = op
                      /\ LastOf(Of("profile")) = Declaration(name)
              THEN TextsOf(name, op) \cup {Len(lines) + 1}
              ELSE TextsOf(name, op)
  <1>1. PICK n \in Nat : n = Len(lines)
    BY FileIsLines
  <1>2. /\ \A j \in 1 .. n : File'[j] = File[j]
        /\ File'[n + 1] = pool[k]
    BY <1>1, FileGrows
  <1>3. PICK S \in SUBSET (1 .. n) : S = Of("operation")
    BY <1>1, OfIs
  <1> DEFINE T == Of("operation")'
             here == Declaration(name)
             hereNow == Declaration(name)'
             last == LastOf(Of("profile"))
             block == [j \in 1 .. n |-> BlockOf(j)]
             blockNow == [j \in 1 .. n + 1 |-> BlockOf(j)']
             texts == TextsOf(name, op)
             textsNow == TextsOf(name, op)'
  <1>4. T = IF pool[k].kind = "operation" THEN S \cup {n + 1} ELSE S
    BY <1>1, <1>3, OfGrows
  <1>5. /\ \A j \in 1 .. n : blockNow[j] = block[j] /\ block[j] \in 0 .. n
        /\ blockNow[n + 1] = last
    <2>1. ASSUME NEW j \in 1 .. n
          PROVE  BlockOf(j)' = BlockOf(j) /\ BlockOf(j) \in 0 .. n
      BY <1>1, BlockOfStays, BlockOfIs
    <2>2. BlockOf(n + 1)' = last
      BY <1>1, BlockOfStays
    <2>3. 1 .. n \subseteq 1 .. n + 1 /\ n + 1 \in 1 .. n + 1
      OBVIOUS
    <2>4. \A j \in 1 .. n : blockNow[j] = block[j] /\ block[j] \in 0 .. n
      BY <2>1, <2>3
    <2>5. QED
      BY <2>2, <2>3, <2>4
  <1>6. hereNow = IF pool[k].kind = "profile" /\ pool[k].name = name
                  THEN n + 1 ELSE here
    BY <1>1, DeclarationGrows
  <1>7. texts = {j \in S : File[j].op = op /\ block[j] = here}
    BY <1>3 DEF TextsOf
  <1>8. textsNow = {j \in T : File'[j].op = op /\ blockNow[j] = hereNow}
    <2>1. textsNow = {j \in T : File'[j].op = op /\ BlockOf(j)' = hereNow}
      BY DEF TextsOf
    <2>2. \A j \in T : BlockOf(j)' = blockNow[j]
      <3>1. T \subseteq 1 .. n + 1
        <4> HIDE DEF T
        <4>1. T = S \/ T = S \cup {n + 1}
          BY <1>4
        <4>2. S \subseteq 1 .. n + 1 /\ n + 1 \in 1 .. n + 1
          OBVIOUS
        <4>3. QED
          BY <4>1, <4>2
      <3>2. QED
        BY <3>1
    <2> HIDE DEF T, hereNow, blockNow, textsNow
    <2>3. QED
      BY <2>1, <2>2
  <1> HIDE DEF T, here, hereNow, last, block, blockNow, texts, textsNow
  <1>9. CASE pool[k].kind = "profile" /\ pool[k].name = name
    <2>1. hereNow = n + 1 /\ T = S
      BY <1>4, <1>6, <1>9
    <2>2. \A j \in S : blockNow[j] # hereNow
      BY <1>5, <2>1
    <2>3. textsNow = {}
      BY <1>8, <2>1, <2>2
    <2>4. QED
      BY <1>9, <2>3 DEF textsNow
  <1>10. CASE pool[k].kind = "operation"
    <2>1. hereNow = here /\ T = S \cup {n + 1}
      BY <1>4, <1>6, <1>10
    <2>2. \A j \in S : File'[j].op = File[j].op /\ blockNow[j] = block[j]
      BY <1>2, <1>5
    <2>3. \A j \in S : j \in textsNow <=> j \in texts
      BY <1>7, <1>8, <2>1, <2>2
    <2>4. n + 1 \in textsNow <=> pool[k].op = op /\ last = here
      BY <1>2, <1>5, <1>8, <2>1
    <2>5. textsNow \subseteq S \cup {n + 1} /\ texts \subseteq S
      BY <1>7, <1>8, <2>1
    <2>6. textsNow = IF pool[k].op = op /\ last = here
                     THEN texts \cup {n + 1} ELSE texts
      <3>1. CASE pool[k].op = op /\ last = here
        <4>1. \A j : j \in textsNow <=> j \in texts \cup {n + 1}
          BY <2>3, <2>4, <2>5, <3>1
        <4>2. QED
          BY <3>1, <4>1
      <3>2. CASE ~(pool[k].op = op /\ last = here)
        <4>1. \A j : j \in textsNow <=> j \in texts
          BY <2>3, <2>4, <2>5, <3>2
        <4>2. QED
          BY <3>2, <4>1
      <3>3. QED
        BY <3>1, <3>2
    <2>7. QED
      BY <1>1, <1>10, <2>6 DEF textsNow, texts, last, here
  <1>11. CASE /\ pool[k].kind # "operation"
              /\ ~(pool[k].kind = "profile" /\ pool[k].name = name)
    <2>1. hereNow = here /\ T = S
      BY <1>4, <1>6, <1>11
    <2>2. \A j \in S : File'[j].op = File[j].op /\ blockNow[j] = block[j]
      BY <1>2, <1>5
    <2>3. textsNow = texts
      BY <1>7, <1>8, <2>1, <2>2
    <2>4. QED
      BY <1>11, <2>3 DEF textsNow, texts
  <1>12. QED
    BY <1>9, <1>10, <1>11

\* The last profile line is the declaration of one profile.
LEMMA LastDeclaration ==
    ASSUME TypeOK, NEW name \in Declared
    PROVE  LastOf(Of("profile")) = Declaration(name) <=>
              /\ LastOf(Of("profile")) # 0
              /\ File[LastOf(Of("profile"))].name = name
  <1>1. PICK n \in Nat : n = Len(lines)
    BY FileIsLines
  <1>2. PICK S \in SUBSET (1 .. n) : S = Of("profile")
    BY <1>1, OfIs
  <1>3. PICK last \in 0 .. n : /\ last = LastOf(S)
                               /\ S # {} => last \in S
                               /\ \A j \in S : j <= last
    BY LastOfIs
  <1>4. PICK here \in 0 .. n : /\ here = Declaration(name)
                               /\ here # 0 /\ here \in S
                               /\ File[here].name = name
                               /\ \A j \in S : File[j].name = name => j <= here
    BY <1>1, <1>2, DeclarationIs
  <1>5. last = here <=> last # 0 /\ File[last].name = name
    <2>1. ASSUME last # 0, File[last].name = name
          PROVE  last = here
      <3>1. last \in S
        BY <1>3, <1>4
      <3>2. last <= here /\ here <= last
        BY <1>3, <1>4, <2>1, <3>1
      <3>3. QED
        BY <3>2
    <2>2. QED
      BY <1>4, <2>1
  <1>6. QED
    BY <1>2, <1>3, <1>4, <1>5

-----------------------------------------------------------------------------
(* Nodes *)

LEMMA AssignmentIs ==
    ASSUME TypeOK, NEW i \in Nat
    PROVE  AssignmentOf(i) \in 0 .. Len(lines)
  <1> DEFINE S == {k \in Of("node") : File[k].id = i}
                  \cup {k \in Of("default-profile") : i < NodesSaid(k)}
  <1>1. S \in SUBSET (1 .. Len(lines)) /\ Len(lines) \in Nat
    BY OfIs, FileIsLines
  <1>2. AssignmentOf(i) = LastOf(S)
    BY DEF AssignmentOf
  <1> HIDE DEF S
  <1>3. QED
    BY <1>1, <1>2, LastOfIs

LEMMA AssignmentGrows ==
    ASSUME TypeOK, NEW k, NextLine(k), NEW i \in Nat
    PROVE  AssignmentOf(i)' =
              IF \/ pool[k].kind = "node" /\ pool[k].id = i
                 \/ pool[k].kind = "default-profile" /\ i < NodesSaid(Len(lines))
              THEN Len(lines) + 1 ELSE AssignmentOf(i)
  <1>1. PICK n \in Nat : n = Len(lines)
    BY FileIsLines
  <1>2. /\ \A j \in 1 .. n : File'[j] = File[j]
        /\ File'[n + 1] = pool[k]
    BY <1>1, FileGrows
  <1>3. PICK N \in SUBSET (1 .. n), D \in SUBSET (1 .. n) :
           N = Of("node") /\ D = Of("default-profile")
    BY <1>1, OfIs
  <1> DEFINE NNow == Of("node")'
             DNow == Of("default-profile")'
             said == [j \in 1 .. n |-> NodesSaid(j)]
             saidNow == [j \in 1 .. n + 1 |-> NodesSaid(j)']
             all == NodesSaid(n)
             A == {j \in N : File[j].id = i}
             B == {j \in D : i < said[j]}
             ANow == {j \in NNow : File'[j].id = i}
             BNow == {j \in DNow : i < saidNow[j]}
             byNode == pool[k].kind = "node" /\ pool[k].id = i
             byDefault == pool[k].kind = "default-profile" /\ i < all
  <1>4. /\ NNow = IF pool[k].kind = "node" THEN N \cup {n + 1} ELSE N
        /\ DNow = IF pool[k].kind = "default-profile" THEN D \cup {n + 1}
                                                      ELSE D
    BY <1>1, <1>3, OfGrows
  <1>5. /\ \A j \in 1 .. n : saidNow[j] = said[j]
        /\ pool[k].kind # "nodes" => saidNow[n + 1] = all
    <2>1. \A j \in 1 .. n : NodesSaid(j)' = NodesSaid(j)
      BY <1>1, SaidBefore
    <2>2. \A m \in {n + 1} : pool[k].kind # "nodes" => NodesSaid(m)' = all
      BY <1>1, SaidNow
    <2>3. QED
      BY <2>1, <2>2
  <1>6. AssignmentOf(i) = LastOf(A \cup B)
    <2>1. {j \in Of("default-profile") : i < NodesSaid(j)} = B
      BY <1>3
    <2>2. {j \in Of("node") : File[j].id = i} = A
      BY <1>3
    <2> HIDE DEF A, B
    <2>3. QED
      BY <2>1, <2>2 DEF AssignmentOf
  <1>7. AssignmentOf(i)' = LastOf(ANow \cup BNow)
    <2>1. {j \in DNow : i < NodesSaid(j)'} = BNow
      <3>1. \A j \in DNow : NodesSaid(j)' = saidNow[j]
        <4>1. DNow \subseteq 1 .. n + 1
          <5> HIDE DEF DNow
          <5>1. DNow = D \/ DNow = D \cup {n + 1}
            BY <1>4
          <5>2. D \subseteq 1 .. n + 1 /\ n + 1 \in 1 .. n + 1
            OBVIOUS
          <5>3. QED
            BY <5>1, <5>2
        <4>2. QED
          BY <4>1
      <3> HIDE DEF DNow, saidNow
      <3>2. QED
        BY <3>1
    <2>2. AssignmentOf(i)' = LastOf(ANow \cup {j \in DNow : i < NodesSaid(j)'})
      BY DEF AssignmentOf
    <2>3. QED
      BY <2>1, <2>2
  <1> HIDE DEF NNow, DNow, said, saidNow, all
  <1>8. ANow = IF byNode THEN A \cup {n + 1} ELSE A
    BY <1>2, <1>4
  <1>9. BNow = IF byDefault THEN B \cup {n + 1} ELSE B
    BY <1>4, <1>5
  <1>10. A \cup B \in SUBSET (1 .. n)
    OBVIOUS
  <1> HIDE DEF A, B, ANow, BNow
  <1>11. ANow \cup BNow = IF byNode \/ byDefault THEN (A \cup B) \cup {n + 1}
                                                 ELSE A \cup B
    BY <1>8, <1>9
  <1>12. LastOf((A \cup B) \cup {n + 1}) = n + 1
    BY <1>10, LastOfGrows
  <1>13. QED
    BY <1>1, <1>6, <1>7, <1>11, <1>12 DEF all

-----------------------------------------------------------------------------
(* One step *)

\* What processConfigLine does to each part of the state.
LEMMA StepCases ==
    ASSUME FileInvariant, NEW k \in DOMAIN pool, ProcessConfigLine(k)
    PROVE  /\ TypeOK /\ NextLine(k)
           /\ pool[k] \in Line
           /\ outcome = "reading"
           /\ outcome' \in {"reading", "rejected", "exit"}
           /\ outcome' = "rejected" =>
                 currentProfile = {} /\ pool[k].kind = "operation"
  <1>1. TypeOK /\ NextLine(k) /\ outcome = "reading"
    BY DEF FileInvariant, ProcessConfigLine, NextLine
  <1>2. pool[k] \in Line
    BY <1>1, FileIsLines
  <1>3. /\ outcome' \in {"reading", "rejected", "exit"}
        /\ outcome' = "rejected" =>
              currentProfile = {} /\ pool[k].kind = "operation"
    BY <1>1 DEF ProcessConfigLine, ProcessNodes, ProcessDuration,
                ProcessProfile, ProcessOperation, SetProfile,
                ProcessDefaultProfile, ProcessNode, ProcessOther
  <1>4. QED
    BY <1>1, <1>2, <1>3

LEMMA CountsStep ==
    ASSUME FileInvariant, NEW k \in DOMAIN pool, ProcessConfigLine(k)
    PROVE  CountsFollow'
  <1>1. TypeOK /\ NextLine(k)
    BY StepCases
  <1>2. nodes = NodesSaid(Len(lines)) /\ duration = DurationSaid
    BY DEF FileInvariant, CountsFollow
  <1>3. /\ nodes' = IF pool[k].kind = "nodes" /\ nodes = 0
                    THEN pool[k].value ELSE nodes
        /\ duration' = IF pool[k].kind = "duration" THEN pool[k].value
                                                    ELSE duration
    BY DEF ProcessConfigLine, ProcessNodes, ProcessDuration,
           ProcessProfile, ProcessOperation, ProcessDefaultProfile,
           ProcessNode, ProcessOther
  <1>4. /\ NodesSaid(Len(lines))' =
              IF pool[k].kind = "nodes" /\ NodesSaid(Len(lines)) = 0
              THEN pool[k].value ELSE NodesSaid(Len(lines))
        /\ DurationSaid' = IF pool[k].kind = "duration" THEN pool[k].value
                                                        ELSE DurationSaid
    BY <1>1, SaidNow, DurationGrows
  <1>5. nodes' = NodesSaid(Len(lines))' /\ duration' = DurationSaid'
    BY <1>2, <1>3, <1>4
  <1>6. QED
    BY <1>5 DEF CountsFollow

\* What ProfilesFollow says of currentProfile.
LEMMA CurrentIs ==
    ASSUME FileInvariant
    PROVE  /\ LastOf(Of("profile")) \in 0 .. Len(lines)
           /\ LastOf(Of("profile")) = 0 <=> currentProfile = {}
           /\ LastOf(Of("profile")) # 0 =>
                 currentProfile = {File[LastOf(Of("profile"))].name}
           /\ currentProfile \subseteq Declared
  <1>1. TypeOK /\ Len(lines) \in Nat
    BY FileIsLines DEF FileInvariant
  <1>2. currentProfile = {File[k].name : k \in {LastOf(Of("profile"))} \ {0}}
    BY DEF FileInvariant, ProfilesFollow
  <1>3. /\ LastOf(Of("profile")) \in 0 .. Len(lines)
        /\ LastOf(Of("profile")) # 0 => LastOf(Of("profile")) \in Of("profile")
    BY <1>1, OfIs, LastOfIs
  <1>4. currentProfile \subseteq Declared
    BY <1>2, <1>3 DEF Declared
  <1>5. QED
    BY <1>2, <1>3, <1>4

LEMMA ProfilesStep ==
    ASSUME FileInvariant, NEW k \in DOMAIN pool, ProcessConfigLine(k)
    PROVE  ProfilesFollow'
  <1>1. TypeOK /\ NextLine(k)
    BY StepCases
  <1>2. DOMAIN profiles = Declared
    BY DEF FileInvariant, ProfilesFollow
  <1>3. PICK n \in Nat : n = Len(lines)
    BY <1>1, FileIsLines
  <1> DEFINE last == LastOf(Of("profile"))
             lastNow == LastOf(Of("profile")')
  <1>4. Of("profile") \in SUBSET (1 .. n)
    BY <1>1, <1>3, OfIs
  <1>5. Of("profile")' = IF pool[k].kind = "profile"
                         THEN Of("profile") \cup {n + 1} ELSE Of("profile")
    BY <1>1, <1>3, OfGrows
  <1>6. last \in 0 .. n /\ LastOf(Of("profile") \cup {n + 1}) = n + 1
    BY <1>4, LastOfIs, LastOfGrows
  <1>7. lastNow = IF pool[k].kind = "profile" THEN n + 1 ELSE last
    BY <1>5, <1>6
  <1>8. /\ \A j \in 1 .. n : File'[j] = File[j]
        /\ File'[n + 1] = pool[k]
    BY <1>1, <1>3, FileGrows
  <1>9. currentProfile = {File[j].name : j \in {last} \ {0}}
    BY DEF FileInvariant, ProfilesFollow
  <1>10. /\ DOMAIN profiles' = IF pool[k].kind = "profile"
                               THEN DOMAIN profiles \cup {pool[k].name}
                               ELSE DOMAIN profiles
         /\ currentProfile' = IF pool[k].kind = "profile"
                              THEN {pool[k].name} ELSE currentProfile
    <2>1. CASE ProcessOperation(pool[k])
      <3>1. DOMAIN profiles' = DOMAIN profiles
        BY <2>1 DEF ProcessOperation, SetProfile
      <3>2. QED
        BY <2>1, <3>1 DEF ProcessOperation
    <2>2. CASE ProcessProfile(pool[k])
      BY <2>2 DEF ProcessProfile, Assign
    <2>3. QED
      BY <2>1, <2>2
         DEF ProcessConfigLine, ProcessNodes, ProcessDuration,
             ProcessDefaultProfile, ProcessNode, ProcessOther
  <1>11. DOMAIN profiles' = Declared'
    BY <1>1, <1>2, <1>10, DeclaredGrows
  <1> HIDE DEF last, lastNow
  <1>12. currentProfile' = {File'[j].name : j \in {lastNow} \ {0}}
    <2>1. CASE pool[k].kind = "profile"
      <3>1. {lastNow} \ {0} = {n + 1}
        BY <1>7, <2>1
      <3>2. {File'[j].name : j \in {n + 1}} = {pool[k].name}
        BY <1>8
      <3>3. QED
        BY <1>10, <2>1, <3>1, <3>2
    <2>2. CASE pool[k].kind # "profile"
      <3>1. lastNow = last
        BY <1>7, <2>2
      <3>2. \A j \in {last} \ {0} : File'[j].name = File[j].name
        BY <1>6, <1>8 DEF last
      <3>3. {File'[j].name : j \in {last} \ {0}} =
               {File[j].name : j \in {last} \ {0}}
        BY <3>2
      <3>4. QED
        BY <1>9, <1>10, <2>2, <3>1, <3>3
    <2>3. QED
      BY <2>1, <2>2
  <1>13. QED
    BY <1>11, <1>12 DEF ProfilesFollow, lastNow

LEMMA TextsStep ==
    ASSUME FileInvariant, NEW k \in DOMAIN pool, ProcessConfigLine(k),
           outcome' # "exit"
    PROVE  TextsFollow'
  <1>1. TypeOK /\ NextLine(k) /\ pool[k] \in Line /\ outcome = "reading"
    BY StepCases
  <1>2. PICK n \in Nat : n = Len(lines)
    BY <1>1, FileIsLines
  <1>3. /\ DOMAIN profiles = Declared
        /\ \A name \in Declared : \A op \in Operations :
              TextsOf(name, op) = {profiles[name][op]} \ {0}
    BY <1>1 DEF FileInvariant, ProfilesFollow, TextsFollow
  <1>4. \A name \in Declared : profiles[name] \in [Operations -> 0 .. n]
    BY <1>1, <1>2, <1>3 DEF TypeOK
  <1>5. SUFFICES ASSUME NEW name \in Declared', NEW op \in Operations
                 PROVE  TextsOf(name, op)' = {profiles'[name][op]} \ {0}
    BY DEF TextsFollow
  <1> DEFINE last == LastOf(Of("profile"))
             here == pool[k].kind = "profile" /\ pool[k].name = name
             adds == /\ pool[k].kind = "operation" /\ pool[k].op = op
                     /\ last = Declaration(name)
  <1>6. TextsOf(name, op)' = IF here THEN {}
                             ELSE IF adds THEN TextsOf(name, op) \cup {n + 1}
                             ELSE TextsOf(name, op)
    BY <1>1, <1>2, TextsGrow
  <1>7. name \in Declared \/ here
    BY <1>1, DeclaredGrows
  <1>8. CASE here
    <2>1. profiles' = Assign(profiles, name, EmptyProfile)
      BY <1>8 DEF ProcessConfigLine, ProcessNodes, ProcessDuration,
                  ProcessProfile, ProcessOperation, ProcessDefaultProfile,
                  ProcessNode, ProcessOther
    <2>2. profiles'[name][op] = 0
      BY <2>1 DEF Assign, EmptyProfile
    <2>3. QED
      BY <1>6, <1>8, <2>2
  <1>9. ASSUME ~here, ~adds, profiles'[name] = profiles[name]
        PROVE  TextsOf(name, op)' = {profiles'[name][op]} \ {0}
    BY <1>3, <1>6, <1>7, <1>9
  <1>10. CASE ~here /\ pool[k].kind # "operation"
    <2>1. profiles' = profiles
          \/ (pool[k].kind = "profile"
              /\ profiles' = Assign(profiles, pool[k].name, EmptyProfile))
      BY <1>10 DEF ProcessConfigLine, ProcessNodes, ProcessDuration,
                   ProcessProfile, ProcessOperation, ProcessDefaultProfile,
                   ProcessNode, ProcessOther
    <2>2. profiles'[name] = profiles[name]
      BY <1>3, <1>7, <1>10, <2>1 DEF Assign
    <2>3. QED
      BY <1>9, <1>10, <2>2
  <1>11. CASE pool[k].kind = "operation"
    <2>1. ~here /\ name \in Declared
      BY <1>7, <1>11
    <2>2. ProcessOperation(pool[k]) /\ pool[k].op \in Operations
      BY <1>1, <1>11
         DEF ProcessConfigLine, ProcessNodes, ProcessDuration,
             ProcessProfile, ProcessDefaultProfile, ProcessNode,
             ProcessOther, Line
    <2>3. last = Declaration(name) <=> name \in currentProfile
      <3>1. last = Declaration(name) <=> last # 0 /\ File[last].name = name
        BY <1>1, <2>1, LastDeclaration
      <3>2. /\ last = 0 <=> currentProfile = {}
            /\ last # 0 => currentProfile = {File[last].name}
        BY CurrentIs
      <3>3. QED
        BY <3>1, <3>2
    <2>4. CASE currentProfile = {}
      <3>1. profiles' = profiles
        BY <2>2, <2>4 DEF ProcessOperation
      <3>2. QED
        BY <1>9, <2>1, <2>3, <2>4, <3>1
    <2>5. ASSUME NEW current \in currentProfile,
                 SetProfile(current, pool[k].op)
          PROVE  TextsOf(name, op)' = {profiles'[name][op]} \ {0}
      <3>1. /\ currentProfile = {current} /\ current \in Declared
        BY CurrentIs, <2>5
      <3>2. /\ profiles[current][pool[k].op] = 0
            /\ profiles' = [profiles EXCEPT ![current][pool[k].op] = n + 1]
        BY <1>2, <2>5 DEF SetProfile
      <3>3. adds <=> name = current /\ op = pool[k].op
        BY <1>11, <2>3, <3>1
      <3>4. CASE name = current /\ op = pool[k].op
        <4>1. profiles'[name][op] = n + 1
          BY <1>3, <1>4, <3>1, <3>2, <3>4
        <4>2. TextsOf(name, op) = {}
          BY <1>3, <2>1, <3>2, <3>4
        <4>3. TextsOf(name, op)' = {n + 1}
          BY <1>6, <2>1, <3>3, <3>4, <4>2
        <4>4. n + 1 # 0
          OBVIOUS
        <4>5. QED
          BY <4>1, <4>3, <4>4
      <3>5. CASE ~(name = current /\ op = pool[k].op)
        <4>1. profiles'[name][op] = profiles[name][op]
          BY <1>3, <1>4, <2>1, <3>1, <3>2, <3>5
        <4>2. TextsOf(name, op)' = TextsOf(name, op)
          BY <1>6, <2>1, <3>3, <3>5
        <4>3. QED
          BY <1>3, <2>1, <4>1, <4>2
      <3>6. QED
        BY <3>4, <3>5
    <2>6. QED
      BY <2>2, <2>4, <2>5 DEF ProcessOperation
  <1>12. QED
    BY <1>8, <1>10, <1>11

LEMMA NodesStep ==
    ASSUME FileInvariant, NEW k \in DOMAIN pool, ProcessConfigLine(k),
           NEW i \in Nat
    PROVE  NodeFollows(i)'
  <1>1. TypeOK /\ NextLine(k) /\ pool[k] \in Line
    BY StepCases
  <1>2. PICK n \in Nat : n = Len(lines)
    BY <1>1, FileIsLines
  <1>3. nodes = NodesSaid(n) /\ nodes \in Nat
    BY <1>1, <1>2 DEF FileInvariant, CountsFollow, TypeOK
  <1>4. PICK a \in 0 .. n : a = AssignmentOf(i)
    BY <1>1, <1>2, AssignmentIs
  <1>5. IF a = 0 THEN i \notin DOMAIN nodeProfiles
        ELSE i \in DOMAIN nodeProfiles /\ nodeProfiles[i] = File[a].name
    BY <1>4 DEF FileInvariant, NodeFollows
  <1>6. /\ \A j \in 1 .. n : File'[j] = File[j]
        /\ File'[n + 1] = pool[k]
    BY <1>1, <1>2, FileGrows
  <1> DEFINE byNode == pool[k].kind = "node" /\ pool[k].id = i
             byDefault == pool[k].kind = "default-profile" /\ i < nodes
  <1>7. AssignmentOf(i)' = IF byNode \/ byDefault THEN n + 1 ELSE a
    BY <1>1, <1>2, <1>3, <1>4, AssignmentGrows
  <1>8. CASE byNode
    <2>1. nodeProfiles' = Assign(nodeProfiles, i, pool[k].name)
      BY <1>8 DEF ProcessConfigLine, ProcessNodes, ProcessDuration,
                  ProcessProfile, ProcessOperation, ProcessDefaultProfile,
                  ProcessNode, ProcessOther
    <2>2. i \in DOMAIN nodeProfiles' /\ nodeProfiles'[i] = pool[k].name
      BY <2>1 DEF Assign
    <2>3. AssignmentOf(i)' = n + 1 /\ n + 1 # 0
      BY <1>7, <1>8
    <2>4. QED
      BY <1>6, <2>2, <2>3 DEF NodeFollows
  <1>9. CASE byDefault
    <2>1. nodeProfiles' =
             [j \in DOMAIN nodeProfiles \cup {m \in 0 .. nodes : m < nodes} |->
                 IF j < nodes THEN pool[k].name ELSE nodeProfiles[j]]
      BY <1>9 DEF ProcessConfigLine, ProcessNodes, ProcessDuration,
                  ProcessProfile, ProcessOperation, ProcessDefaultProfile,
                  ProcessNode, ProcessOther
    <2>2. i \in {m \in 0 .. nodes : m < nodes}
      BY <1>3, <1>9
    <2>3. i \in DOMAIN nodeProfiles' /\ nodeProfiles'[i] = pool[k].name
      BY <1>9, <2>1, <2>2
    <2>4. AssignmentOf(i)' = n + 1 /\ n + 1 # 0
      BY <1>7, <1>9
    <2>5. QED
      BY <1>6, <2>3, <2>4 DEF NodeFollows
  <1>10. CASE ~byNode /\ ~byDefault
    <2>1. /\ i \in DOMAIN nodeProfiles' <=> i \in DOMAIN nodeProfiles
          /\ i \in DOMAIN nodeProfiles => nodeProfiles'[i] = nodeProfiles[i]
      <3>1. CASE ProcessNode(pool[k])
        BY <1>10, <3>1 DEF ProcessNode, Assign
      <3>2. CASE ProcessDefaultProfile(pool[k])
        <4>1. ~(i < nodes)
          BY <1>10, <3>2 DEF ProcessDefaultProfile
        <4>2. QED
          BY <3>2, <4>1 DEF ProcessDefaultProfile
      <3>3. QED
        BY <3>1, <3>2 DEF ProcessConfigLine, ProcessNodes, ProcessDuration,
                          ProcessProfile, ProcessOperation, ProcessOther
    <2>2. AssignmentOf(i)' = a
      BY <1>7, <1>10
    <2>3. a # 0 => File'[a].name = File[a].name
      BY <1>6
    <2>4. QED
      BY <1>5, <2>1, <2>2, <2>3 DEF NodeFollows
  <1>11. QED
    BY <1>8, <1>9, <1>10

LEMMA OutcomeStep ==
    ASSUME FileInvariant, NEW k \in DOMAIN pool, ProcessConfigLine(k)
    PROVE  OutcomeFollows'
  <1>1. /\ TypeOK /\ NextLine(k)
        /\ outcome' \in {"reading", "rejected", "exit"}
        /\ outcome' = "rejected" =>
              currentProfile = {} /\ pool[k].kind = "operation"
    BY StepCases
  <1>2. SUFFICES ASSUME outcome' = "rejected"
                 PROVE  \E j \in Of("operation")' : BlockOf(j)' = 0
    BY <1>1 DEF OutcomeFollows
  <1>3. PICK n \in Nat : n = Len(lines)
    BY <1>1, FileIsLines
  <1>4. n + 1 \in Of("operation")'
    BY <1>1, <1>2, <1>3, OfGrows
  <1>5. \A j \in {n + 1} : BlockOf(j)' = LastOf(Of("profile"))
    BY <1>1, <1>3, BlockOfStays
  <1>6. LastOf(Of("profile")) = 0
    BY <1>1, <1>2, CurrentIs
  <1>7. QED
    BY <1>4, <1>5, <1>6

LEMMA TypeStep ==
    ASSUME FileInvariant, NEW k \in DOMAIN pool, ProcessConfigLine(k)
    PROVE  TypeOK'
  <1>1. TypeOK /\ NextLine(k) /\ pool[k] \in Line /\ outcome = "reading"
        /\ outcome' \in {"reading", "rejected", "exit"}
    BY StepCases
  <1>2. PICK n \in Nat : n = Len(lines)
    BY <1>1, FileIsLines
  <1>3. /\ lines' \in Seq(DOMAIN pool) /\ Len(lines') = n + 1
        /\ pool' = pool /\ option' = option
    BY <1>1, <1>2, FileGrows DEF NextLine
  <1>4. pool[k].kind \in {"profile", "default-profile", "node"} =>
           pool[k].name \in Names
    <2>1. pool[k] \in UNION {Range(p) : p \in Pools}
      BY <1>1 DEF TypeOK, Range
    <2>2. QED
      BY <2>1 DEF Names
  <1>5. /\ pool[k].kind \in {"nodes", "duration"} => pool[k].value \in Nat
        /\ pool[k].kind = "node" => pool[k].id \in Nat
        /\ pool[k].kind = "operation" => pool[k].op \in Operations
    BY <1>1 DEF Line
  <1>6. /\ nodes \in Nat /\ duration \in Nat
        /\ DOMAIN profiles \subseteq Names
        /\ \A name \in DOMAIN profiles :
              profiles[name] \in [Operations -> 0 .. n]
        /\ DOMAIN nodeProfiles \subseteq Nat
        /\ \A i \in DOMAIN nodeProfiles : nodeProfiles[i] \in Names
    BY <1>1, <1>2 DEF TypeOK
  <1>7. nodes' \in Nat /\ duration' \in Nat
    BY <1>5, <1>6
       DEF ProcessConfigLine, ProcessNodes, ProcessDuration,
           ProcessProfile, ProcessOperation, ProcessDefaultProfile,
           ProcessNode, ProcessOther
  <1>8. /\ DOMAIN profiles' \subseteq Names
        /\ \A name \in DOMAIN profiles' :
              profiles'[name] \in [Operations -> 0 .. n + 1]
    <2>1. \A name \in DOMAIN profiles :
             profiles[name] \in [Operations -> 0 .. n + 1]
      <3>1. \A m \in 0 .. n : m \in 0 .. n + 1
        OBVIOUS
      <3>2. QED
        BY <1>6, <3>1
    <2>2. CASE ProcessProfile(pool[k])
      <3>1. /\ profiles' = Assign(profiles, pool[k].name, EmptyProfile)
            /\ pool[k].name \in Names
        BY <1>4, <2>2 DEF ProcessProfile
      <3>2. EmptyProfile \in [Operations -> 0 .. n + 1]
        BY DEF EmptyProfile
      <3>3. QED
        BY <1>6, <2>1, <3>1, <3>2 DEF Assign
    <2>3. CASE ProcessOperation(pool[k])
      <3>1. CASE UNCHANGED profiles
        BY <1>6, <2>1, <3>1
      <3>2. ASSUME NEW current,
                   profiles' = [profiles EXCEPT
                                   ![current][pool[k].op] = Len(lines) + 1]
            PROVE  /\ DOMAIN profiles' \subseteq Names
                   /\ \A name \in DOMAIN profiles' :
                         profiles'[name] \in [Operations -> 0 .. n + 1]
        <4>1. Len(lines) + 1 \in 0 .. n + 1
          BY <1>2
        <4>2. DOMAIN profiles' = DOMAIN profiles
          BY <3>2
        <4>3. ASSUME NEW name \in DOMAIN profiles
              PROVE  profiles'[name] \in [Operations -> 0 .. n + 1]
          BY <2>1, <3>2, <4>1
        <4>4. QED
          BY <1>6, <4>2, <4>3
      <3>3. QED
        BY <2>3, <3>1, <3>2 DEF ProcessOperation, SetProfile
    <2>4. QED
      BY <1>6, <2>1, <2>2, <2>3
         DEF ProcessConfigLine, ProcessNodes, ProcessDuration,
             ProcessDefaultProfile, ProcessNode, ProcessOther
  <1>9. /\ DOMAIN nodeProfiles' \subseteq Nat
        /\ \A i \in DOMAIN nodeProfiles' : nodeProfiles'[i] \in Names
    <2>1. CASE ProcessNode(pool[k])
      BY <1>4, <1>5, <1>6, <2>1 DEF ProcessNode, Assign
    <2>2. CASE ProcessDefaultProfile(pool[k])
      BY <1>4, <1>6, <2>2 DEF ProcessDefaultProfile
    <2>3. QED
      BY <1>6, <2>1, <2>2
         DEF ProcessConfigLine, ProcessNodes, ProcessDuration,
             ProcessProfile, ProcessOperation, ProcessOther
  <1>10. ProfilesFollow'
    BY ProfilesStep
  <1>11. currentProfile' \subseteq DOMAIN profiles'
    <2>1. currentProfile \subseteq DOMAIN profiles
      BY <1>1 DEF TypeOK
    <2>2. CASE ProcessProfile(pool[k])
      BY <2>2 DEF ProcessProfile, Assign
    <2>3. CASE ProcessOperation(pool[k])
      <3>1. DOMAIN profiles' = DOMAIN profiles
        BY <2>3 DEF ProcessOperation, SetProfile
      <3>2. QED
        BY <2>1, <2>3, <3>1 DEF ProcessOperation
    <2>4. QED
      BY <2>1, <2>2, <2>3
         DEF ProcessConfigLine, ProcessNodes, ProcessDuration,
             ProcessDefaultProfile, ProcessNode, ProcessOther
  <1>12. Cardinality(currentProfile') <= 1
    <2>1. currentProfile' = currentProfile \/ currentProfile' = {pool[k].name}
      BY DEF ProcessConfigLine, ProcessNodes, ProcessDuration,
             ProcessProfile, ProcessOperation, ProcessDefaultProfile,
             ProcessNode, ProcessOther
    <2>2. Cardinality(currentProfile) <= 1
      BY <1>1 DEF TypeOK
    <2>3. Cardinality({pool[k].name}) = 1
      BY FS_Singleton
    <2>4. QED
      BY <2>1, <2>2, <2>3
  <1>13. pool' \in Pools /\ option' \in NodesOptions /\ outcome' \in Outcomes
    BY <1>1, <1>3 DEF TypeOK, Outcomes
  <1>14. QED
    BY <1>3, <1>7, <1>8, <1>9, <1>11, <1>12, <1>13 DEF TypeOK

\* The end of the file, and after it.
LEMMA FileElsewhere ==
    ASSUME FileInvariant, EndOfFile \/ UNCHANGED vars
    PROVE  FileInvariant'
  <1>1. UNCHANGED <<pool, option, lines, nodes, duration, profiles,
                    nodeProfiles, currentProfile>>
    BY DEF EndOfFile, vars
  <1>2. outcome' \in {"loaded", "rejected", outcome}
    BY DEF EndOfFile, vars
  <1>3. TypeOK'
    BY <1>1, <1>2 DEF FileInvariant, TypeOK, Outcomes
  <1>4. File' = File
    BY <1>1 DEF File
  <1>5. /\ \A kind : Of(kind)' = Of(kind)
        /\ Checks' = Checks
    BY <1>1, <1>4 DEF Of, Checks, IsComplete
  <1>6. /\ \A n : NodesSaid(n)' = NodesSaid(n)
        /\ DurationSaid' = DurationSaid
        /\ \A j : BlockOf(j)' = BlockOf(j)
        /\ \A name : Declaration(name)' = Declaration(name)
        /\ Declared' = Declared
    BY <1>1, <1>4, <1>5
       DEF NodesSaid, DurationSaid, BlockOf, Declaration, Declared
  <1>7. CountsFollow' /\ ProfilesFollow'
    BY <1>1, <1>4, <1>5, <1>6 DEF FileInvariant, CountsFollow, ProfilesFollow,
                                  NodesSaid
  <1>8. TextsFollow'
    <2>1. \A name, op : TextsOf(name, op)' = TextsOf(name, op)
      BY <1>4, <1>5, <1>6 DEF TextsOf
    <2>2. outcome' # "exit" => outcome # "exit"
      BY DEF EndOfFile, vars
    <2>3. QED
      BY <1>1, <1>6, <2>1, <2>2 DEF FileInvariant, TextsFollow
  <1>9. \A i \in Nat : NodeFollows(i)'
    <2>1. \A i : AssignmentOf(i)' = AssignmentOf(i)
      BY <1>4, <1>5, <1>6 DEF AssignmentOf
    <2>2. QED
      BY <1>1, <1>4, <2>1 DEF FileInvariant, NodeFollows
  <1>10. OutcomeFollows'
    <2>1. CASE EndOfFile
      <3>1. outcome' = IF Checks THEN "loaded" ELSE "rejected"
        BY <2>1 DEF EndOfFile
      <3>2. QED
        BY <1>5, <3>1 DEF OutcomeFollows
    <2>2. CASE UNCHANGED vars
      BY <1>5, <1>6, <2>2 DEF FileInvariant, OutcomeFollows, vars
    <2>3. QED
      BY <2>1, <2>2
  <1>11. QED
    BY <1>3, <1>7, <1>8, <1>9, <1>10 DEF FileInvariant

LEMMA FileStep ==
    ASSUME FileInvariant, [Next]_vars
    PROVE  FileInvariant'
  <1>1. ASSUME NEW k \in DOMAIN pool, ProcessConfigLine(k)
        PROVE  FileInvariant'
    <2>1. TypeOK' /\ CountsFollow' /\ ProfilesFollow' /\ OutcomeFollows'
      BY <1>1, TypeStep, CountsStep, ProfilesStep, OutcomeStep
    <2>2. TextsFollow'
      <3>1. CASE outcome' = "exit"
        BY <3>1 DEF TextsFollow
      <3>2. QED
        BY <1>1, <3>1, TextsStep
    <2>3. \A i \in Nat : NodeFollows(i)'
      BY <1>1, NodesStep
    <2>4. QED
      BY <2>1, <2>2, <2>3 DEF FileInvariant
  <1>2. CASE EndOfFile \/ UNCHANGED vars
    BY <1>2, FileElsewhere
  <1>3. QED
    BY <1>1, <1>2 DEF Next, Done

LEMMA FileInit ==
    ASSUME Init
    PROVE  FileInvariant
  <1>1. /\ pool \in Pools /\ option \in NodesOptions /\ option \in Nat
        /\ lines = <<>> /\ nodes = option /\ duration = 0
        /\ profiles = <<>> /\ nodeProfiles = <<>> /\ currentProfile = {}
        /\ outcome = "reading"
    BY NodesOptionsAssumption DEF Init
  <1>2. /\ lines \in Seq(DOMAIN pool) /\ Len(lines) = 0
        /\ DOMAIN profiles = {} /\ DOMAIN nodeProfiles = {}
    <2>1. \A s : s = <<>> => DOMAIN s = {} /\ Len(s) = 0
      BY EmptySeq
    <2>2. QED
      BY <1>1, <2>1, EmptySeq
  <1>3. Cardinality(currentProfile) = 0
    BY <1>1, FS_EmptySet
  <1>4. TypeOK
    BY <1>1, <1>2, <1>3 DEF TypeOK, Outcomes
  <1>5. \A kind : Of(kind) = {}
    BY <1>2 DEF Of
  <1>6. LastOf({}) = 0
    BY DEF LastOf
  <1>7. CountsFollow
    <2>1. \A n : NodesSaid(n) = option
      BY <1>5 DEF NodesSaid
    <2>2. QED
      BY <1>1, <1>5, <2>1 DEF CountsFollow, DurationSaid
  <1>8. ProfilesFollow /\ TextsFollow
    <2>1. Declared = {}
      BY <1>5 DEF Declared
    <2>2. currentProfile =
             {File[k].name : k \in {LastOf(Of("profile"))} \ {0}}
      BY <1>1, <1>5, <1>6
    <2>3. QED
      BY <1>2, <2>1, <2>2 DEF ProfilesFollow, TextsFollow
  <1>9. OutcomeFollows
    BY <1>1 DEF OutcomeFollows
  <1>10. \A i \in Nat : NodeFollows(i)
    <2>1. \A i : AssignmentOf(i) = 0
      <3>1. {} \cup {} = {}
        OBVIOUS
      <3>2. QED
        BY <1>5, <1>6, <3>1 DEF AssignmentOf
    <2>2. QED
      BY <1>2, <2>1 DEF NodeFollows
  <1>11. QED
    BY <1>4, <1>7, <1>8, <1>9, <1>10 DEF FileInvariant

-----------------------------------------------------------------------------
(* The verdict *)

\* What the checks of loadConfig find is what the file says.
LEMMA ChecksSay ==
    ASSUME FileInvariant, outcome # "exit"
    PROVE  Checks <=> WellFormed
  <1>1. TypeOK /\ nodes \in Nat
    BY DEF FileInvariant, TypeOK
  <1>2. /\ nodes = NodesSaid(Len(lines)) /\ duration = DurationSaid
        /\ DOMAIN profiles = Declared
    BY DEF FileInvariant, CountsFollow, ProfilesFollow
  <1>3. \A name \in Declared :
           IsComplete(name) <=> \A op \in Operations : TextsOf(name, op) # {}
    <2>1. ASSUME NEW name \in Declared, NEW op \in Operations
          PROVE  profiles[name][op] # 0 <=> TextsOf(name, op) # {}
      <3>1. TextsOf(name, op) = {profiles[name][op]} \ {0}
        BY DEF FileInvariant, TextsFollow
      <3>2. QED
        BY <3>1
    <2>2. QED
      BY <2>1 DEF IsComplete
  <1>4. \A i \in 0 .. nodes - 1 :
           (i \in DOMAIN nodeProfiles /\ nodeProfiles[i] \in DOMAIN profiles)
           <=> (AssignmentOf(i) # 0
                /\ File[AssignmentOf(i)].name \in Declared)
    <2>1. ASSUME NEW i \in Nat
          PROVE  (i \in DOMAIN nodeProfiles
                  /\ nodeProfiles[i] \in DOMAIN profiles)
                 <=> (AssignmentOf(i) # 0
                      /\ File[AssignmentOf(i)].name \in Declared)
      <3>1. NodeFollows(i)
        BY DEF FileInvariant
      <3>2. QED
        BY <1>2, <3>1 DEF NodeFollows
    <2>2. QED
      BY <1>1, <2>1
  <1>5. \A i : (i \in 0 .. nodes /\ i < nodes) <=> i \in 0 .. nodes - 1
    BY <1>1
  <1>6. Checks <=> /\ nodes # 0 /\ duration # 0 /\ Declared # {}
                   /\ \A name \in Declared : IsComplete(name)
                   /\ \A i \in 0 .. nodes - 1 :
                         i \in DOMAIN nodeProfiles
                         /\ nodeProfiles[i] \in DOMAIN profiles
    BY <1>2, <1>5 DEF Checks
  <1>7. WellFormed <=> /\ nodes # 0 /\ duration # 0 /\ Declared # {}
                       /\ \A name \in Declared : \A op \in Operations :
                             TextsOf(name, op) # {}
                       /\ \A i \in 0 .. nodes - 1 :
                             AssignmentOf(i) # 0
                             /\ File[AssignmentOf(i)].name \in Declared
    BY <1>2 DEF WellFormed
  <1>8. QED
    BY <1>3, <1>4, <1>6, <1>7

LEMMA VerdictFollows ==
    ASSUME FileInvariant
    PROVE  VerdictInvariant
  <1>1. TypeOK /\ OutcomeFollows
    BY DEF FileInvariant
  <1>2. outcome = "loaded" => WellFormed
    BY <1>1, ChecksSay DEF OutcomeFollows
  <1>3. outcome = "rejected" =>
           ~WellFormed \/ \E k \in Of("operation") : BlockOf(k) = 0
    BY <1>1, ChecksSay DEF OutcomeFollows
  <1>4. QED
    BY <1>1, <1>2, <1>3 DEF VerdictInvariant, LoadsWellFormedFiles

LEMMA TextsAreSaid ==
    ASSUME FileInvariant
    PROVE  NodesGetWhatTheFileSays
  <1>1. SUFFICES ASSUME outcome = "loaded"
                 PROVE  /\ nodes = NodesSaid(Len(lines))
                        /\ \A i \in 0 .. nodes - 1 : \A op \in Operations :
                              TextsOf(File[AssignmentOf(i)].name, op) =
                                 {GetNodeProfile(i)[op]}
    BY DEF NodesGetWhatTheFileSays
  <1>2. nodes = NodesSaid(Len(lines))
    BY DEF FileInvariant, CountsFollow
  <1>3. WellFormed
    BY <1>1, VerdictFollows DEF VerdictInvariant, LoadsWellFormedFiles
  <1>4. SUFFICES ASSUME NEW i \in 0 .. nodes - 1, NEW op \in Operations
                 PROVE  TextsOf(File[AssignmentOf(i)].name, op) =
                           {GetNodeProfile(i)[op]}
    BY <1>2
  <1> DEFINE name == File[AssignmentOf(i)].name
  <1>5. AssignmentOf(i) # 0 /\ name \in Declared
    BY <1>2, <1>3 DEF WellFormed
  <1>6. nodeProfiles[i] = name
    <2>1. i \in Nat
      BY <1>2 DEF FileInvariant, TypeOK
    <2>2. QED
      BY <1>5, <2>1 DEF FileInvariant, NodeFollows
  <1>7. TextsOf(name, op) = {profiles[name][op]} \ {0}
    BY <1>1, <1>5 DEF FileInvariant, TextsFollow
  <1>8. TextsOf(name, op) # {}
    BY <1>3, <1>5 DEF WellFormed
  <1>9. TextsOf(name, op) = {profiles[name][op]}
    BY <1>7, <1>8
  <1>10. QED
    BY <1>6, <1>9 DEF GetNodeProfile

(***************************************************************************)
(* loadConfig (MasterWorkload.cpp) returns true only for a file that gives *)
(* every node a complete profile, and rejects no other file that begins    *)
(* its operations with a profile: whatever its lines, and their order.     *)
(***************************************************************************)
THEOREM VerdictCorrect == Spec => []VerdictInvariant
  <1>1. Init => FileInvariant
    BY FileInit
  <1>2. FileInvariant /\ [Next]_vars => FileInvariant'
    BY FileStep
  <1>3. FileInvariant => VerdictInvariant
    BY VerdictFollows
  <1>4. QED
    BY <1>1, <1>2, <1>3, PTL DEF Spec

(***************************************************************************)
(* The texts getNodeProfile gives for a node are those which the file has  *)
(* below the last declaration of the profile that its last line about the  *)
(* node names: processConfigLine loses none, mixes none and keeps none of  *)
(* an earlier declaration.                                                 *)
(***************************************************************************)
THEOREM TextsCorrect == Spec => []NodesGetWhatTheFileSays
  <1>1. Init => FileInvariant
    BY FileInit
  <1>2. FileInvariant /\ [Next]_vars => FileInvariant'
    BY FileStep
  <1>3. FileInvariant => NodesGetWhatTheFileSays
    BY TextsAreSaid
  <1>4. QED
    BY <1>1, <1>2, <1>3, PTL DEF Spec

-----------------------------------------------------------------------------
(* The result files *)

LEMMA OutputFacts ==
    /\ Len(OutputOrder) \in Nat \ {0}
    /\ DOMAIN OutputOrder = 1 .. Len(OutputOrder)
    /\ Len(OutputOrder) \in 1 .. Len(OutputOrder)
    /\ \A k \in DOMAIN OutputOrder : OutputOrder[k] \in Range(OutputOrder)
    /\ \A j, k \in DOMAIN OutputOrder :
          OutputOrder[j] = OutputOrder[k] => j = k
    /\ \A f \in Range(OutputOrder) :
          \E k \in DOMAIN OutputOrder : OutputOrder[k] = f
  <1>1. /\ OutputOrder \in Seq(Range(OutputOrder))
        /\ \A j, k \in DOMAIN OutputOrder :
              OutputOrder[j] = OutputOrder[k] => j = k
        /\ <<"status", "nodes">> \in Range(OutputOrder)
    BY ResultsAssumption DEF IsInjective, Range
  <1>2. Len(OutputOrder) \in Nat /\ DOMAIN OutputOrder = 1 .. Len(OutputOrder)
    BY <1>1
  <1>3. DOMAIN OutputOrder # {}
    BY <1>1 DEF Range
  <1>4. QED
    BY <1>1, <1>2, <1>3 DEF Range

LEMMA RowsAre ==
    ASSUME OutputTypeOK, NEW k \in DOMAIN OutputOrder
    PROVE  Rows(k) \in Nat /\ files[OutputOrder[k]].headers \in Nat
  BY OutputFacts DEF OutputTypeOK, Rows

LEMMA OutputInit ==
    ASSUME ResultsInit
    PROVE  OutputInvariant
  <1>1. /\ files = [f \in Range(OutputOrder) |-> [headers |-> 0, rows |-> 0]]
        /\ processed = 0 /\ phase = "running" /\ completed = 0
    BY DEF ResultsInit, EmptyFile
  <1>2. PICK n \in Nat \ {0} : n = Len(OutputOrder) /\ n \in DOMAIN OutputOrder
    BY OutputFacts, Zenon
  <1>3. \A k \in DOMAIN OutputOrder : Rows(k) = 0 /\ ~Written(k)
    BY <1>1, OutputFacts DEF Rows, Written
  <1>4. OutputTypeOK /\ OneHeader
    BY <1>1, <1>2 DEF OutputTypeOK, OneHeader
  <1>5. RowsInOrder
    BY <1>3 DEF RowsInOrder
  <1>6. RunsCounted
    BY <1>1, <1>2, <1>3 DEF RunsCounted, Complete
  <1>7. QED
    BY <1>4, <1>5, <1>6 DEF OutputInvariant

\* process() writes one more file.
LEMMA OutputWritten ==
    ASSUME OutputInvariant, ProcessNext
    PROVE  OutputInvariant'
  <1>1. /\ OutputTypeOK /\ OneHeader /\ RowsInOrder /\ RunsCounted
    BY DEF OutputInvariant
  <1>2. /\ files \in [Range(OutputOrder) -> [headers : Nat, rows : Nat]]
        /\ completed \in Nat /\ processed \in 0 .. Len(OutputOrder)
    BY <1>1 DEF OutputTypeOK
  <1>3. /\ phase = "processing" /\ phase' = "processing"
        /\ processed < Len(OutputOrder)
        /\ processed' = processed + 1 /\ completed' = completed
        /\ files' = [files EXCEPT ![OutputOrder[processed + 1]] =
                        AppendRow(files[OutputOrder[processed + 1]])]
    BY DEF ProcessNext
  <1>4. PICK n \in Nat \ {0}, p \in Nat :
           /\ n = Len(OutputOrder) /\ p = processed /\ p < n
           /\ p + 1 \in 1 .. n /\ n \in 1 .. n
           /\ DOMAIN OutputOrder = 1 .. n
    <2>1. PICK n \in Nat \ {0} :
             n = Len(OutputOrder) /\ DOMAIN OutputOrder = 1 .. n
      BY OutputFacts
    <2>2. PICK p \in 0 .. n : p = processed
      BY <1>2, <2>1
    <2>3. p < n
      BY <1>3, <2>1, <2>2
    <2>4. p \in Nat /\ p + 1 \in 1 .. n /\ n \in 1 .. n
      BY <2>3
    <2>5. QED
      BY <2>1, <2>2, <2>3, <2>4
  <1>5. PICK new \in Range(OutputOrder) :
           /\ new = OutputOrder[p + 1]
           /\ \A k \in 1 .. n : OutputOrder[k] = new => k = p + 1
    BY <1>4, OutputFacts
  <1>6. files' = [files EXCEPT ![new] = AppendRow(files[new])]
    BY <1>3, <1>4, <1>5
  <1>7. PICK h \in Nat, r \in Nat : /\ files[new] = [headers |-> h, rows |-> r]
                                    /\ h = IF r = 0 THEN 0 ELSE 1
    BY <1>1, <1>2 DEF OneHeader
  <1>8. AppendRow(files[new]) = [headers |-> 1, rows |-> r + 1]
    <2>1. AppendRow(files[new]) =
             [headers |-> IF files[new] = [headers |-> 0, rows |-> 0] THEN 1
                          ELSE h,
              rows |-> r + 1]
      BY <1>7 DEF AppendRow, EmptyFile
    <2>2. CASE r = 0
      BY <1>7, <2>1, <2>2
    <2>3. CASE r # 0
      BY <1>7, <2>1, <2>3
    <2>4. QED
      BY <2>2, <2>3
  <1>9. [headers |-> 1, rows |-> r + 1] \in [headers : Nat, rows : Nat]
    OBVIOUS
  <1>10. /\ files' \in [Range(OutputOrder) -> [headers : Nat, rows : Nat]]
         /\ files'[new] = [headers |-> 1, rows |-> r + 1]
         /\ \A f \in Range(OutputOrder) : f # new => files'[f] = files[f]
    BY <1>2, <1>6, <1>8, <1>9
  <1>11. OutputTypeOK'
    BY <1>2, <1>3, <1>4, <1>10 DEF OutputTypeOK
  <1>12. OneHeader'
    <2>1. ASSUME NEW f \in Range(OutputOrder)
          PROVE  files'[f].headers = IF files'[f].rows = 0 THEN 0 ELSE 1
      <3>1. CASE f = new
        <4>1. files'[f].headers = 1 /\ files'[f].rows = r + 1 /\ r + 1 # 0
          BY <1>10, <3>1
        <4>2. QED
          BY <4>1
      <3>2. CASE f # new
        BY <1>1, <1>10, <3>2 DEF OneHeader
      <3>3. QED
        BY <3>1, <3>2
    <2>2. QED
      BY <2>1 DEF OneHeader
  <1>13. \A k \in 1 .. n : Rows(k) \in Nat
    BY <1>1, <1>4, RowsAre
  <1>14. Rows(p + 1) = r /\ Rows(p + 1)' = r + 1
    BY <1>5, <1>7, <1>10 DEF Rows
  <1>15. \A k \in 1 .. n : k # p + 1 => Rows(k)' = Rows(k)
    <2>1. ASSUME NEW k \in 1 .. n, k # p + 1
          PROVE  Rows(k)' = Rows(k)
      <3>1. OutputOrder[k] \in Range(OutputOrder) /\ OutputOrder[k] # new
        BY <1>4, <1>5, <2>1, OutputFacts
      <3>2. QED
        BY <1>10, <3>1 DEF Rows
    <2>2. QED
      BY <2>1
  <1>16. \A k \in 1 .. n : /\ Written(k) <=> k <= p
                           /\ Written(k)' <=> k <= p + 1
    BY <1>3, <1>4 DEF Written
  <1>17. RowsInOrder'
    <2>1. ASSUME NEW j \in 1 .. n, NEW k \in 1 .. n, j < k
          PROVE  /\ Rows(j)' >= Rows(k)'
                 /\ Written(j)' /\ ~Written(k)' => Rows(j)' > Rows(k)'
      <3>1. PICK a \in Nat, b \in Nat : a = Rows(j) /\ b = Rows(k)
        BY <1>13
      <3>2. a >= b /\ (j <= p /\ ~(k <= p) => a > b)
        BY <1>1, <1>4, <1>16, <2>1, <3>1 DEF RowsInOrder
      <3>3. /\ Rows(j)' = IF j = p + 1 THEN a + 1 ELSE a
            /\ Rows(k)' = IF k = p + 1 THEN b + 1 ELSE b
        BY <1>14, <1>15, <3>1
      <3>4. QED
        BY <1>16, <2>1, <3>2, <3>3
    <2>2. QED
      BY <1>4, <2>1 DEF RowsInOrder
  <1>18. RunsCounted'
    <2>1. Rows(n) = completed
      <3>1. ~Written(n) /\ Rows(n) = Complete(n)
        BY <1>1, <1>4, <1>16 DEF RunsCounted
      <3>2. QED
        BY <3>1 DEF Complete
    <2>2. Complete(n)' = IF n = p + 1 THEN completed + 1 ELSE completed
      <3>1. Written(n)' <=> n = p + 1
        BY <1>4, <1>16
      <3>2. QED
        BY <1>3, <3>1 DEF Complete
    <2>3. Rows(n)' = IF n = p + 1 THEN completed + 1 ELSE completed
      BY <1>4, <1>14, <1>15, <2>1
    <2>4. Rows(n)' = Complete(n)'
      BY <2>2, <2>3
    <2>5. QED
      BY <1>4, <2>4 DEF RunsCounted
  <1>19. QED
    BY <1>11, <1>12, <1>17, <1>18 DEF OutputInvariant

\* Nothing is written; a file that is behind another stays behind it.
LEMMA OutputElsewhere ==
    ASSUME OutputInvariant, OutputTypeOK',
           files' = files,
           \A j, k \in DOMAIN OutputOrder :
              Written(j)' /\ ~Written(k)' => Written(j) /\ ~Written(k),
           Complete(Len(OutputOrder))' = Complete(Len(OutputOrder))
    PROVE  OutputInvariant'
  <1>1. OneHeader /\ RowsInOrder /\ RunsCounted
    BY DEF OutputInvariant
  <1>2. \A k : Rows(k)' = Rows(k)
    BY DEF Rows
  <1>3. OneHeader'
    BY <1>1 DEF OneHeader
  <1>4. RowsInOrder'
    BY <1>1, <1>2 DEF RowsInOrder
  <1>5. RunsCounted'
    BY <1>1, <1>2 DEF RunsCounted
  <1>6. QED
    BY <1>3, <1>4, <1>5 DEF OutputInvariant

LEMMA OutputStep ==
    ASSUME OutputInvariant, [ResultsNext]_resultsVars
    PROVE  OutputInvariant'
  <1>1. PICK n \in Nat \ {0} :
           n = Len(OutputOrder) /\ DOMAIN OutputOrder = 1 .. n /\ n \in 1 .. n
    BY OutputFacts, Zenon
  <1>2. /\ files \in [Range(OutputOrder) -> [headers : Nat, rows : Nat]]
        /\ completed \in Nat /\ processed \in 0 .. n
        /\ phase = "running" => processed = 0
    BY <1>1 DEF OutputInvariant, OutputTypeOK
  <1>3. ASSUME files' = files, completed' \in Nat, processed' \in 0 .. n,
               phase' = "running" => processed' = 0,
               \A j, k \in 1 .. n :
                  Written(j)' /\ ~Written(k)' => Written(j) /\ ~Written(k),
               Complete(n)' = Complete(n)
        PROVE  OutputInvariant'
    <2>1. OutputTypeOK'
      BY <1>1, <1>2, <1>3 DEF OutputTypeOK
    <2>2. Complete(Len(OutputOrder))' = Complete(Len(OutputOrder))
      BY <1>1, <1>3
    <2>3. QED
      BY <1>1, <1>3, <2>1, <2>2, OutputElsewhere
  <1>4. ASSUME UNCHANGED <<files, completed, processed, phase>>
        PROVE  OutputInvariant'
    <2>1. \A k : Written(k)' = Written(k)
      BY <1>4 DEF Written
    <2>2. Complete(n)' = Complete(n)
      BY <1>4, <2>1 DEF Complete
    <2>3. QED
      BY <1>2, <1>3, <1>4, <2>1, <2>2
  <1>5. CASE ProcessNext
    BY <1>5, OutputWritten
  <1>6. CASE Stop
    <2>1. /\ UNCHANGED <<files, completed, processed>>
          /\ phase = "running" /\ phase' = "processing"
      BY <1>6 DEF Stop, fileVars
    <2>2. \A k \in 1 .. n : ~Written(k) /\ ~Written(k)'
      BY <1>2, <2>1 DEF Written
    <2>3. Complete(n)' = Complete(n)
      BY <1>1, <2>1, <2>2 DEF Complete
    <2>4. QED
      BY <1>2, <1>3, <2>1, <2>2, <2>3
  <1>7. CASE OpenFails
    <2>1. /\ UNCHANGED <<files, completed, processed>> /\ processed < n
          /\ phase' = "exit"
      BY <1>1, <1>7 DEF OpenFails, fileVars
    <2>2. ~Written(n) /\ \A k \in 1 .. n : ~Written(k)'
      BY <1>1, <1>2, <2>1 DEF Written
    <2>3. Complete(n)' = Complete(n)
      BY <1>1, <2>1, <2>2 DEF Complete
    <2>4. QED
      BY <1>2, <1>3, <2>1, <2>2, <2>3
  <1>8. CASE ProcessReturns
    <2>1. /\ UNCHANGED <<files, processed>> /\ processed = n
          /\ phase = "processing" /\ phase' = "done"
          /\ completed' = completed + 1
      BY <1>1, <1>8 DEF ProcessReturns
    <2>2. Written(n) /\ \A k \in 1 .. n : ~Written(k)'
      BY <1>1, <2>1 DEF Written
    <2>3. Complete(n)' = Complete(n)
      BY <1>1, <2>1, <2>2 DEF Complete
    <2>4. completed' \in Nat
      BY <1>2, <2>1
    <2>5. QED
      BY <1>2, <1>3, <2>1, <2>2, <2>3, <2>4
  <1>9. CASE NextRun
    <2>1. /\ UNCHANGED <<files, completed>> /\ processed' = 0
          /\ phase # "processing" /\ phase' = "running"
      BY <1>9 DEF NextRun
    <2>2. \A k \in 1 .. n : ~Written(k) /\ ~Written(k)'
      BY <2>1 DEF Written
    <2>3. Complete(n)' = Complete(n)
      BY <1>1, <2>1, <2>2 DEF Complete
    <2>4. 0 \in 0 .. n
      OBVIOUS
    <2>5. QED
      BY <1>2, <1>3, <2>1, <2>2, <2>3, <2>4
  <1>10. CASE \/ \E m \in Nodes, op \in Measured, t \in Times,
                    d \in Latencies, success \in BOOLEAN :
                    ProcessEvent(m, op, t, d, success)
              \/ \E m \in Nodes : PushResult(m)
              \/ AllRunsDone \/ UNCHANGED resultsVars
    BY <1>4, <1>10 DEF ProcessEvent, PushResult, AllRunsDone, resultsVars,
                       fileVars
  <1>11. QED
    <2>1. CASE ResultsNext
      BY <1>5, <1>6, <1>7, <1>8, <1>9, <1>10, <2>1 DEF ResultsNext
    <2>2. CASE UNCHANGED resultsVars
      BY <1>10, <2>2
    <2>3. QED
      BY <2>1, <2>2

(***************************************************************************)
(* However many masters run in a directory and whatever file each of them  *)
(* could not open (ResultProcessor.cpp), each result file has one header,  *)
(* the files that process() writes first never have fewer rows, and        *)
(* nodes-status.csv has a row for each run that process() finished.        *)
(***************************************************************************)
THEOREM FilesCorrect == ResultsSpec => []FilesInStep
  <1>1. ResultsInit => OutputInvariant
    BY OutputInit
  <1>2. OutputInvariant /\ [ResultsNext]_resultsVars => OutputInvariant'
    BY OutputStep
  <1>3. OutputInvariant => FilesInStep
    <2>1. SUFFICES ASSUME OutputInvariant PROVE FilesInStep
      OBVIOUS
    <2>2. OutputTypeOK /\ OneHeader /\ RowsInOrder /\ RunsCounted
      BY <2>1 DEF OutputInvariant
    <2>3. DOMAIN files = Range(OutputOrder)
      BY <2>2 DEF OutputTypeOK
    <2>4. phase # "processing" => Rows(Len(OutputOrder)) = completed
      BY <2>2 DEF RunsCounted, Complete, Written
    <2>5. \A f \in DOMAIN files :
             files[f].headers = IF files[f].rows = 0 THEN 0 ELSE 1
      BY <2>2, <2>3 DEF OneHeader
    <2>6. \A j, k \in DOMAIN OutputOrder : j < k => Rows(j) >= Rows(k)
      BY <2>2 DEF RowsInOrder
    <2>7. QED
      BY <2>4, <2>5, <2>6 DEF FilesInStep, Rows
  <1>4. QED
    BY <1>1, <1>2, <1>3, PTL DEF ResultsSpec
=============================================================================
