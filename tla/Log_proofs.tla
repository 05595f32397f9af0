------------------------------ MODULE Log_proofs ------------------------------
(***************************************************************************)
(* The log for any masks, names, threads and headers: the loop over the    *)
(* items finds the last one that matches (LoopDecides), and a line throws  *)
(* on its padding only where two threads were at the length at a time.     *)
(***************************************************************************)
EXTENDS Log, SequenceTheorems, WellFoundedInduction, TLAPS

\* The items have been parsed one by one, and none has a level that is none.
ItemsInv ==
  /\ accepted \in Seq(MaskItem)
  /\ \A i \in DOMAIN accepted : accepted[i].colon => accepted[i].level # {}
  /\ logMaskItems = [i \in DOMAIN accepted |-> Parse(accepted[i])]

\* As long as no two threads were at the length at a time, a line that is about
\* to be padded is no longer than the longest.
PadInv == raced \/ \A t \in Threads : pc[t] = "pad" => line[t].length <= sAlignmentLength

IInv == TypeOK /\ ItemsInv /\ PadInv /\ OnlyRaceThrows

(* Induction over the items.  The induction theorems of the library are about   *)
(* operators, which no prover can instantiate; this one is about a set.         *)

\* A set of natural numbers that is not empty has a least one.
LEMMA LeastNumber ==
  ASSUME NEW T, T \subseteq Nat, T # {}
  PROVE  \E n \in T : \A m \in T : n <= m
<1> DEFINE R == OpToRel(<, Nat)
<1>1. IsWellFoundedOn(R, Nat)
  BY NatLessThanWellFounded
<1>2. \A n, m \in Nat : n < m => <<n, m>> \in R
  BY Zenon DEF OpToRel
<1> HIDE DEF R
<1>3. PICK n \in T : \A m \in T : ~(<<m, n>> \in R)
  BY <1>1, WFMin
<1>4. ASSUME NEW m \in T
      PROVE  n <= m
  <2>1. m \in Nat /\ n \in Nat
    OBVIOUS
  <2>2. ~(m < n)
    BY <1>2, <1>3, <2>1
  <2> QED
    BY <2>1, <2>2
<1> QED
  BY <1>4

\* What has 0, and with each number below N the next one, has all up to N.
LEMMA Induction ==
  ASSUME NEW N \in Nat, NEW S, 0 \in S, \A k \in 0..N : k \in S /\ k # N => k + 1 \in S
  PROVE  0..N \subseteq S
<1> DEFINE T == (0..N) \ S
<1>1. SUFFICES ASSUME T # {} PROVE FALSE
  OBVIOUS
<1>2. T \subseteq Nat
  OBVIOUS
<1>3. PICK n \in T : \A m \in T : n <= m
  <2> HIDE DEF T
  <2> QED
    BY <1>1, <1>2, LeastNumber
<1>4. n \in 0..N /\ n \notin S /\ n # 0
  OBVIOUS
<1>5. n - 1 \in 0..N /\ n - 1 # N /\ n - 1 + 1 = n
  BY <1>4
<1>6. n - 1 \in S
  BY <1>3, <1>5
<1> QED
  BY <1>4, <1>5, <1>6

(* The mask *)

\* The level of an item is one of those its text abbreviates, or logDEBUG.
LEMMA ParseLevel ==
  ASSUME NEW item \in MaskItem, item.colon => item.level # {}
  PROVE  Parse(item).level \in LogLevel
<1>1. item.level \subseteq LogLevel
  BY DEF MaskItem
<1>2. CASE item.colon
  <2>1. item.level \subseteq Nat
    BY <1>1 DEF LogLevel
  <2>2. \E l \in item.level : \A k \in item.level : l <= k
    BY <1>2, <2>1, LeastNumber
  <2>3. LogLevelByString(item.level) \in item.level
    BY <2>2 DEF LogLevelByString
  <2> QED
    BY <1>1, <1>2, <2>3 DEF Parse
<1>3. CASE ~item.colon
  BY <1>3 DEF Parse, LogLevel
<1> QED
  BY <1>2, <1>3

\* Splitting a mask leaves items.
LEMMA SplitItems ==
  ASSUME NEW mask \in Masks
  PROVE  SplitMask(mask) \in Seq(MaskItem)
<1>1. mask \in Seq(MaskItem) /\ mask # <<>>
  BY LogAssumption
<1>2. Len(mask) \in Nat /\ \A i \in 1..Len(mask) - 1 : mask[i] \in MaskItem
  BY <1>1, LenProperties, ElementOfSeq
<1>3. SubSeq(mask, 1, Len(mask) - 1) \in Seq(MaskItem)
  BY <1>2, SubSeqProperties
<1> QED
  BY <1>1, <1>3 DEF SplitMask, Front

\* Setting a mask adds its items as they are parsed, or takes all away.
LEMMA SetItemsInv ==
  ASSUME ItemsInv, NEW mask \in Masks, SetItems(mask)
  PROVE  ItemsInv'
<1> DEFINE items == SplitMask(mask)
           parsed == [i \in DOMAIN items |-> Parse(items[i])]
<1>1. items \in Seq(MaskItem)
  BY SplitItems
<1>2. accepted \in Seq(MaskItem) /\ logMaskItems = [i \in DOMAIN accepted |-> Parse(accepted[i])]
  BY DEF ItemsInv
<1>3. CASE \E i \in DOMAIN items : items[i].colon /\ items[i].level = {}
  <2>1. logMaskItems' = <<>> /\ accepted' = <<>>
    BY <1>3 DEF SetItems
  <2>2. <<>> \in Seq(MaskItem) /\ DOMAIN <<>> = {}
    BY EmptySeq
  <2>3. <<>> = [i \in {} |-> Parse(<<>>[i])]
    OBVIOUS
  <2> QED
    BY <2>1, <2>2, <2>3 DEF ItemsInv
<1>4. CASE ~\E i \in DOMAIN items : items[i].colon /\ items[i].level = {}
  <2>1. logMaskItems' = logMaskItems \o parsed /\ accepted' = accepted \o items
    BY <1>4 DEF SetItems
  <2> HIDE DEF items
  <2>2. /\ Len(accepted) \in Nat /\ DOMAIN accepted = 1..Len(accepted)
        /\ Len(items) \in Nat /\ DOMAIN items = 1..Len(items)
    BY <1>1, <1>2, LenProperties
  <2> DEFINE P == {Parse(x) : x \in MaskItem}
  <2>3. logMaskItems \in Seq(P) /\ parsed \in Seq(P)
        /\ Len(logMaskItems) = Len(accepted) /\ Len(parsed) = Len(items)
    <3>1. \A i \in 1..Len(accepted) : Parse(accepted[i]) \in P
      BY <1>2, ElementOfSeq
    <3>2. \A i \in 1..Len(items) : Parse(items[i]) \in P
      BY <1>1, ElementOfSeq
    <3> HIDE DEF P
    <3> QED
      BY <1>2, <2>2, <3>1, <3>2, IsASeq, LenProperties
  <2>4. /\ accepted' \in Seq(MaskItem)
        /\ Len(accepted') = Len(accepted) + Len(items)
        /\ \A i \in 1..Len(accepted) + Len(items) :
             accepted'[i] = IF i <= Len(accepted) THEN accepted[i] ELSE items[i - Len(accepted)]
    BY <1>1, <1>2, <2>1, ConcatProperties
  <2>5. /\ logMaskItems' \in Seq(P)
        /\ Len(logMaskItems') = Len(accepted) + Len(items)
        /\ \A i \in 1..Len(accepted) + Len(items) :
             logMaskItems'[i] = IF i <= Len(accepted) THEN logMaskItems[i] ELSE parsed[i - Len(accepted)]
    <3> HIDE DEF parsed, P
    <3>1. /\ logMaskItems \o parsed \in Seq(P)
          /\ Len(logMaskItems \o parsed) = Len(logMaskItems) + Len(parsed)
          /\ \A i \in 1..Len(logMaskItems) + Len(parsed) :
               (logMaskItems \o parsed)[i] =
                 IF i <= Len(logMaskItems) THEN logMaskItems[i] ELSE parsed[i - Len(logMaskItems)]
      BY <2>3, ConcatProperties
    <3> QED
      BY <2>1, <2>3, <3>1
  <2>6. DOMAIN accepted' = 1..(Len(accepted) + Len(items))
    BY <2>4, LenProperties
  <2>7. ASSUME NEW i \in DOMAIN accepted'
        PROVE  /\ logMaskItems'[i] = Parse(accepted'[i])
               /\ accepted'[i].colon => accepted'[i].level # {}
    <3>1. CASE i <= Len(accepted)
      <4>1. i \in DOMAIN accepted /\ i \in 1..Len(accepted) + Len(items)
        BY <2>2, <2>6, <3>1
      <4>2. accepted'[i] = accepted[i] /\ logMaskItems'[i] = logMaskItems[i]
        BY <2>4, <2>5, <3>1, <4>1
      <4> QED
        BY <1>2, <4>1, <4>2 DEF ItemsInv
    <3>2. CASE i > Len(accepted)
      <4>1. /\ i - Len(accepted) \in DOMAIN items
            /\ accepted'[i] = items[i - Len(accepted)]
            /\ logMaskItems'[i] = parsed[i - Len(accepted)]
        BY <2>2, <2>4, <2>5, <2>6, <3>2
      <4> QED
        BY <1>4, <4>1
    <3> QED
      BY <2>2, <2>6, <3>1, <3>2
  <2>8. logMaskItems' = [i \in DOMAIN accepted' |-> Parse(accepted'[i])]
    <3>1. logMaskItems' = [i \in 1..Len(logMaskItems') |-> logMaskItems'[i]]
      BY <2>5, LenProperties
    <3> QED
      BY <2>5, <2>6, <2>7, <3>1
  <2> QED
    BY <2>4, <2>7, <2>8 DEF ItemsInv
<1> QED
  BY <1>3, <1>4

(* The loop of setLogLevelByMask() *)

After(f, name, i) ==
  IF i = 0 THEN logLevel
  ELSE IF Matches(logMaskItems[i], name) THEN logMaskItems[i].level
  ELSE f[i - 1]

\* The recursive function of the loop exists: its last value is the answer.
LEMMA LoopDef ==
  ASSUME Len(logMaskItems) \in Nat, NEW name
  PROVE  \E level : /\ \A i \in 0..Len(logMaskItems) : level[i] = After(level, name, i)
                    /\ LevelByMask(name) = level[Len(logMaskItems)]
<1> DEFINE N == Len(logMaskItems)
           Upto(k) == \E f : f = [i \in 0..k |-> After(f, name, i)]
           S == {k \in 0..N : Upto(k)}
           level == CHOOSE f : f = [i \in 0..N |-> After(f, name, i)]
<1>1. Upto(0)
  <2> DEFINE f == [i \in 0..0 |-> logLevel]
  <2>1. \A i \in 0..0 : After(f, name, i) = logLevel
    BY DEF After
  <2>2. f = [i \in 0..0 |-> After(f, name, i)]
    <3> HIDE DEF After
    <3> QED
      BY <2>1
  <2> QED
    BY <2>2
<1>2. ASSUME NEW k \in Nat, Upto(k)
      PROVE  Upto(k + 1)
  <2>1. PICK f : f = [i \in 0..k |-> After(f, name, i)]
    BY <1>2
  <2> DEFINE g == [i \in 0..(k + 1) |-> IF i = k + 1 THEN After(f, name, k + 1) ELSE f[i]]
  <2>2. ASSUME NEW i \in 0..(k + 1)
        PROVE  g[i] = After(g, name, i)
    <3>1. i # 0 => g[i - 1] = f[i - 1]
      OBVIOUS
    <3>2. After(g, name, i) = After(f, name, i)
      <4> HIDE DEF g
      <4> QED
        BY <3>1 DEF After
    <3>3. CASE i = k + 1
      <4>1. g[i] = After(f, name, i)
        BY <3>3
      <4> QED
        BY <3>2, <4>1
    <3>4. CASE i \in 0..k
      <4>1. g[i] = f[i]
        BY <3>4
      <4>2. f[i] = After(f, name, i)
        <5> HIDE DEF After
        <5> QED
          BY <2>1, <3>4
      <4> QED
        BY <3>2, <4>1, <4>2
    <3> QED
      BY <3>3, <3>4
  <2>3. g = [i \in 0..(k + 1) |-> g[i]]
    OBVIOUS
  <2>4. g = [i \in 0..(k + 1) |-> After(g, name, i)]
    <3> HIDE DEF g
    <3> QED
      BY <2>2, <2>3
  <2> QED
    BY <2>4
<1>3. Upto(N)
  <2> HIDE DEF Upto, N
  <2>1. N \in Nat
    BY DEF N
  <2>2. 0 \in S
    BY <1>1, <2>1
  <2>3. \A k \in 0..N : k \in S /\ k # N => k + 1 \in S
    BY <1>2, <2>1
  <2>4. 0..N \subseteq S
    <3> HIDE DEF S
    <3> QED
      BY <2>1, <2>2, <2>3, Induction
  <2>5. N \in S
    BY <2>1, <2>4
  <2> QED
    BY <2>5
<1>4. LevelByMask(name) = level[N]
  BY DEF LevelByMask, After
<1>5. level = [i \in 0..N |-> After(level, name, i)]
  <2> HIDE DEF After
  <2> QED
    BY <1>3
<1>6. \A i \in 0..N : level[i] = After(level, name, i)
  <2> HIDE DEF level
  <2> QED
    BY <1>5
<1> QED
  BY <1>4, <1>6

\* l is the level that the last one to match of the first i items gives, and the
\* current level if none does.
LastGives(l, name, i) ==
  \/ l = logLevel /\ \A j \in 1..i : ~Matches(logMaskItems[j], name)
  \/ \E h \in 1..i : /\ Matches(logMaskItems[h], name) /\ l = logMaskItems[h].level
                    /\ \A j \in 1..i : Matches(logMaskItems[j], name) => j <= h

\* The loop ends with the level of the last item that matches.
LEMMA LoopFindsLast ==
  ASSUME Len(logMaskItems) \in Nat, NEW name
  PROVE  LastGives(LevelByMask(name), name, Len(logMaskItems))
<1> DEFINE N == Len(logMaskItems)
<1>1. PICK level : /\ \A i \in 0..N : level[i] = After(level, name, i)
                   /\ LevelByMask(name) = level[N]
  BY LoopDef
<1> DEFINE S == {i \in 0..N : LastGives(level[i], name, i)}
<1> HIDE DEF N
<1>2. N \in Nat
  BY DEF N
<1>3. 0 \in S
  <2>1. level[0] = logLevel
    BY <1>1, <1>2 DEF After
  <2> QED
    BY <1>2, <2>1 DEF LastGives
<1>4. ASSUME NEW k \in 0..N, k \in S, k # N
      PROVE  k + 1 \in S
  <2>1. k \in Nat /\ k + 1 \in 0..N /\ k + 1 # 0 /\ k + 1 - 1 = k /\ k + 1 \in 1..(k + 1)
    BY <1>2, <1>4
  <2>2. \A j \in 1..(k + 1) : (j \in 1..k \/ j = k + 1) /\ j <= k + 1
    BY <2>1
  <2>3. \A j \in 1..k : j \in 1..(k + 1)
    BY <2>1
  <2>4. level[k + 1] = IF Matches(logMaskItems[k + 1], name) THEN logMaskItems[k + 1].level
                       ELSE level[k]
    BY <1>1, <2>1 DEF After
  <2>5. LastGives(level[k], name, k)
    BY <1>4
  <2>6. LastGives(level[k + 1], name, k + 1)
    <3>1. CASE Matches(logMaskItems[k + 1], name)
      BY <2>1, <2>2, <2>4, <3>1 DEF LastGives
    <3>2. CASE ~Matches(logMaskItems[k + 1], name)
      <4>1. LastGives(level[k], name, k + 1)
        BY <2>2, <2>3, <2>5, <3>2 DEF LastGives
      <4> QED
        BY <2>4, <3>2, <4>1
    <3> QED
      BY <3>1, <3>2
  <2> QED
    BY <2>1, <2>6
<1>5. 0..N \subseteq S
  <2> HIDE DEF S
  <2> QED
    BY <1>2, <1>3, <1>4, Induction
<1>6. N \in S
  BY <1>2, <1>5
<1> QED
  BY <1>1, <1>6 DEF N

\* A mask says the same before it is parsed: the loop finds the level that
\* MaskDecides asks for.
LEMMA LoopDecides ==
  ASSUME TypeOK, ItemsInv, NEW name
  PROVE  LevelByMask(name) = Decided(name) /\ LevelByMask(name) \in LogLevel
<1> DEFINE N == Len(logMaskItems)
<1>1. /\ N \in Nat /\ DOMAIN accepted = 1..N /\ DOMAIN logMaskItems = 1..N
      /\ \A i \in 1..N : logMaskItems[i] = Parse(accepted[i])
  BY LenProperties DEF ItemsInv, TypeOK
<1>2. \A i \in 1..N : Matches(logMaskItems[i], name) <=> Matches(accepted[i], name)
  BY <1>1 DEF Parse, Matches
<1>3. \A i : i \in Hits(name) <=> i \in 1..N /\ Matches(logMaskItems[i], name)
  BY <1>1, <1>2 DEF Hits
<1>4. LastGives(LevelByMask(name), name, N)
  BY <1>1, LoopFindsLast
<1> HIDE DEF N
<1>5. CASE LevelByMask(name) = logLevel /\ \A j \in 1..N : ~Matches(logMaskItems[j], name)
  <2>1. Hits(name) = {}
    BY <1>3, <1>5
  <2> QED
    BY <1>5, <2>1 DEF Decided, TypeOK
<1>6. CASE \E h \in 1..N : /\ Matches(logMaskItems[h], name)
                          /\ LevelByMask(name) = logMaskItems[h].level
                          /\ \A j \in 1..N : Matches(logMaskItems[j], name) => j <= h
  <2>1. PICK h \in 1..N : /\ Matches(logMaskItems[h], name)
                         /\ LevelByMask(name) = logMaskItems[h].level
                         /\ \A j \in 1..N : Matches(logMaskItems[j], name) => j <= h
    BY <1>6
  <2> DEFINE IsLast(i) == i \in Hits(name) /\ \A j \in Hits(name) : j <= i
  <2>2. IsLast(h)
    BY <1>3, <2>1
  <2>3. \A i : IsLast(i) => i = h
    <3> SUFFICES ASSUME NEW i, IsLast(i) PROVE i = h
      OBVIOUS
    <3>1. i \in Nat /\ h \in Nat
      BY <1>1, <1>3
    <3>2. i <= h /\ h <= i
      BY <2>2
    <3> QED
      BY <3>1, <3>2
  <2>4. (CHOOSE i \in Hits(name) : \A j \in Hits(name) : j <= i) = h
    BY <2>2, <2>3
  <2>5. Decided(name) = Parse(accepted[h]).level
    BY <2>2, <2>4 DEF Decided
  <2> QED
    BY <1>1, <2>1, <2>5 DEF TypeOK
<1> QED
  BY <1>4, <1>5, <1>6 DEF LastGives

(* The invariant *)

\* What sets up the levels leaves the lines, and the levels stay levels.
LEMMA ConfigInv ==
  ASSUME IInv, SetLogMask \/ SetLogLevel \/ \E n \in Names : MakeLog(n)
  PROVE  IInv'
<1> USE DEF IInv
<1>1. CASE SetLogMask
  <2>1. PICK mask \in Masks : SetItems(mask)
    BY <1>1 DEF SetLogMask
  <2>2. ItemsInv'
    BY <2>1, SetItemsInv
  <2>3. /\ logLevel' = logLevel /\ mLevel' = mLevel /\ UNCHANGED writing
        /\ masks' \in 0..MaxMasks
    BY <1>1, LogAssumption DEF SetLogMask, TypeOK
  <2>4. /\ Len(logMaskItems') = Len(accepted')
        /\ \A i \in DOMAIN logMaskItems' : logMaskItems'[i].level \in LogLevel
    <3>1. Len(accepted') \in Nat /\ DOMAIN accepted' = 1..Len(accepted')
      BY <2>2, LenProperties DEF ItemsInv
    <3>2. \A i \in DOMAIN accepted' : Parse(accepted'[i]).level \in LogLevel
      BY <2>2, <3>1, ElementOfSeq, ParseLevel DEF ItemsInv
    <3>3. Len(logMaskItems') = Len(accepted')
      BY <2>2, <3>1, LenProperties DEF ItemsInv
    <3> QED
      BY <2>2, <3>2, <3>3 DEF ItemsInv
  <2> QED
    BY <2>2, <2>3, <2>4 DEF TypeOK, PadInv, OnlyRaceThrows, writing
<1>2. CASE SetLogLevel
  BY <1>2 DEF SetLogLevel, TypeOK, ItemsInv, PadInv, OnlyRaceThrows, writing, LogLevel
<1>3. CASE \E n \in Names : MakeLog(n)
  <2>1. PICK n \in Names : MakeLog(n)
    BY <1>3
  <2>2. LevelByMask(n) \in LogLevel
    BY LoopDecides
  <2>3. mLevel' \in [Names -> LogLevel \union {Unmade}]
    BY <2>1, <2>2 DEF MakeLog, TypeOK
  <2> QED
    BY <2>1, <2>3 DEF MakeLog, TypeOK, ItemsInv, PadInv, OnlyRaceThrows, writing
<1> QED
  BY <1>1, <1>2, <1>3

\* The part of TypeOK that is about the lines
WritingOK ==
  /\ sAlignmentLength \in HeaderLengths \union {0} /\ raced \in BOOLEAN
  /\ line \in [Threads -> Line]
  /\ lines \in 0..MaxLines
  /\ pc \in [Threads -> {"idle", "header", "assign", "pad", "text", "lock", "endl", "threw"}]
  /\ sMutex \in Threads \union {"none"}

\* The length of a line is a number.
LEMMA LineLength == \A x \in Line : x.length \in HeaderLengths \union {0} /\ x.length \in Nat
<1>1. \A l \in HeaderLengths \union {0} : l \in Nat
  BY LogAssumption
<1>2. \A x \in Line : x.length \in HeaderLengths \union {0}
  BY DEF Line
<1> QED
  BY <1>1, <1>2

\* A step of a thread with its line keeps the types.
LEMMA LineTypeOK ==
  ASSUME TypeOK, NEW t \in Threads, LogALine(t)
  PROVE  WritingOK'
<1> USE LogAssumption DEF TypeOK, WritingOK, Goto
<1>0. NoLine \in Line
  BY DEF NoLine, Line
<1>1. CASE Get(t)
  <2>1. PICK length \in HeaderLengths, shown \in BOOLEAN :
          line' = [line EXCEPT ![t] = [NoLine EXCEPT !.length = length, !.shown = shown]]
    BY <1>1 DEF Get
  <2>2. [NoLine EXCEPT !.length = length, !.shown = shown] \in Line
    BY DEF NoLine, Line
  <2> QED
    BY <1>1, <2>1, <2>2 DEF Get
<1>2. CASE Compare(t)
  BY <1>2 DEF Compare, CompareWith
<1>3. CASE Assign(t)
  <2>1. line[t].length \in HeaderLengths \union {0}
    BY LineLength
  <2>2. raced' \in BOOLEAN
    BY <1>3, Zenon DEF Assign
  <2>3. /\ sAlignmentLength' = line[t].length /\ pc' = [pc EXCEPT ![t] = "pad"]
        /\ line' = line /\ lines' = lines /\ sMutex' = sMutex
    BY <1>3 DEF Assign
  <2> QED
    BY <2>1, <2>2, <2>3
<1>4. CASE Pad(t)
  <2>1. PICK threw \in BOOLEAN : line' = [line EXCEPT ![t].threw = threw]
    <3> DEFINE threw == sAlignmentLength < line[t].length
    <3>1. threw \in BOOLEAN
      OBVIOUS
    <3>2. line' = [line EXCEPT ![t].threw = threw]
      BY <1>4 DEF Pad
    <3> HIDE DEF threw
    <3> QED
      BY <3>1, <3>2
  <2>2. line' \in [Threads -> Line]
    BY <2>1 DEF Line
  <2> QED
    BY <1>4, <2>2 DEF Pad
<1>5. CASE End(t)
  <2>1. line' = line \/ line' = [line EXCEPT ![t] = NoLine]
    BY <1>5 DEF End
  <2>2. line' \in [Threads -> Line]
    BY <1>0, <2>1
  <2>3. pc' = [pc EXCEPT ![t] = "lock"] \/ pc' = [pc EXCEPT ![t] = "idle"]
    BY <1>5 DEF End
  <2> QED
    BY <1>5, <2>2, <2>3 DEF End
<1>6. CASE Write(t)
  BY <1>6 DEF Write
<1>7. CASE WriteEndl(t)
  <2>1. line' = line \/ line' = [line EXCEPT ![t] = NoLine]
    BY <1>7 DEF WriteEndl
  <2>2. line' \in [Threads -> Line]
    BY <1>0, <2>1
  <2>3. pc' = [pc EXCEPT ![t] = "threw"] \/ pc' = [pc EXCEPT ![t] = "idle"]
    BY <1>7 DEF WriteEndl
  <2> QED
    BY <1>7, <2>2, <2>3 DEF WriteEndl
<1> QED
  BY <1>1, <1>2, <1>3, <1>4, <1>5, <1>6, <1>7 DEF LogALine

\* The comparison and the assignment leave a line no longer than the longest to
\* the difference, or another thread was between the two as well.
LEMMA LinePadInv ==
  ASSUME TypeOK, PadInv, NEW t \in Threads, LogALine(t)
  PROVE  PadInv'
<1>0. \A x \in Line : x.length \in Nat
  BY LineLength
<1>1. /\ pc \in [Threads -> {"idle", "header", "assign", "pad", "text", "lock", "endl", "threw"}]
      /\ line \in [Threads -> Line]
      /\ \A u \in Threads : line[u].length \in Nat
      /\ sAlignmentLength \in Nat
  BY <1>0, LogAssumption DEF TypeOK
<1>2. CASE Get(t)
  BY <1>1, <1>2 DEF Get, Goto, PadInv
<1>3. CASE Compare(t)
  BY <1>1, <1>3 DEF Compare, CompareWith, Goto, PadInv
<1>4. CASE Assign(t)
  <2>1. CASE raced \/ \E u \in Threads \ {t} : pc[u] \in {"assign", "pad"}
    BY <1>4, <2>1 DEF Assign, PadInv
  <2>2. CASE \A u \in Threads \ {t} : pc[u] # "pad"
    <3>1. sAlignmentLength' = line[t].length /\ line' = line /\ pc' = [pc EXCEPT ![t] = "pad"]
      BY <1>4 DEF Assign, Goto
    <3>2. \A u \in Threads : pc'[u] = "pad" => u = t
      BY <1>1, <2>2, <3>1
    <3> QED
      BY <1>1, <3>1, <3>2 DEF PadInv
  <2> QED
    BY <2>1, <2>2
<1>5. CASE Pad(t)
  BY <1>1, <1>5 DEF Pad, Goto, PadInv
<1>6. CASE End(t)
  BY <1>1, <1>6 DEF End, Goto, PadInv
<1>7. CASE Write(t)
  BY <1>1, <1>7 DEF Write, Goto, PadInv
<1>8. CASE WriteEndl(t)
  BY <1>1, <1>8 DEF WriteEndl, Goto, PadInv
<1> QED
  BY <1>2, <1>3, <1>4, <1>5, <1>6, <1>7, <1>8 DEF LogALine

\* Only the difference throws, and only if the longest has become shorter than
\* the line.
LEMMA LineRaceThrows ==
  ASSUME TypeOK, PadInv, OnlyRaceThrows, NEW t \in Threads, LogALine(t)
  PROVE  OnlyRaceThrows'
<1>0. \A x \in Line : x.length \in Nat
  BY LineLength
<1>1. /\ pc \in [Threads -> {"idle", "header", "assign", "pad", "text", "lock", "endl", "threw"}]
      /\ line \in [Threads -> Line]
      /\ \A u \in Threads : line[u].length \in Nat
      /\ sAlignmentLength \in Nat /\ raced \in BOOLEAN
  BY <1>0, LogAssumption DEF TypeOK
<1>2. CASE Get(t)
  BY <1>1, <1>2 DEF Get, NoLine, OnlyRaceThrows
<1>3. CASE Pad(t)
  BY <1>1, <1>3 DEF Pad, PadInv, OnlyRaceThrows
<1>4. CASE End(t) \/ WriteEndl(t)
  BY <1>1, <1>4 DEF End, WriteEndl, NoLine, OnlyRaceThrows
<1>5. CASE Compare(t) \/ Assign(t) \/ Write(t)
  BY <1>1, <1>5 DEF Compare, CompareWith, Assign, Write, OnlyRaceThrows
<1> QED
  BY <1>2, <1>3, <1>4, <1>5 DEF LogALine

\* Every reachable state satisfies IInv.
THEOREM Invariance == Spec => []IInv
<1>1. Init => IInv
  <2> SUFFICES ASSUME Init PROVE IInv
    OBVIOUS
  <2>1. TypeOK
    <3>1. NoLine \in Line
      BY DEF NoLine, Line
    <3>2. Len(<<>>) = 0 /\ DOMAIN <<>> = {}
      BY EmptySeq
    <3>3. logLevel \in LogLevel /\ mLevel \in [Names -> LogLevel \union {Unmade}]
      BY DEF Init, LogLevel
    <3>4. line \in [Threads -> Line] /\ pc \in [Threads -> {"idle"}]
      BY <3>1 DEF Init
    <3>5. /\ logMaskItems = <<>> /\ accepted = <<>> /\ sAlignmentLength = 0 /\ raced = FALSE
          /\ masks = 0 /\ lines = 0 /\ sMutex = "none"
      BY DEF Init
    <3> QED
      <4>1. 0 \in 0..MaxMasks /\ 0 \in 0..MaxLines
        BY LogAssumption
      <4>2. Len(logMaskItems) = Len(accepted) /\ DOMAIN logMaskItems = {}
        BY <3>2, <3>5
      <4>3. pc \in [Threads -> {"idle", "header", "assign", "pad", "text", "lock", "endl", "threw"}]
        BY <3>4
      <4> QED
        BY <3>3, <3>4, <3>5, <4>1, <4>2, <4>3 DEF TypeOK
  <2>2. ItemsInv
    <3>1. <<>> = [i \in {} |-> Parse(<<>>[i])]
      OBVIOUS
    <3> QED
      BY <3>1, EmptySeq DEF Init, ItemsInv
  <2> QED
    BY <2>1, <2>2 DEF Init, IInv, PadInv, OnlyRaceThrows, NoLine
<1>2. IInv /\ [Next]_vars => IInv'
  <2> SUFFICES ASSUME IInv, [Next]_vars PROVE IInv'
    OBVIOUS
  <2>1. CASE \E t \in Threads : LogALine(t)
    <3>1. PICK t \in Threads : LogALine(t)
      BY <2>1
    <3>2. UNCHANGED config
      BY <3>1 DEF LogALine, Get, Compare, CompareWith, Assign, Pad, End, Write, WriteEndl
    <3>3. WritingOK' /\ PadInv' /\ OnlyRaceThrows'
      BY <3>1, LineTypeOK, LinePadInv, LineRaceThrows DEF IInv
    <3> QED
      BY <3>2, <3>3 DEF IInv, TypeOK, WritingOK, ItemsInv, config
  <2>2. CASE UNCHANGED vars
    BY <2>2 DEF IInv, TypeOK, ItemsInv, PadInv, OnlyRaceThrows, vars, config, writing
  <2> QED
    BY <2>1, <2>2, ConfigInv DEF Next
<1> QED
  BY <1>1, <1>2, PTL DEF Spec

\* Every variable has its type, and every item that a mask leaves a level of the
\* five, whatever it abbreviates.
THEOREM TypeCorrect == Spec => []TypeOK
<1>1. IInv => TypeOK
  BY DEF IInv
<1> QED
  BY <1>1, Invariance, PTL

\* A line throws on its padding only if two threads were at the length of the
\* header at a time.
THEOREM OneThreadPads == Spec => []OnlyRaceThrows
<1>1. IInv => OnlyRaceThrows
  BY DEF IInv
<1> QED
  BY <1>1, Invariance, PTL

\* The level a Log is made with is the one that the last item with its name gives
\* it, of all the masks set since one was refused, and else the current level.
THEOREM LastItemDecides == Spec => MaskDecides
<1>1. IInv /\ [Next]_vars =>
        [\A n \in Names : mLevel'[n] # mLevel[n] => mLevel'[n] = Decided(n)]_vars
  <2> SUFFICES ASSUME IInv, Next, NEW n \in Names, mLevel'[n] # mLevel[n]
               PROVE  mLevel'[n] = Decided(n)
    OBVIOUS
  <2>1. PICK m \in Names : MakeLog(m)
    BY DEF Next, SetLogMask, SetLogLevel, LogALine, Get, Compare, CompareWith, Assign, Pad,
           End, Write, WriteEndl, config
  <2>2. mLevel'[n] = LevelByMask(n)
    BY <2>1 DEF MakeLog, IInv, TypeOK
  <2> QED
    BY <2>2, LoopDecides DEF IInv
<1> QED
  BY <1>1, Invariance, PTL DEF Spec, MaskDecides
=============================================================================
