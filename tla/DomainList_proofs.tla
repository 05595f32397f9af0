--------------------------- MODULE DomainList_proofs ---------------------------
(***************************************************************************)
(* For any number of domains, any size of the chunks and any changes while *)
(* the list is read: getDomainsInfo() lists no domain twice and misses     *)
(* none that exists all the time, and getRunningDoms() none that runs.     *)
(***************************************************************************)
EXTENDS DomainList, SequenceTheorems, WellFoundedInduction, TLAPS

Listed(d) == \E i \in 1..Len(infos) : infos[i].domain = d

\* A domain is in a state it has been in since the call began, and so is each as
\* it was read.
Remembered ==
  /\ \A d \in Domain : doms[d] \in since[d]
  /\ \A i \in 1..Len(infos) : infos[i].state \in since[infos[i].domain]

\* What lies below startDomain has been listed, and all that there is once a
\* chunk was not full.
Covered ==
  pc \in {"loop", "returned"} =>
    \A d \in Domain :
      /\ "none" \notin since[d]
      /\ d < startDomain \/ newDomains # cDomInfoChunkSize
      => Listed(d)

IInv ==
  /\ TypeOK /\ Remembered /\ Ascending /\ Covered
  /\ pc = "returned" => ~More
  /\ RunningDoms

(* The recursive function Listing.  The provers see it as CHOOSE f : f = [...],  *)
(* and no induction theorem of the library can be used, each being about an      *)
(* operator.  Induction is therefore over a set of numbers, by its least one     *)
(* that is missing.                                                              *)

\* A set of natural numbers that is not empty has a least one.
LEMMA LeastNumber ==
  ASSUME NEW T, T \subseteq Nat, T # {}
  PROVE  \E n \in T : \A m \in T : n <= m
<1> DEFINE R == OpToRel(<, Nat)
<1>1. IsWellFoundedOn(R, Nat)
  BY NatLessThanWellFounded
<1>2. \A n, m \in Nat : n < m => <<n, m>> \in R
  BY Zenon DEF OpToRel
<1> HIDE DEF R
<1>3. PICK n \in T : \A m \in T : ~(<<m, n>> \in R)
  BY <1>1, WFMin
<1>4. ASSUME NEW m \in T
      PROVE  n <= m
  <2>1. m \in Nat /\ n \in Nat
    OBVIOUS
  <2>2. ~(m < n)
    BY <1>2, <1>3, <2>1
  <2> QED
    BY <2>1, <2>2
<1> QED
  BY <1>4

\* What has 0, and with each number below N the next one, has all up to N.
LEMMA Induction ==
  ASSUME NEW N \in Nat, NEW S, 0 \in S, \A k \in 0..N : k \in S /\ k # N => k + 1 \in S
  PROVE  0..N \subseteq S
<1> DEFINE T == (0..N) \ S
<1>1. SUFFICES ASSUME T # {} PROVE FALSE
  OBVIOUS
<1>2. T \subseteq Nat
  OBVIOUS
<1>3. PICK n \in T : \A m \in T : n <= m
  <2> HIDE DEF T
  <2> QED
    BY <1>1, <1>2, LeastNumber
<1>4. n \in 0..N /\ n \notin S /\ n # 0
  OBVIOUS
<1>5. n - 1 \in 0..N /\ n - 1 # N /\ n - 1 + 1 = n
  BY <1>4
<1>6. n - 1 \in S
  BY <1>3, <1>5
<1> QED
  BY <1>4, <1>5, <1>6

Put(f, n) ==
  IF n = 0 THEN <<>>
  ELSE IF Wanted(infos[n]) THEN Append(f[n - 1], infos[n].domain)
  ELSE f[n - 1]

\* The function exists, and is as its definition says.
LEMMA ListingDef ==
  ASSUME Len(infos) \in Nat
  PROVE  \A n \in 0..Len(infos) : Listing[n] = Put(Listing, n)
<1> DEFINE Upto(k) == \E f : f = [n \in 0..k |-> Put(f, n)]
           S == {k \in 0..Len(infos) : Upto(k)}
<1>1. Upto(0)
  <2> DEFINE f == [n \in 0..0 |-> <<>>]
  <2>1. \A n \in 0..0 : Put(f, n) = <<>>
    BY DEF Put
  <2>2. f = [n \in 0..0 |-> Put(f, n)]
    <3> HIDE DEF Put
    <3> QED
      BY <2>1
  <2> QED
    BY <2>2
<1>2. ASSUME NEW k \in Nat, Upto(k)
      PROVE  Upto(k + 1)
  <2>1. PICK f : f = [n \in 0..k |-> Put(f, n)]
    BY <1>2
  <2> DEFINE g == [n \in 0..(k + 1) |-> IF n = k + 1 THEN Put(f, k + 1) ELSE f[n]]
  <2>2. ASSUME NEW n \in 0..(k + 1)
        PROVE  g[n] = Put(g, n)
    <3>1. CASE n = k + 1
      BY <3>1 DEF Put
    <3>2. CASE n \in 0..k
      <4>1. f[n] = Put(f, n)
        <5> HIDE DEF Put
        <5> QED
          BY <2>1, <3>2
      <4>2. n # 0 => g[n - 1] = f[n - 1]
        BY <3>2
      <4>3. Put(g, n) = Put(f, n)
        <5> HIDE DEF g
        <5> QED
          BY <4>2 DEF Put
      <4>4. g[n] = f[n]
        BY <3>2
      <4> QED
        BY <4>1, <4>3, <4>4
    <3> QED
      BY <3>1, <3>2
  <2>3. g = [n \in 0..(k + 1) |-> g[n]]
    OBVIOUS
  <2>4. g = [n \in 0..(k + 1) |-> Put(g, n)]
    <3> HIDE DEF g
    <3> QED
      BY <2>2, <2>3
  <2> QED
    BY <2>4
<1>3. Len(infos) \in S
  <2> HIDE DEF Upto
  <2>1. 0 \in S
    BY <1>1
  <2>2. \A k \in 0..Len(infos) : k \in S /\ k # Len(infos) => k + 1 \in S
    BY <1>2
  <2>3. 0..Len(infos) \subseteq S
    <3> HIDE DEF S
    <3> QED
      BY <2>1, <2>2, Induction
  <2>4. Len(infos) \in 0..Len(infos)
    OBVIOUS
  <2> QED
    BY <2>3, <2>4
<1>4. Upto(Len(infos))
  BY <1>3
<1>5. Listing = CHOOSE f : f = [n \in 0..Len(infos) |-> Put(f, n)]
  BY DEF Listing, Put
<1>6. Listing = [n \in 0..Len(infos) |-> Put(Listing, n)]
  <2> HIDE DEF Put
  <2> QED
    BY <1>4, <1>5
<1> QED
  BY <1>6

\* r lists, in order and once each, the wanted ones of the first n infos.
Lists(r, n) ==
  /\ r \in Seq(Domain)
  /\ \A k \in 1..Len(r) : \E i \in 1..n : Wanted(infos[i]) /\ r[k] = infos[i].domain
  /\ \A i \in 1..n : Wanted(infos[i]) => \E k \in 1..Len(r) : r[k] = infos[i].domain
  /\ \A j, k \in 1..Len(r) : j < k => r[j] < r[k]

\* One more of the infos, put at the end or left out, keeps this.
LEMMA ListOneMore ==
  ASSUME infos \in Seq(Info), Ascending,
         NEW n \in 1..Len(infos), NEW r, Lists(r, n - 1)
  PROVE  Lists(IF Wanted(infos[n]) THEN Append(r, infos[n].domain) ELSE r, n)
<1> DEFINE d == infos[n].domain
<1>1. Len(infos) \in Nat /\ n \in Nat /\ n - 1 \in Nat
  BY LenProperties
<1>2. \A i \in 1..n : i \in 1..(n - 1) \/ i = n
  BY <1>1
<1>3. \A i \in 1..(n - 1) : i \in 1..n
  BY <1>1
<1>4. CASE ~Wanted(infos[n])
  BY <1>2, <1>3, <1>4 DEF Lists
<1>5. CASE Wanted(infos[n])
  <2> DEFINE q == Append(r, d)
  <2>1. d \in Domain /\ r \in Seq(Domain)
    <3>1. infos[n] \in Info
      BY ElementOfSeq
    <3> QED
      BY <3>1 DEF Info, Lists
  <2>2. Len(r) \in Nat
    BY <2>1, LenProperties
  <2>3. /\ q \in Seq(Domain) /\ Len(q) = Len(r) + 1
        /\ \A k \in 1..Len(r) : q[k] = r[k]
        /\ q[Len(r) + 1] = d
    BY <2>1, AppendProperties
  <2> HIDE DEF q
  <2>4. \A k \in 1..Len(q) : k \in 1..Len(r) \/ k = Len(r) + 1
    BY <2>2, <2>3
  <2>5. ASSUME NEW k \in 1..Len(q)
        PROVE  \E i \in 1..n : Wanted(infos[i]) /\ q[k] = infos[i].domain
    <3>1. CASE k \in 1..Len(r)
      <4>1. PICK i \in 1..(n - 1) : Wanted(infos[i]) /\ r[k] = infos[i].domain
        BY <3>1 DEF Lists
      <4> QED
        BY <1>3, <2>3, <3>1, <4>1
    <3>2. CASE k = Len(r) + 1
      <4>1. n \in 1..n
        BY <1>1
      <4> QED
        BY <1>5, <2>3, <3>2, <4>1
    <3> QED
      BY <2>4, <3>1, <3>2
  <2>6. ASSUME NEW i \in 1..n, Wanted(infos[i])
        PROVE  \E k \in 1..Len(q) : q[k] = infos[i].domain
    <3>1. CASE i \in 1..(n - 1)
      <4>1. PICK k \in 1..Len(r) : r[k] = infos[i].domain
        BY <2>6, <3>1 DEF Lists
      <4>2. k \in 1..Len(q)
        BY <2>2, <2>3
      <4> QED
        BY <2>3, <4>1, <4>2
    <3>2. CASE i = n
      <4>1. Len(r) + 1 \in 1..Len(q)
        BY <2>2, <2>3
      <4> QED
        BY <2>3, <3>2, <4>1
    <3> QED
      BY <1>2, <3>1, <3>2
  <2>7. ASSUME NEW j \in 1..Len(q), NEW k \in 1..Len(q), j < k
        PROVE  q[j] < q[k]
    <3>1. j \in 1..Len(r)
      BY <2>2, <2>3, <2>7
    <3>2. CASE k \in 1..Len(r)
      BY <2>3, <2>7, <3>1, <3>2 DEF Lists
    <3>3. CASE k = Len(r) + 1
      <4>1. PICK i \in 1..(n - 1) : r[j] = infos[i].domain
        BY <3>1 DEF Lists
      <4>2. i \in 1..Len(infos) /\ i < n
        BY <1>1
      <4>3. infos[i].domain < d
        BY <4>2 DEF Ascending
      <4> QED
        BY <2>3, <3>1, <3>3, <4>1, <4>3
    <3> QED
      BY <2>4, <3>2, <3>3
  <2>8. Lists(q, n)
    BY <2>3, <2>5, <2>6, <2>7 DEF Lists
  <2> QED
    BY <1>5, <2>8 DEF q
<1> QED
  BY <1>4, <1>5

\* The loop of XenStat lists, in order and once each, what is wanted of the infos.
LEMMA ListingLists ==
  ASSUME infos \in Seq(Info), Ascending
  PROVE  Lists(Listing[Len(infos)], Len(infos))
<1> DEFINE S == {n \in 0..Len(infos) : Lists(Listing[n], n)}
<1>1. Len(infos) \in Nat
  BY LenProperties
<1>2. \A n \in 0..Len(infos) : Listing[n] = Put(Listing, n)
  BY <1>1, ListingDef
<1>3. 0 \in S
  <2>1. Listing[0] = <<>>
    BY <1>1, <1>2 DEF Put
  <2>2. Lists(<<>>, 0)
    BY EmptySeq DEF Lists
  <2> QED
    BY <1>1, <2>1, <2>2
<1>4. ASSUME NEW k \in 0..Len(infos), k \in S, k # Len(infos)
      PROVE  k + 1 \in S
  <2>1. k + 1 \in 1..Len(infos) /\ k + 1 \in 0..Len(infos) /\ k + 1 # 0 /\ k + 1 - 1 = k
    BY <1>1, <1>4
  <2>2. Lists(Listing[k + 1 - 1], k + 1 - 1)
    BY <1>4, <2>1
  <2>3. Lists(IF Wanted(infos[k + 1]) THEN Append(Listing[k + 1 - 1], infos[k + 1].domain)
              ELSE Listing[k + 1 - 1], k + 1)
    <3> HIDE DEF S
    <3> QED
      BY <2>1, <2>2, ListOneMore
  <2>4. Listing[k + 1] = IF Wanted(infos[k + 1]) THEN Append(Listing[k + 1 - 1], infos[k + 1].domain)
                         ELSE Listing[k + 1 - 1]
    BY <1>2, <2>1 DEF Put
  <2>5. Lists(Listing[k + 1], k + 1)
    BY <2>3, <2>4
  <2> QED
    BY <2>1, <2>5
<1>5. 0..Len(infos) \subseteq S
  <2> HIDE DEF S
  <2> QED
    BY <1>1, <1>3, <1>4, Induction
<1>6. Len(infos) \in 0..Len(infos)
  BY <1>1
<1> QED
  BY <1>5, <1>6

(* The invariant *)

\* A chunk is a sequence of at most cDomInfoChunkSize entries.
LEMMA ChunkIsSeq ==
  ASSUME NEW s \in Chunks
  PROVE  /\ s \in Seq(Info)
         /\ Len(s) \in 0..cDomInfoChunkSize
<1>1. PICK n \in 0..cDomInfoChunkSize : s \in [1..n -> Info]
  BY DEF Chunks
<1>2. n \in Nat
  BY DomainAssumption
<1>3. s \in Seq(Info)
  BY <1>1, <1>2, SeqDef
<1>4. Len(s) = n
  BY <1>1, <1>2, <1>3, LenProperties
<1> QED
  BY <1>1, <1>3, <1>4

\* The hypercall with startDomain, whose answer s ends below the next one, keeps
\* the list ascending and complete as far as it goes.
LEMMA ReadChunkInv ==
  ASSUME IInv, ReadChunk
  PROVE  IInv'
<1> USE DomainAssumption
<1>1. PICK s \in Chunks : GetChunk(s, s[Len(s)].domain + 1)
  BY DEF ReadChunk
<1>2. /\ s \in Seq(Info) /\ Len(s) \in 0..cDomInfoChunkSize
      /\ \A i \in 1..Len(s) : s[i] \in Info
  BY ChunkIsSeq, ElementOfSeq
<1>3. /\ infos \in Seq(Info) /\ Len(infos) \in Nat
      /\ \A i \in 1..Len(infos) : infos[i] \in Info
  BY LenProperties, ElementOfSeq DEF IInv, TypeOK
<1>4. /\ infos' \in Seq(Info)
      /\ Len(infos') = Len(infos) + Len(s)
      /\ \A i \in 1..Len(infos) + Len(s) :
           infos'[i] = IF i <= Len(infos) THEN infos[i] ELSE s[i - Len(infos)]
  BY <1>1, <1>2, <1>3, ConcatProperties DEF GetChunk
<1>5. /\ pc = "loop" /\ pc' = pc /\ doms' = doms /\ since' = since
      /\ newDomains = cDomInfoChunkSize /\ newDomains' = Len(s)
      /\ startDomain' = IF s = <<>> THEN startDomain ELSE s[Len(s)].domain + 1
      /\ IsChunk(s, startDomain)
  BY <1>1 DEF GetChunk, More
<1>6. s # <<>> <=> Len(s) > 0
  BY <1>2, EmptySeq
<1>7. TypeOK'
  <2>1. want' = want /\ result' = result /\ changes' = changes
    BY <1>1 DEF GetChunk
  <2>2. startDomain' \in 0..MaxDomain + 1
    BY <1>2, <1>5, <1>6 DEF IInv, TypeOK, Info, Domain
  <2> QED
    BY <1>2, <1>4, <1>5, <2>1, <2>2 DEF IInv, TypeOK
<1>8. Remembered'
  <2> SUFFICES ASSUME NEW i \in 1..Len(infos')
               PROVE  infos'[i].state \in since[infos'[i].domain]
    BY <1>5 DEF IInv, Remembered
  <2>1. CASE i <= Len(infos)
    BY <1>3, <1>4, <2>1 DEF IInv, Remembered
  <2>2. CASE i > Len(infos)
    <3>1. i - Len(infos) \in 1..Len(s) /\ infos'[i] = s[i - Len(infos)]
      BY <1>2, <1>3, <1>4, <2>2
    <3> QED
      BY <1>2, <1>5, <3>1 DEF IInv, Remembered, IsChunk, Info
  <2> QED
    BY <1>3, <2>1, <2>2
<1>9. Ascending'
  <2>1. \A i \in 1..Len(s) : /\ s[i].domain >= startDomain
                             /\ s[i].domain <= s[Len(s)].domain
                             /\ s[i].domain \in Nat
    BY <1>2, <1>5 DEF IsChunk, Info, Domain
  <2>2. \A i \in 1..Len(infos) : infos[i].domain < startDomain /\ infos[i].domain \in Nat
    BY <1>3 DEF IInv, Ascending, Info, Domain
  <2>3. startDomain \in Nat
    BY DEF IInv, TypeOK
  <2>4. ASSUME NEW i \in 1..Len(infos'), NEW j \in 1..Len(infos'), i < j
        PROVE  infos'[i].domain < infos'[j].domain
    <3>1. CASE j <= Len(infos)
      BY <1>3, <1>4, <2>4, <3>1 DEF IInv, Ascending
    <3>2. CASE i <= Len(infos) /\ j > Len(infos)
      <4>1. j - Len(infos) \in 1..Len(s)
        BY <1>2, <1>3, <1>4, <3>2
      <4>2. infos'[i] = infos[i] /\ infos'[j] = s[j - Len(infos)]
        BY <1>3, <1>4, <3>2
      <4>3. i \in 1..Len(infos)
        BY <3>2
      <4> QED
        BY <4>1, <4>2, <4>3, <2>1, <2>2, <2>3
    <3>3. CASE i > Len(infos)
      <4>1. i - Len(infos) \in 1..Len(s) /\ j - Len(infos) \in 1..Len(s)
        BY <1>2, <1>3, <1>4, <2>4, <3>3
      <4>2. i - Len(infos) < j - Len(infos)
        BY <1>3, <2>4
      <4>3. infos'[i] = s[i - Len(infos)] /\ infos'[j] = s[j - Len(infos)]
        BY <1>3, <1>4, <2>4, <3>3
      <4> QED
        BY <4>1, <4>2, <4>3, <1>5 DEF IsChunk
    <3> QED
      BY <1>3, <3>1, <3>2, <3>3
  <2>5. ASSUME NEW i \in 1..Len(infos')
        PROVE  infos'[i].domain < startDomain'
    <3>1. CASE i <= Len(infos)
      <4>1. infos'[i] = infos[i] /\ i \in 1..Len(infos)
        BY <1>3, <1>4, <3>1
      <4>2. startDomain' >= startDomain
        BY <1>2, <1>5, <1>6, <2>1, <2>3
      <4>3. startDomain' \in Nat
        BY <1>7 DEF TypeOK
      <4> QED
        BY <4>1, <4>2, <4>3, <2>2, <2>3
    <3>2. CASE i > Len(infos)
      <4>1. i - Len(infos) \in 1..Len(s) /\ infos'[i] = s[i - Len(infos)]
        BY <1>2, <1>3, <1>4, <3>2
      <4>2. startDomain' = s[Len(s)].domain + 1 /\ Len(s) \in 1..Len(s)
        BY <1>2, <1>5, <1>6, <4>1
      <4>3. /\ s[i - Len(infos)].domain <= s[Len(s)].domain
            /\ s[i - Len(infos)].domain \in Nat /\ s[Len(s)].domain \in Nat
        BY <2>1, <4>1, <4>2
      <4> QED
        BY <4>1, <4>2, <4>3
    <3> QED
      BY <1>3, <3>1, <3>2
  <2> QED
    BY <2>4, <2>5 DEF Ascending
<1>10. Covered'
  <2> SUFFICES ASSUME NEW d \in Domain, "none" \notin since[d],
                      d < startDomain' \/ newDomains' # cDomInfoChunkSize
               PROVE  Listed(d)'
    BY <1>5 DEF Covered
  <2>1. CASE d < startDomain
    <3>1. PICK i \in 1..Len(infos) : infos[i].domain = d
      BY <1>5, <2>1 DEF IInv, Covered, Listed
    <3>2. i \in 1..Len(infos') /\ infos'[i] = infos[i]
      BY <1>2, <1>3, <1>4
    <3> QED
      BY <3>1, <3>2 DEF Listed
  <2>2. CASE d >= startDomain
    <3>1. doms[d] # "none"
      BY DEF IInv, Remembered
    <3>2. \/ \E i \in 1..Len(s) : s[i].domain = d
          \/ Len(s) = cDomInfoChunkSize /\ s[Len(s)].domain < d
      BY <1>5, <2>2, <3>1 DEF IsChunk
    <3>3. ~(Len(s) = cDomInfoChunkSize /\ s[Len(s)].domain < d)
      BY <1>2, <1>5, <1>6 DEF Domain, Info
    <3>4. PICK i \in 1..Len(s) : s[i].domain = d
      BY <3>2, <3>3
    <3>5. /\ i + Len(infos) \in 1..Len(infos')
          /\ infos'[i + Len(infos)] = s[i]
      BY <1>2, <1>3, <1>4
    <3> QED
      BY <3>4, <3>5 DEF Listed
  <2> QED
    BY <2>1, <2>2 DEF IInv, TypeOK, Domain
<1> QED
  BY <1>5, <1>7, <1>8, <1>9, <1>10 DEF IInv, RunningDoms

\* What getRunningDoms() filters by the state a domain was read in is right for
\* a domain that has been in that state all the time.
LEMMA FilterLists ==
  ASSUME IInv, Filter, Lists(result', Len(infos))
  PROVE  RunningDoms'
<1>1. /\ infos \in Seq(Info) /\ Len(infos) \in Nat
      /\ \A i \in 1..Len(infos) : infos[i] \in Info
  BY LenProperties, ElementOfSeq DEF IInv, TypeOK
<1>2. /\ pc = "loop" /\ newDomains # cDomInfoChunkSize
      /\ since' = since /\ want' = want
  BY DEF Filter, More
<1> SUFFICES ASSUME want = "running"
             PROVE  /\ \A k \in 1..Len(result') : "running" \in since[result'[k]]
                    /\ \A j, k \in 1..Len(result') : j < k => result'[j] < result'[k]
                    /\ \A d \in Domain : since[d] = {"running"} =>
                         \E k \in 1..Len(result') : result'[k] = d
  BY <1>2 DEF RunningDoms
<1>3. \A i \in 1..Len(infos) : Wanted(infos[i]) <=> infos[i].state = "running"
  BY DEF Wanted
<1>4. \A k \in 1..Len(result') : "running" \in since[result'[k]]
  BY <1>3 DEF Lists, IInv, Remembered
<1>5. ASSUME NEW d \in Domain, since[d] = {"running"}
      PROVE  \E k \in 1..Len(result') : result'[k] = d
  <2>1. PICK i \in 1..Len(infos) : infos[i].domain = d
    BY <1>2, <1>5 DEF IInv, Covered, Listed
  <2>2. infos[i].state = "running"
    BY <1>5, <2>1 DEF IInv, Remembered
  <2> QED
    BY <1>3, <2>1, <2>2 DEF Lists
<1> QED
  BY <1>4, <1>5 DEF Lists

\* The other steps of the call leave what has been read.
LEMMA CallInv ==
  ASSUME IInv, Open \/ GetDomainsInfo \/ ReadFails \/ Filter \/ Done
  PROVE  IInv'
<1> USE DomainAssumption DEF IInv, TypeOK, Remembered, Ascending, Covered, Listed, More, RunningDoms
<1>1. CASE Open
  BY <1>1 DEF Open
<1>2. CASE GetDomainsInfo
  BY <1>2, EmptySeq DEF GetDomainsInfo, Domain
<1>3. CASE ReadFails
  BY <1>3 DEF ReadFails
<1>4. CASE Filter
  <2>1. Lists(result', Len(infos))
    BY <1>4, ListingLists DEF Filter
  <2>2. TypeOK' /\ Remembered' /\ Ascending' /\ Covered' /\ (pc = "returned" => ~More)'
    BY <1>4, <2>1 DEF Filter, Lists
  <2>3. RunningDoms'
    BY <1>4, <2>1, FilterLists
  <2> QED
    BY <2>2, <2>3
<1>5. CASE Done
  BY <1>5 DEF Done, vars
<1> QED
  BY <1>1, <1>2, <1>3, <1>4, <1>5

\* A domain that changes is one that need not be listed any more, or that has
\* existed before as well.
LEMMA ChangeInv ==
  ASSUME IInv, Change
  PROVE  IInv'
<1>1. PICK d \in Domain, st \in State :
        /\ doms' = [doms EXCEPT ![d] = st]
        /\ since' = [since EXCEPT ![d] = @ \union {st}]
        /\ UNCHANGED <<pc, want, newDomains, startDomain, infos, result>>
        /\ pc = "loop" /\ changes < MaxChanges /\ changes' = changes + 1
  BY DEF Change
<1>2. TypeOK' /\ Ascending' /\ (pc = "returned" => ~More)' /\ RunningDoms'
  BY <1>1, DomainAssumption DEF IInv, TypeOK, Ascending, More, RunningDoms
<1>3. Remembered'
  BY <1>1, ElementOfSeq DEF IInv, TypeOK, Remembered, Info
<1>4. \A e \in Domain : since[e] \subseteq since'[e]
  BY <1>1 DEF IInv, TypeOK
<1>5. Covered'
  BY <1>1, <1>4 DEF IInv, Covered, Listed
<1> QED
  BY <1>2, <1>3, <1>5 DEF IInv

\* Every state of a call satisfies IInv.
THEOREM Invariance == Spec => []IInv
<1>1. Init => IInv
  BY DomainAssumption, EmptySeq
     DEF Init, IInv, TypeOK, Remembered, Ascending, Covered, Domain, State, RunningDoms
<1>2. IInv /\ [Next]_vars => IInv'
  <2> SUFFICES ASSUME IInv, [Next]_vars PROVE IInv'
    OBVIOUS
  <2>1. CASE UNCHANGED vars
    BY <2>1 DEF vars, IInv, TypeOK, Remembered, Ascending, Covered, Listed, More, RunningDoms
  <2> QED
    BY <2>1, ReadChunkInv, CallInv, ChangeInv DEF Next
<1> QED
  BY <1>1, <1>2, PTL DEF Spec

\* Every variable of a call has its type; the answer of XenStat is a list of
\* domains.
THEOREM TypeCorrect == Spec => []TypeOK
<1>1. IInv => TypeOK
  BY DEF IInv
<1> QED
  BY <1>1, Invariance, PTL

\* getRunningDoms() has each domain that runs all through the call, once, and none
\* that never runs, however the domains start and pause between two hypercalls.
THEOREM RunningListed == Spec => []RunningDoms
<1>1. IInv => RunningDoms
  BY DEF IInv
<1> QED
  BY <1>1, Invariance, PTL

\* getDomainsInfo() lists no domain twice, whatever the hypervisor does between
\* two chunks.
THEOREM ListedOnce == Spec => []Ascending
<1>1. IInv => Ascending
  BY DEF IInv
<1> QED
  BY <1>1, Invariance, PTL

\* getDomainsInfo() misses no domain that exists from its first hypercall to
\* its last, whatever the size of the list is to that of the chunks.
THEOREM NoneMissed == Spec => []Complete
<1>1. IInv => Complete
  BY DEF IInv, Covered, Complete, More, Listed
<1> QED
  BY <1>1, Invariance, PTL
=============================================================================
