----------------------------- MODULE DomainList -----------------------------
(***************************************************************************)
(* XenInterface::getDomainsInfo() and the two lists XenStat makes of it.   *)
(* The hypervisor is asked for the domains chunk by chunk; domains come,   *)
(* go, pause and run between the hypercalls.                               *)
(***************************************************************************)
EXTENDS Naturals, Sequences

CONSTANTS
  MaxDomain,           \* the greatest domain id
  cDomInfoChunkSize,
  MaxChanges           \* bound: changes of the domains during a call

ASSUME DomainAssumption ==
  MaxDomain \in Nat /\ cDomInfoChunkSize \in Nat \ {0} /\ MaxChanges \in Nat

VARIABLES
  doms,          \* the domains: the state of every id
  since,         \* history: the states each has been in since the call
  pc, want,      \* of the caller; the list it wants
  newDomains, startDomain, infos,
  result,
  changes

vars == <<doms, since, pc, want, newDomains, startDomain, infos, result, changes>>

Domain == 0..MaxDomain
State  == {"none", "paused", "running"}
Info   == [domain : Domain, state : {"paused", "running"}]

Init ==
  /\ doms \in [Domain -> State] /\ since = [d \in Domain |-> {doms[d]}]
  /\ pc = "closed" /\ want \in {"existing", "running"}
  /\ newDomains = cDomInfoChunkSize /\ startDomain = 0
  /\ infos = <<>> /\ result = <<>> /\ changes = 0

\* The constructor of XenInterface: with no handle it throws, and its
\* release() closes none.
Open ==
  /\ pc = "closed"
  /\ pc' \in {"open", "threw"}
  /\ UNCHANGED <<doms, since, want, newDomains, startDomain, infos, result, changes>>

\* getDomainsInfo() up to its loop
GetDomainsInfo ==
  /\ pc = "open"
  /\ newDomains' = cDomInfoChunkSize /\ startDomain' = 0 /\ infos' = <<>>
  /\ since' = [d \in Domain |-> {doms[d]}]
  /\ pc' = "loop"
  /\ UNCHANGED <<doms, want, result, changes>>

\* xc_domain_getinfolist(): from first on the existing domains with the least
\* ids, in ascending order
IsChunk(s, first) ==
  /\ \A i \in 1..Len(s) : s[i].domain >= first /\ s[i].state = doms[s[i].domain]
  /\ \A i, j \in 1..Len(s) : i < j => s[i].domain < s[j].domain
  /\ \A d \in Domain : d >= first /\ doms[d] # "none" =>
       \/ \E i \in 1..Len(s) : s[i].domain = d
       \/ Len(s) = cDomInfoChunkSize /\ s[Len(s)].domain < d

Chunks == UNION {[1..n -> Info] : n \in 0..cDomInfoChunkSize}

More == newDomains = cDomInfoChunkSize

\* The body of the loop; the list goes on at next.
GetChunk(s, next) ==
  /\ pc = "loop" /\ More
  /\ IsChunk(s, startDomain)
  /\ newDomains' = Len(s)
  /\ startDomain' = IF s = <<>> THEN startDomain ELSE next
  /\ infos' = infos \o s
  /\ UNCHANGED <<doms, since, pc, want, result, changes>>

\* Mutant: the last domain of a chunk is read again
ReadChunkAgain == \E s \in Chunks : GetChunk(s, s[Len(s)].domain)

\* Mutant: the list goes on by the number of domains and not by their ids
ReadChunkByCount == \E s \in Chunks : GetChunk(s, startDomain + cDomInfoChunkSize + 1)

ReadChunk == \E s \in Chunks : GetChunk(s, s[Len(s)].domain + 1)

ReadFails ==
  /\ pc = "loop" /\ More
  /\ pc' = "threw"
  /\ UNCHANGED <<doms, since, want, newDomains, startDomain, infos, result, changes>>

\* Mutant: every domain is taken for a running one
AnyDomain(info) == TRUE

\* The flag XEN_DOMINF_running, and no flag at all
Wanted(info) == want = "running" => info.state = "running"

\* The loop of getRunningDoms() and getExistingDoms(): what the first n of the
\* infos put in the list
Listing[n \in 0..Len(infos)] ==
  IF n = 0 THEN <<>>
  ELSE IF Wanted(infos[n]) THEN Append(Listing[n - 1], infos[n].domain)
  ELSE Listing[n - 1]

\* getRunningDoms(), getExistingDoms()
Filter ==
  /\ pc = "loop" /\ ~More
  /\ result' = Listing[Len(infos)]
  /\ pc' = "returned"
  /\ UNCHANGED <<doms, since, want, newDomains, startDomain, infos, changes>>

\* The hypervisor and the toolstack
Change ==
  /\ pc = "loop"
  /\ changes < MaxChanges
  /\ changes' = changes + 1
  /\ \E d \in Domain, st \in State :
       /\ doms' = [doms EXCEPT ![d] = st]
       /\ since' = [since EXCEPT ![d] = @ \union {st}]
  /\ UNCHANGED <<pc, want, newDomains, startDomain, infos, result>>

\* The caller is done with the list.
Done == pc \in {"returned", "threw"} /\ UNCHANGED vars

Next == Open \/ GetDomainsInfo \/ ReadChunk \/ ReadFails \/ Filter \/ Change \/ Done

Spec == Init /\ [][Next]_vars
-----------------------------------------------------------------------------
(* Properties *)

TypeOK ==
  /\ doms \in [Domain -> State] /\ since \in [Domain -> SUBSET State]
  /\ pc \in {"closed", "open", "loop", "returned", "threw"} /\ want \in {"existing", "running"}
  /\ newDomains \in 0..cDomInfoChunkSize /\ startDomain \in 0..MaxDomain + 1
  /\ infos \in Seq(Info) /\ result \in Seq(Domain) /\ changes \in 0..MaxChanges

\* No domain is listed twice, however the domains change between two
\* hypercalls: the list ascends.
Ascending ==
  /\ \A i, j \in 1..Len(infos) : i < j => infos[i].domain < infos[j].domain
  /\ \A i \in 1..Len(infos) : infos[i].domain < startDomain

\* A domain that exists all through the call is listed, also where the chunk
\* before it was full and where the last one is empty.
Complete ==
  pc = "returned" =>
    \A d \in Domain : "none" \notin since[d] => \E i \in 1..Len(infos) : infos[i].domain = d

\* getRunningDoms() has the domains that run all through the call, and none
\* that never does, and has each once.
RunningDoms ==
  pc = "returned" /\ want = "running" =>
    /\ \A i \in 1..Len(result) : "running" \in since[result[i]]
    /\ \A i, j \in 1..Len(result) : i < j => result[i] < result[j]
    /\ \A d \in Domain : since[d] = {"running"} => \E i \in 1..Len(result) : result[i] = d
=============================================================================
