----------------------------- MODULE QuotaReads -----------------------------
(***************************************************************************)
(* Concurrent quota reads (src/quota.go quotaBuildSnapshotMap with         *)
(* quotaFetchWithRetry and quotaResolveAPIKey; the lookups of              *)
(* src/quota_auth.go and src/quota_dashboard.go).  A read answers from the *)
(* cache or asks the provider three times in turn: for the credits, for    *)
(* the usage and for the account's name.  A read that names no credential  *)
(* uses the key of the first credential file, which all such reads share   *)
(* (quotaAPIKey).  A key that is rejected is looked up once more.          *)
(*                                                                         *)
(* A step is one critical section of quotaMu, one look at the files, or    *)
(* one request.  Credential files stand in one directory, in the order in  *)
(* which they are searched, and a file belongs to one account; gen counts  *)
(* the keys of an account, of which the provider accepts the newest.  A    *)
(* read by AuthID is left out: it is a dashboard read with a cache key of  *)
(* its own.                                                                *)
(***************************************************************************)
EXTENDS Naturals, Sequences, FiniteSets, Functions

CONSTANTS
    NFiles,      \* number of credential files
    Readers,     \* concurrent reads
    Kinds,       \* ways to ask: see Lookup
    MaxRenewals, \* bound on the keys made anew
    MaxReads,    \* bound on the reads
    CacheTTL,    \* quotaCacheTTL
    MaxTime      \* bound on the clock

ASSUME QuotaAssumption ==
    /\ NFiles \in Nat /\ CacheTTL \in Nat
    /\ MaxRenewals \in Nat /\ MaxReads \in Nat /\ MaxTime \in Nat
    /\ Kinds \subseteq {"glob", "file", "position", "host", "dashboard", "stored"}

VARIABLES
    clock,
    stored,     \* file |-> the gen of the key in it, 0 if there is no file
    valid,      \* file |-> the gen the provider accepts
    globKey,    \* quotaAPIKey
    cache,      \* quotaCache
    reads,      \* reads in progress; meant is history, the accounts the read has named
    begun       \* number of reads so far

vars == <<clock, stored, valid, globKey, cache, reads, begun>>

Files == 1 .. NFiles
Time == 0 .. MaxTime
Paths == {"credits", "usage", "whoami"}

Key == [account : Files, gen : Nat \ {0}]
NoKey == [account |-> 0, gen |-> 0]
KeyIn(f) == IF stored[f] = 0 THEN NoKey ELSE [account |-> f, gen |-> stored[f]]

\* An auth_index is a file's name, here its number, or a position among the files there
\* are: NFiles + n stands for position n (the code counts from 0).
Indices == 1 .. 2 * NFiles
Named(index, files) ==
    IF index \in Files THEN {index}
    ELSE {f \in Files : /\ files[f] # 0
                        /\ Cardinality({g \in 1 .. f : files[g] # 0}) = index - NFiles}

quotaAPIKeyFromAuthIndex(index) ==
    IF Named(index, stored) = {} THEN NoKey ELSE KeyIn(CHOOSE f \in Named(index, stored) : TRUE)

\* A document: the accounts whose data is in it and when its first part was fetched.
Document == [accounts : SUBSET Files, since : Time]
Empty == [accounts |-> {}, since |-> 0]
Available(doc) == doc.accounts # {}

With(m, i, v) == [j \in DOMAIN m \cup {i} |-> IF j = i THEN v ELSE m[j]]

CacheKey(of, f, gen) == [of |-> of, file |-> f, gen |-> gen]
CacheKeys == [of : {"glob-default", "auth", "dashboard", "key"}, file : 0 .. 2 * NFiles, gen : Nat]

LookupOf(requested, authIndex, apiKey, cacheKey) ==
    [requested |-> requested, authIndex |-> authIndex, apiKey |-> apiKey, cacheKey |-> cacheKey]

\* The lookups: no credential named; auth_index with a file's name or a position;
\* quota.fetch with a name and the host's copy of the key, which may be old; an account of
\* the dashboard; quota.fetch with a key alone.
Lookup(kind, f, gen) ==
    LET key == [account |-> f, gen |-> gen]
        ByIndex(index) ==
            LookupOf(TRUE, index, quotaAPIKeyFromAuthIndex(index), CacheKey("auth", index, 0))
    IN
    CASE kind = "glob"      -> LookupOf(FALSE, 0, NoKey, CacheKey("glob-default", 0, 0))
      [] kind = "file"      -> ByIndex(f)
      [] kind = "position"  -> ByIndex(NFiles + f)
      [] kind = "host"      -> LookupOf(TRUE, f, key, CacheKey("auth", f, 0))
      [] kind = "dashboard" -> LookupOf(TRUE, 0, KeyIn(f), CacheKey("dashboard", f, 0))
      [] kind = "stored"    -> LookupOf(FALSE, 0, key, CacheKey("key", f, gen))
-----------------------------------------------------------------------------
Init ==
    /\ clock = 0
    /\ stored = [f \in Files |-> 1]
    /\ valid = [f \in Files |-> 1]
    /\ globKey = NoKey
    /\ cache = [k \in {} |-> 0]
    /\ reads = [r \in {} |-> 0]
    /\ begun = 0

Tick ==
    /\ clock < MaxTime
    /\ clock' = clock + 1
    /\ UNCHANGED <<stored, valid, globKey, cache, reads, begun>>

\* The user makes a new key for an account: the old one is no longer accepted.
Renew(f) ==
    /\ FoldFunction(+, 0, valid) < NFiles + MaxRenewals
    /\ valid' = [valid EXCEPT ![f] = @ + 1]
    /\ UNCHANGED <<clock, stored, globKey, cache, reads, begun>>

\* The host saves the new key after a login, or removes the file: positions shift.
FileChanges(f) ==
    /\ \E gen \in {0, valid[f]} : stored' = [stored EXCEPT ![f] = gen]
    /\ reads' = [r \in DOMAIN reads |->
                    LET index == reads[r].lookup.authIndex
                    IN IF index = 0 THEN reads[r]
                       ELSE [reads[r] EXCEPT !.meant = @ \cup Named(index, stored')]]
    /\ UNCHANGED <<clock, valid, globKey, cache, begun>>

\* The lookup is made and the time read.  A forced read, which a quota.fetch always is,
\* passes by the cache.
Begin(r) ==
    /\ r \notin DOMAIN reads
    /\ begun < MaxReads
    /\ begun' = begun + 1
    /\ \E kind \in Kinds, f \in Files, force \in BOOLEAN :
          /\ kind \in {"host", "stored"} => force
          /\ \E gen \in 1 .. valid[f] :
                LET lookup == Lookup(kind, f, gen)
                    meant  == IF lookup.authIndex # 0 THEN Named(lookup.authIndex, stored)
                              ELSE IF kind = "glob" THEN Files ELSE {f}
                IN reads' = With(reads, r,
                              [pc |-> IF force THEN "resolve" ELSE "cache", lookup |-> lookup,
                               start |-> clock, path |-> "credits", apiKey |-> lookup.apiKey,
                               sent |-> <<>>, doc |-> Empty, meant |-> meant])
    /\ UNCHANGED <<clock, stored, valid, globKey, cache>>

At(r, pc) == r \in DOMAIN reads /\ reads[r].pc = pc
Set(r, read) == reads' = [reads EXCEPT ![r] = read]
End(r) == reads' = [q \in DOMAIN reads \ {r} |-> reads[q]]

Hit(read) ==
    /\ read.lookup.cacheKey \in DOMAIN cache
    /\ read.start < cache[read.lookup.cacheKey].at + CacheTTL

CacheHit(r) ==
    /\ At(r, "cache")
    /\ Hit(reads[r])
    /\ End(r)
    /\ UNCHANGED <<clock, stored, valid, globKey, cache, begun>>

CacheMiss(r) ==
    /\ At(r, "cache")
    /\ ~Hit(reads[r])
    /\ Set(r, [reads[r] EXCEPT !.pc = "resolve"])
    /\ UNCHANGED <<clock, stored, valid, globKey, cache, begun>>

\* The path is done with: on to the next one.  The name is only asked for if there is
\* something to show with it.
After(read) ==
    LET next == [read EXCEPT !.pc = "resolve", !.sent = <<>>, !.apiKey = read.lookup.apiKey] IN
    CASE read.path = "credits" -> [next EXCEPT !.path = "usage"]
      [] read.path = "usage" /\ Available(read.doc) -> [next EXCEPT !.path = "whoami"]
      [] OTHER -> [next EXCEPT !.pc = "finish"]

\* Mutant: the new key is not compared with the old one.
UseAnyway(read, key) == [read EXCEPT !.pc = "fetch", !.sent = Append(@, key)]

\* A key has been found: send it, unless it is the one that was rejected.
Use(read, key) ==
    IF key \in Range(read.sent) THEN After(read)
    ELSE [read EXCEPT !.pc = "fetch", !.sent = Append(@, key)]

ResolveGiven(r) ==
    /\ At(r, "resolve")
    /\ reads[r].apiKey # NoKey
    /\ Set(r, Use(reads[r], reads[r].apiKey))
    /\ UNCHANGED <<clock, stored, valid, globKey, cache, begun>>

\* Mutant: a missing key is sent.
ResolveMissingSends(r) ==
    /\ At(r, "resolve")
    /\ reads[r].apiKey = NoKey
    /\ reads[r].lookup.requested
    /\ Set(r, Use(reads[r], NoKey))
    /\ UNCHANGED <<clock, stored, valid, globKey, cache, begun>>

\* A requested credential that was not found is an error.
ResolveMissing(r) ==
    /\ At(r, "resolve")
    /\ reads[r].apiKey = NoKey
    /\ reads[r].lookup.requested
    /\ Set(r, After(reads[r]))
    /\ UNCHANGED <<clock, stored, valid, globKey, cache, begun>>

\* Mutant: it is not looked at whether a credential was requested.
ResolveSharedAlways(r) ==
    /\ At(r, "resolve")
    /\ reads[r].apiKey = NoKey
    /\ Set(r, IF globKey # NoKey THEN Use(reads[r], globKey)
              ELSE [reads[r] EXCEPT !.pc = "search"])
    /\ UNCHANGED <<clock, stored, valid, globKey, cache, begun>>

\* Nothing was requested: the shared key, or a search if there is none.
ResolveShared(r) ==
    /\ At(r, "resolve")
    /\ reads[r].apiKey = NoKey
    /\ ~reads[r].lookup.requested
    /\ Set(r, IF globKey # NoKey THEN Use(reads[r], globKey)
              ELSE [reads[r] EXCEPT !.pc = "search"])
    /\ UNCHANGED <<clock, stored, valid, globKey, cache, begun>>

\* The first file with a key in it, or none.
Search(r) ==
    /\ At(r, "search")
    /\ IF \A f \in Files : stored[f] = 0 THEN Set(r, After(reads[r]))
       ELSE \E f \in Files :
              /\ stored[f] # 0
              /\ \A g \in 1 .. f - 1 : stored[g] = 0
              /\ Set(r, [reads[r] EXCEPT !.pc = "remember", !.apiKey = KeyIn(f)])
    /\ UNCHANGED <<clock, stored, valid, globKey, cache, begun>>

Remember(r) ==
    /\ At(r, "remember")
    /\ globKey' = reads[r].apiKey
    /\ Set(r, Use(reads[r], reads[r].apiKey))
    /\ UNCHANGED <<clock, stored, valid, cache, begun>>

Sent(read) == read.sent[Len(read.sent)]
Accepts(key) == valid[key.account] = key.gen

FetchSucceeds(r) ==
    /\ At(r, "fetch")
    /\ LET read == reads[r] IN
       /\ Accepts(Sent(read))
       /\ Set(r, After([read EXCEPT
                    !.doc.accounts = @ \cup {Sent(read).account},
                    !.doc.since = IF Available(read.doc) THEN @ ELSE clock]))
    /\ UNCHANGED <<clock, stored, valid, globKey, cache, begun>>

\* 401: the first one is worth another look at the credential.
FetchRejected(r) ==
    /\ At(r, "fetch")
    /\ ~Accepts(Sent(reads[r]))
    /\ Set(r, IF Len(reads[r].sent) = 1 THEN [reads[r] EXCEPT !.pc = "again"] ELSE After(reads[r]))
    /\ UNCHANGED <<clock, stored, valid, globKey, cache, begun>>

\* A connection error, the 20 s timeout, another status or no JSON.
FetchFails(r) ==
    /\ At(r, "fetch")
    /\ Set(r, After(reads[r]))
    /\ UNCHANGED <<clock, stored, valid, globKey, cache, begun>>

\* Forget the shared key, or read the named file again.
LookAgain(r) ==
    /\ At(r, "again")
    /\ LET lookup == reads[r].lookup IN
       /\ globKey' = IF lookup.requested THEN globKey ELSE NoKey
       /\ Set(r, [reads[r] EXCEPT !.pc = "resolve",
                    !.apiKey = IF lookup.requested /\ lookup.authIndex # 0
                               THEN quotaAPIKeyFromAuthIndex(lookup.authIndex) ELSE NoKey])
    /\ UNCHANGED <<clock, stored, valid, cache, begun>>

\* Mutant: the document gets the time at which it is stored.
FinishStampedLate(r) ==
    /\ At(r, "finish")
    /\ LET read == reads[r]
       IN cache' = IF Available(read.doc)
                   THEN With(cache, read.lookup.cacheKey, [at |-> clock, doc |-> read.doc])
                   ELSE cache
    /\ End(r)
    /\ UNCHANGED <<clock, stored, valid, globKey, begun>>

\* Mutant: whatever was built is cached.
FinishCachesAll(r) ==
    /\ At(r, "finish")
    /\ LET read == reads[r]
       IN cache' = With(cache, read.lookup.cacheKey, [at |-> read.start, doc |-> read.doc])
    /\ End(r)
    /\ UNCHANGED <<clock, stored, valid, globKey, begun>>

\* A document with credits or usage in it is cached, under the time the read began.
Finish(r) ==
    /\ At(r, "finish")
    /\ LET read == reads[r]
       IN cache' = IF Available(read.doc)
                   THEN With(cache, read.lookup.cacheKey, [at |-> read.start, doc |-> read.doc])
                   ELSE cache
    /\ End(r)
    /\ UNCHANGED <<clock, stored, valid, globKey, begun>>

Fetch(r) == FetchSucceeds(r) \/ FetchRejected(r) \/ FetchFails(r)
Resolve(r) ==
    ResolveGiven(r) \/ ResolveMissing(r) \/ ResolveShared(r) \/ Search(r) \/ Remember(r)

Next ==
    \/ Tick
    \/ \E f \in Files : Renew(f) \/ FileChanges(f)
    \/ \E r \in Readers :
          Begin(r) \/ CacheHit(r) \/ CacheMiss(r) \/ Resolve(r) \/ Fetch(r) \/ LookAgain(r) \/ Finish(r)

Spec == Init /\ [][Next]_vars
-----------------------------------------------------------------------------
Read == [pc : {"cache", "resolve", "search", "remember", "fetch", "again", "finish"},
         lookup : [requested : BOOLEAN, authIndex : Indices \cup {0}, apiKey : Key \cup {NoKey},
                   cacheKey : CacheKeys],
         start : Time, path : Paths, apiKey : Key \cup {NoKey},
         sent : Seq(Key), doc : Document, meant : SUBSET Files]

\* The variables keep their types; a key that is sent is a key.
TypeOK ==
    /\ clock \in Time
    /\ stored \in [Files -> Nat]
    /\ valid \in [Files -> Nat \ {0}]
    /\ globKey \in Key \cup {NoKey}
    /\ DOMAIN cache \subseteq CacheKeys /\ cache \in [DOMAIN cache -> [at : Time, doc : Document]]
    /\ DOMAIN reads \subseteq Readers /\ reads \in [DOMAIN reads -> Read]
    /\ begun \in 0 .. MaxReads

\* "A requested lookup (StorageJSON / auth_index / metadata) must never fall back to the
\* first globbed auth file" (quota.go): whatever is rejected, retried, renewed or removed
\* meanwhile, a document for an account, being fetched or cached, has no other's data, and
\* one for a position only data of accounts that stood there since the read began.
OwnAccountOnly ==
    /\ \A k \in DOMAIN cache : k.file \in Files => cache[k].doc.accounts = {k.file}
    /\ \A r \in DOMAIN reads : reads[r].doc.accounts \subseteq reads[r].meant

\* What the cache answers is never older than its TTL, however long the read took that
\* fetched it.
AnswersAreFresh ==
    [][\A r \in Readers : (At(r, "cache") /\ r \notin DOMAIN reads') =>
          reads[r].start < cache[reads[r].lookup.cacheKey].doc.since + CacheTTL]_vars

\* A refresh that gets neither credits nor usage does not cost the document there was.
FailuresKeepTheCache ==
    [][\A k \in DOMAIN cache : k \in DOMAIN cache' /\ Available(cache'[k].doc)]_vars

\* A path is asked for at most twice, and the second time with another key: neither
\* other reads that put an old key back nor files that change in between make a read
\* hammer the provider.
RetriedOnce ==
    \A r \in DOMAIN reads : LET sent == reads[r].sent IN
        Len(sent) <= 2 /\ (Len(sent) = 2 => sent[1] # sent[2])
=============================================================================
