-------------------------- MODULE QuotaReads_proofs --------------------------
(***************************************************************************)
(* For every number of files, reads and renewals, every TTL and every set  *)
(* of lookups that name a credential or none: the types, that a path is    *)
(* asked for at most twice, that no account's document holds another's     *)
(* data, and what the cache answers and keeps.                             *)
(***************************************************************************)
EXTENDS QuotaReads, SequenceTheorems, TLAPS

-----------------------------------------------------------------------------
\* The keys a read has sent for its path: a second one only after a 401, and another one.
Sending(read) ==
    /\ read.pc = "remember" => read.apiKey # NoKey
    /\ IF read.pc = "fetch" THEN Len(read.sent) \in {1, 2} ELSE Len(read.sent) <= 1
    /\ Len(read.sent) = 2 => read.sent[1] # read.sent[2]

\* A read begins before its data is fetched.
Dated(read) ==
    /\ read.start <= clock
    /\ Available(read.doc) => read.start <= read.doc.since

CachedDated == \A k \in DOMAIN cache : cache[k].at <= cache[k].doc.since
CachedAvailable == \A k \in DOMAIN cache : Available(cache[k].doc)

\* What a read holds belongs to an account it has named: its keys, its data and the file
\* its position stands for; only a read that named none looks for one of its own.
Owned(key, read) == key # NoKey => key.account \in read.meant
Own(read, files) ==
    /\ Owned(read.lookup.apiKey, read) /\ Owned(read.apiKey, read)
    /\ \A i \in 1 .. Len(read.sent) : Owned(read.sent[i], read)
    /\ read.doc.accounts \subseteq read.meant
    /\ IF read.lookup.requested THEN read.pc \notin {"search", "remember"}
       ELSE read.meant = Files
    /\ read.lookup.authIndex # 0 => Named(read.lookup.authIndex, files) \subseteq read.meant
    /\ read.lookup.cacheKey.file \in Files =>
          /\ read.lookup.authIndex \in {0, read.lookup.cacheKey.file}
          /\ read.meant = {read.lookup.cacheKey.file}
CachedOwn ==
    \A k \in DOMAIN cache : k.file \in Files => cache[k].doc.accounts = {k.file}

\* The inductive invariants: of the types and the keys sent, of the times, of the owners.
SendingInv == TypeOK /\ \A r \in DOMAIN reads : Sending(reads[r])
DatedInv == CachedDated /\ CachedAvailable /\ \A r \in DOMAIN reads : Dated(reads[r])
OwnInv == CachedOwn /\ \A r \in DOMAIN reads : Own(reads[r], stored)
-----------------------------------------------------------------------------
\* What After changes of a read: the place, the path, the keys.
LEMMA AfterRead ==
    ASSUME NEW read \in Read
    PROVE  /\ After(read) \in Read
           /\ After(read).pc \in {"resolve", "finish"} /\ After(read).sent = <<>>
           /\ After(read).apiKey = read.lookup.apiKey
           /\ After(read).lookup = read.lookup /\ After(read).start = read.start
           /\ After(read).doc = read.doc /\ After(read).meant = read.meant
<1> DEFINE next == [read EXCEPT !.pc = "resolve", !.sent = <<>>, !.apiKey = read.lookup.apiKey]
<1>1. /\ next \in Read /\ next.pc = "resolve" /\ next.sent = <<>>
      /\ next.apiKey = read.lookup.apiKey
      /\ next.lookup = read.lookup /\ next.start = read.start
      /\ next.doc = read.doc /\ next.meant = read.meant
    <2>1. <<>> \in Seq(Key)
        OBVIOUS
    <2>2. read.lookup.apiKey \in Key \cup {NoKey}
        BY DEF Read
    <2> QED BY <2>1, <2>2 DEF Read
<1>2. \/ After(read) = [next EXCEPT !.path = "usage"]
      \/ After(read) = [next EXCEPT !.path = "whoami"]
      \/ After(read) = [next EXCEPT !.pc = "finish"]
    BY Zenon DEF After
<1> HIDE DEF next
<1> QED BY <1>1, <1>2 DEF Read, Paths

\* What Use changes of a read with at most one key sent: the new key is sent, and differs
\* from the one before, or the path is done with.
LEMMA UseRead ==
    ASSUME NEW read \in Read, NEW key \in Key, Len(read.sent) <= 1
    PROVE  /\ Use(read, key) \in Read
           /\ Use(read, key).lookup = read.lookup /\ Use(read, key).start = read.start
           /\ Use(read, key).doc = read.doc /\ Use(read, key).meant = read.meant
           /\ Use(read, key).pc \in {"resolve", "finish", "fetch"}
           /\ Use(read, key).apiKey \in {read.apiKey, read.lookup.apiKey}
           /\ \A i \in 1 .. Len(Use(read, key).sent) :
                 Use(read, key).sent[i] \in Range(read.sent) \cup {key}
           /\ Sending(Use(read, key))
<1>1. read.sent \in Seq(Key)
    BY DEF Read
<1>2. CASE key \in Range(read.sent)
    BY <1>2, AfterRead DEF Use, Sending
<1>3. CASE key \notin Range(read.sent)
    <2> DEFINE new == [read EXCEPT !.pc = "fetch", !.sent = Append(@, key)]
    <2>1. Use(read, key) = new
        BY <1>3 DEF Use
    <2>2. /\ Append(read.sent, key) \in Seq(Key)
          /\ Len(Append(read.sent, key)) = Len(read.sent) + 1
          /\ Append(read.sent, key)[Len(read.sent) + 1] = key
          /\ \A i \in 1 .. Len(read.sent) : Append(read.sent, key)[i] = read.sent[i]
        BY <1>1, AppendProperties
    <2>3. \A i \in 1 .. Len(read.sent) : read.sent[i] \in Range(read.sent)
        BY <1>1 DEF Range
    <2>4. new.sent = Append(read.sent, key) /\ new.pc = "fetch" /\ new \in Read
        BY <2>2 DEF Read
    <2>5. Len(read.sent) \in Nat
        BY <1>1
    <2>6. Sending(new)
        BY <1>3, <2>2, <2>3, <2>4, <2>5 DEF Sending
    <2>7. \A i \in 1 .. Len(new.sent) : new.sent[i] \in Range(read.sent) \cup {key}
        BY <2>2, <2>3, <2>4, <2>5
    <2>8. /\ new.lookup = read.lookup /\ new.start = read.start /\ new.apiKey = read.apiKey
          /\ new.doc = read.doc /\ new.meant = read.meant
        BY DEF Read
    <2> HIDE DEF new
    <2> QED BY <2>1, <2>4, <2>6, <2>7, <2>8
<1> QED BY <1>2, <1>3
-----------------------------------------------------------------------------
ReadsTyped == DOMAIN reads \subseteq Readers /\ reads \in [DOMAIN reads -> Read]

\* A step of one read that leaves it typed and its keys in order leaves all of them so.
LEMMA SetTyped ==
    ASSUME SendingInv, NEW r \in DOMAIN reads, NEW x \in Read, Sending(x), Set(r, x)
    PROVE  ReadsTyped' /\ \A q \in DOMAIN reads' : Sending(reads'[q])
BY DEF SendingInv, TypeOK, Set, ReadsTyped

\* So does the end of a read.
LEMMA EndTyped ==
    ASSUME SendingInv, NEW r \in DOMAIN reads, End(r)
    PROVE  ReadsTyped' /\ \A q \in DOMAIN reads' : Sending(reads'[q])
BY DEF SendingInv, TypeOK, End, ReadsTyped

\* A credential is looked up in files: the key found is some file's key, or none.
LEMMA LookupTyped ==
    ASSUME TypeOK, NEW kind \in Kinds, NEW f \in Files, NEW gen \in 1 .. valid[f]
    PROVE  /\ Lookup(kind, f, gen).requested \in BOOLEAN
           /\ Lookup(kind, f, gen).authIndex \in Indices \cup {0}
           /\ Lookup(kind, f, gen).apiKey \in Key \cup {NoKey}
           /\ Lookup(kind, f, gen).cacheKey \in CacheKeys
           /\ Lookup(kind, f, gen) \in [requested : BOOLEAN, authIndex : Indices \cup {0},
                                        apiKey : Key \cup {NoKey}, cacheKey : CacheKeys]
<1>1. \A index : quotaAPIKeyFromAuthIndex(index) \in Key \cup {NoKey}
    BY DEF quotaAPIKeyFromAuthIndex, Named, KeyIn, Key, TypeOK
<1>2. KeyIn(f) \in Key \cup {NoKey}
    BY DEF KeyIn, Key, TypeOK
<1>3. [account |-> f, gen |-> gen] \in Key
    BY DEF Key, TypeOK
<1>4. f \in 1 .. NFiles /\ f \in Indices /\ NFiles + f \in Indices /\ gen \in Nat
    BY QuotaAssumption DEF Files, Indices, TypeOK
<1>5. \A of \in {"glob-default", "auth", "dashboard", "key"}, file \in 0 .. 2 * NFiles, g \in Nat :
         CacheKey(of, file, g) \in CacheKeys
    BY DEF CacheKey, CacheKeys
<1> DEFINE LookupType == [requested : BOOLEAN, authIndex : Indices \cup {0},
                          apiKey : Key \cup {NoKey}, cacheKey : CacheKeys]
<1>6. \A requested \in BOOLEAN, index \in Indices \cup {0}, key \in Key \cup {NoKey}, c \in CacheKeys :
         LookupOf(requested, index, key, c) \in LookupType
    BY DEF LookupOf
<1>7. f \in 0 .. 2 * NFiles /\ NFiles + f \in 0 .. 2 * NFiles /\ 0 \in 0 .. 2 * NFiles
    BY <1>4, QuotaAssumption
<1>8. /\ CacheKey("glob-default", 0, 0) \in CacheKeys /\ CacheKey("auth", f, 0) \in CacheKeys
      /\ CacheKey("auth", NFiles + f, 0) \in CacheKeys /\ CacheKey("dashboard", f, 0) \in CacheKeys
      /\ CacheKey("key", f, gen) \in CacheKeys
    BY <1>4, <1>5, <1>7
<1>9. Lookup(kind, f, gen) \in LookupType
    <2> HIDE DEF LookupType
    <2>1. kind \in {"glob", "file", "position", "host", "dashboard", "stored"}
        BY QuotaAssumption
    <2> QED BY <1>1, <1>2, <1>3, <1>4, <1>6, <1>8, <2>1 DEF Lookup
<1> QED BY <1>9

\* The read that Begin makes of a lookup.
New(kind, f, force, gen) ==
    LET lookup == Lookup(kind, f, gen)
        meant  == IF lookup.authIndex # 0 THEN Named(lookup.authIndex, stored)
                  ELSE IF kind = "glob" THEN Files ELSE {f}
    IN [pc |-> IF force THEN "resolve" ELSE "cache", lookup |-> lookup,
        start |-> clock, path |-> "credits", apiKey |-> lookup.apiKey,
        sent |-> <<>>, doc |-> Empty, meant |-> meant]

\* It is typed, and has sent nothing.
LEMMA NewTyped ==
    ASSUME TypeOK, NEW kind \in Kinds, NEW f \in Files, NEW force \in BOOLEAN,
           NEW gen \in 1 .. valid[f]
    PROVE  New(kind, f, force, gen) \in Read /\ Sending(New(kind, f, force, gen))
<1> DEFINE lookup == Lookup(kind, f, gen)
           meant  == IF lookup.authIndex # 0 THEN Named(lookup.authIndex, stored)
                     ELSE IF kind = "glob" THEN Files ELSE {f}
           new == [pc |-> IF force THEN "resolve" ELSE "cache", lookup |-> lookup,
                   start |-> clock, path |-> "credits", apiKey |-> lookup.apiKey,
                   sent |-> <<>>, doc |-> Empty, meant |-> meant]
<1>1. /\ lookup \in [requested : BOOLEAN, authIndex : Indices \cup {0},
                     apiKey : Key \cup {NoKey}, cacheKey : CacheKeys]
      /\ lookup.apiKey \in Key \cup {NoKey}
    BY LookupTyped
<1>2. meant \in SUBSET Files
    BY DEF Named
<1>3. clock \in Time /\ Empty \in Document /\ <<>> \in Seq(Key)
    BY QuotaAssumption DEF TypeOK, Empty, Document, Time
<1>4. New(kind, f, force, gen) = new
    BY DEF New
<1> HIDE DEF lookup, meant
<1>5. new \in Read
    BY <1>1, <1>2, <1>3 DEF Read, Paths
<1>6. Sending(new)
    BY DEF Sending
<1> QED BY <1>4, <1>5, <1>6

\* The read with the answer to its request in its document.
Got(read) == [read EXCEPT !.doc.accounts = @ \cup {Sent(read).account},
                          !.doc.since = IF Available(read.doc) THEN @ ELSE clock]

\* An answer adds the account whose key was sent, and dates the document if it is the first.
LEMMA GotRead ==
    ASSUME TypeOK, NEW read \in Read, Sent(read) \in Key
    PROVE  /\ Got(read) \in Read
           /\ Got(read).doc.accounts = read.doc.accounts \cup {Sent(read).account}
           /\ Got(read).doc.since = IF Available(read.doc) THEN read.doc.since ELSE clock
           /\ Got(read).pc = read.pc /\ Got(read).sent = read.sent
           /\ Got(read).lookup = read.lookup /\ Got(read).apiKey = read.apiKey
           /\ Got(read).start = read.start /\ Got(read).meant = read.meant
<1> DEFINE accounts == read.doc.accounts \cup {Sent(read).account}
           since == IF Available(read.doc) THEN read.doc.since ELSE clock
           doc == [read.doc EXCEPT !.accounts = accounts, !.since = since]
<1>1. read.doc \in Document /\ Sent(read).account \in Files
    BY DEF Read, Key
<1>2. accounts \in SUBSET Files /\ since \in Time
    BY <1>1 DEF Document, TypeOK
<1>3. Got(read) = [read EXCEPT !.doc = doc]
    BY <1>1 DEF Got, Read, Document
<1>4. doc \in Document /\ doc.accounts = accounts /\ doc.since = since
    <2> HIDE DEF accounts, since
    <2> QED BY <1>1, <1>2 DEF Document
<1> HIDE DEF accounts, since, doc
<1>5. /\ Got(read) \in Read /\ Got(read).doc = doc
      /\ Got(read).pc = read.pc /\ Got(read).sent = read.sent
      /\ Got(read).lookup = read.lookup /\ Got(read).apiKey = read.apiKey
      /\ Got(read).start = read.start /\ Got(read).meant = read.meant
    BY <1>3, <1>4 DEF Read
<1> QED BY <1>4, <1>5 DEF accounts, since

\* A read at its request has sent a key.
LEMMA SentKey ==
    ASSUME SendingInv, NEW r \in DOMAIN reads, reads[r].pc = "fetch"
    PROVE  /\ reads[r] \in Read /\ Sent(reads[r]) \in Key
           /\ \E i \in 1 .. Len(reads[r].sent) : Sent(reads[r]) = reads[r].sent[i]
<1>1. reads[r] \in Read /\ Sending(reads[r])
    BY DEF SendingInv, TypeOK
<1>2. reads[r].sent \in Seq(Key) /\ Len(reads[r].sent) \in {1, 2}
    BY <1>1 DEF Read, Sending
<1> QED BY <1>1, <1>2 DEF Sent

\* Every step keeps the types, and the keys sent in order.
LEMMA SendingStep == SendingInv /\ [Next]_vars => SendingInv'
<1> SUFFICES ASSUME SendingInv, [Next]_vars PROVE SendingInv'
    OBVIOUS
<1>0. TypeOK /\ ReadsTyped /\ \A q \in DOMAIN reads : Sending(reads[q])
    BY DEF SendingInv, TypeOK, ReadsTyped
<1> DEFINE Rest == /\ clock' \in Time
                   /\ stored' \in [Files -> Nat] /\ valid' \in [Files -> Nat \ {0}]
                   /\ globKey' \in Key \cup {NoKey}
                   /\ DOMAIN cache' \subseteq CacheKeys
                   /\ cache' \in [DOMAIN cache' -> [at : Time, doc : Document]]
                   /\ begun' \in 0 .. MaxReads
<1>1. Rest /\ ReadsTyped' /\ (\A q \in DOMAIN reads' : Sending(reads'[q])) => SendingInv'
    BY DEF SendingInv, TypeOK, ReadsTyped
<1>2. CASE Tick
    <2>1. Rest
        BY <1>0, <1>2, QuotaAssumption DEF Tick, TypeOK, Time
    <2>2. ReadsTyped' /\ \A q \in DOMAIN reads' : Sending(reads'[q])
        BY <1>0, <1>2 DEF Tick, ReadsTyped
    <2> QED BY <1>1, <2>1, <2>2
<1>3. ASSUME NEW f \in Files, Renew(f) PROVE SendingInv'
    <2>0. /\ valid' = [valid EXCEPT ![f] = @ + 1]
          /\ UNCHANGED <<clock, stored, globKey, cache, reads, begun>>
        BY <1>3, Zenon DEF Renew
    <2>1. Rest
        BY <1>0, <2>0 DEF TypeOK
    <2>2. ReadsTyped' /\ \A q \in DOMAIN reads' : Sending(reads'[q])
        BY <1>0, <2>0 DEF ReadsTyped
    <2> QED BY <1>1, <2>1, <2>2
<1>4. ASSUME NEW f \in Files, FileChanges(f) PROVE SendingInv'
    <2>1. Rest
        BY <1>0, <1>4 DEF FileChanges, TypeOK
    <2>2. DOMAIN reads' = DOMAIN reads
        BY <1>4 DEF FileChanges
    <2>3. ASSUME NEW r \in DOMAIN reads PROVE reads'[r] \in Read /\ Sending(reads'[r])
        <3> DEFINE index == reads[r].lookup.authIndex
        <3>1. reads[r] \in Read /\ Sending(reads[r])
            BY <1>0 DEF ReadsTyped
        <3>2. Named(index, stored') \subseteq Files
            BY DEF Named
        <3>3. reads'[r] \in {reads[r], [reads[r] EXCEPT !.meant = @ \cup Named(index, stored')]}
            BY <1>4 DEF FileChanges
        <3> HIDE DEF index
        <3>4. reads'[r] \in Read
            BY <3>1, <3>2, <3>3 DEF Read
        <3>5. Sending(reads'[r])
            BY <3>1, <3>3 DEF Read, Sending
        <3> QED BY <3>4, <3>5
    <2>4. reads' = [q \in DOMAIN reads' |-> reads'[q]]
        BY <1>4 DEF FileChanges
    <2> QED BY <1>0, <1>1, <2>1, <2>2, <2>3, <2>4 DEF ReadsTyped
<1>5. ASSUME NEW r \in Readers, Begin(r) PROVE SendingInv'
    <2>1. Rest
        BY <1>0, <1>5, QuotaAssumption DEF Begin, TypeOK
    <2>2. PICK new \in Read : Sending(new) /\ reads' = With(reads, r, new)
        <3>1. PICK kind \in Kinds, f \in Files, force \in BOOLEAN :
                 \E gen \in 1 .. valid[f] : reads' = With(reads, r, New(kind, f, force, gen))
            BY <1>5 DEF Begin, New
        <3>2. PICK gen \in 1 .. valid[f] : reads' = With(reads, r, New(kind, f, force, gen))
            BY <3>1
        <3>3. New(kind, f, force, gen) \in Read /\ Sending(New(kind, f, force, gen))
            BY <1>0, NewTyped
        <3> QED BY <3>2, <3>3
    <2>3. ReadsTyped' /\ \A q \in DOMAIN reads' : Sending(reads'[q])
        BY <1>0, <2>2 DEF With, ReadsTyped
    <2> QED BY <1>1, <2>1, <2>3
<1>6. ASSUME NEW r \in Readers,
             CacheMiss(r) \/ ResolveGiven(r) \/ ResolveMissing(r) \/ ResolveShared(r)
             \/ Search(r) \/ Remember(r) \/ Fetch(r) \/ LookAgain(r)
      PROVE  SendingInv'
    <2> DEFINE read == reads[r]
    <2>1. r \in DOMAIN reads /\ read \in Read /\ Sending(read)
        BY <1>0, <1>6 DEF CacheMiss, ResolveGiven, ResolveMissing, ResolveShared, Search,
           Remember, Fetch, FetchSucceeds, FetchRejected, FetchFails, LookAgain, At, ReadsTyped
    <2>2. /\ read.apiKey \in Key \cup {NoKey} /\ read.lookup.apiKey \in Key \cup {NoKey}
          /\ read.sent \in Seq(Key) /\ read.doc \in Document
        BY <2>1 DEF Read
    <2>3. Rest
        BY <1>0, <1>6, <2>2 DEF CacheMiss, ResolveGiven, ResolveMissing, ResolveShared, Search,
           Remember, Fetch, FetchSucceeds, FetchRejected, FetchFails, LookAgain, TypeOK
    <2> SUFFICES \E x \in Read : Sending(x) /\ Set(r, x)
        BY <1>1, <2>1, <2>3, SetTyped
    <2>4. CASE CacheMiss(r)
        <3>1. [read EXCEPT !.pc = "resolve"] \in Read /\ Sending([read EXCEPT !.pc = "resolve"])
            BY <2>1, <2>4 DEF Read, Sending, CacheMiss, At
        <3> QED BY <2>4, <3>1 DEF CacheMiss
    <2>5. CASE ResolveGiven(r)
        <3>1. read.apiKey \in Key /\ Len(read.sent) <= 1
            BY <2>1, <2>2, <2>5 DEF ResolveGiven, At, Sending
        <3> QED BY <2>1, <2>5, <3>1, UseRead DEF ResolveGiven
    <2>6. CASE ResolveMissing(r)
        BY <2>1, <2>6, AfterRead DEF ResolveMissing, Sending
    <2>7. CASE ResolveShared(r)
        <3>1. Len(read.sent) <= 1
            BY <2>1, <2>7 DEF ResolveShared, At, Sending
        <3>2. CASE globKey # NoKey
            <4>1. globKey \in Key
                BY <1>0, <3>2 DEF TypeOK
            <4> QED BY <2>1, <2>7, <3>1, <3>2, <4>1, UseRead DEF ResolveShared
        <3>3. CASE globKey = NoKey
            <4>1. [read EXCEPT !.pc = "search"] \in Read /\ Sending([read EXCEPT !.pc = "search"])
                BY <2>1, <3>1 DEF Read, Sending
            <4> QED BY <2>7, <3>3, <4>1 DEF ResolveShared
        <3> QED BY <3>2, <3>3
    <2>8. CASE Search(r)
        <3>1. CASE \A f \in Files : stored[f] = 0
            <4>1. Set(r, After(read))
                BY <2>8, <3>1, Zenon DEF Search
            <4> QED BY <2>1, <4>1, AfterRead DEF Sending
        <3>2. CASE ~ \A f \in Files : stored[f] = 0
            <4>1. PICK f \in Files : /\ stored[f] # 0
                                     /\ Set(r, [read EXCEPT !.pc = "remember", !.apiKey = KeyIn(f)])
                BY <2>8, <3>2 DEF Search
            <4>2. KeyIn(f) \in Key /\ KeyIn(f) # NoKey
                BY <1>0, <4>1 DEF KeyIn, Key, NoKey, TypeOK, Files
            <4> DEFINE x == [read EXCEPT !.pc = "remember", !.apiKey = KeyIn(f)]
            <4>3. x \in Read /\ x.pc = "remember" /\ x.apiKey = KeyIn(f) /\ x.sent = read.sent
                BY <2>1, <4>2 DEF Read
            <4>4. Sending(x)
                BY <2>1, <2>8, <4>2, <4>3 DEF Sending, Search, At
            <4> QED BY <4>1, <4>3, <4>4
        <3> QED BY <3>1, <3>2
    <2>9. CASE Remember(r)
        <3>1. read.apiKey \in Key /\ Len(read.sent) <= 1
            BY <2>1, <2>2, <2>9 DEF Remember, At, Sending
        <3> QED BY <2>1, <2>9, <3>1, UseRead DEF Remember
    <2>10. CASE FetchSucceeds(r)
        <3>1. Sent(read) \in Key
            BY <2>1, <2>10, SentKey DEF FetchSucceeds, At
        <3>2. Set(r, After(Got(read))) /\ Got(read) \in Read
            BY <1>0, <2>1, <2>10, <3>1, GotRead DEF FetchSucceeds, Got
        <3> QED BY <3>2, AfterRead DEF Sending
    <2>11. CASE FetchRejected(r)
        <3>1. CASE Len(read.sent) = 1
            <4> DEFINE x == [read EXCEPT !.pc = "again"]
            <4>1. x \in Read /\ x.pc = "again" /\ x.sent = read.sent
                BY <2>1 DEF Read
            <4>2. Set(r, x)
                BY <2>11, <3>1 DEF FetchRejected
            <4> HIDE DEF x, read
            <4>3. Sending(x)
                BY <3>1, <4>1 DEF Sending
            <4> QED BY <4>1, <4>2, <4>3
        <3>2. CASE Len(read.sent) # 1
            BY <2>1, <2>11, <3>2, AfterRead DEF FetchRejected, Sending
        <3> QED BY <3>1, <3>2
    <2>12. CASE FetchFails(r)
        BY <2>1, <2>12, AfterRead DEF FetchFails, Sending
    <2>13. CASE LookAgain(r)
        <3> DEFINE key == IF read.lookup.requested /\ read.lookup.authIndex # 0
                          THEN quotaAPIKeyFromAuthIndex(read.lookup.authIndex) ELSE NoKey
                   x == [read EXCEPT !.pc = "resolve", !.apiKey = key]
        <3>1. key \in Key \cup {NoKey}
            BY <1>0 DEF quotaAPIKeyFromAuthIndex, Named, KeyIn, Key, TypeOK
        <3>2. Set(r, x)
            BY <2>13 DEF LookAgain
        <3> HIDE DEF key
        <3>3. x \in Read /\ x.pc = "resolve" /\ x.sent = read.sent
            BY <2>1, <3>1 DEF Read
        <3>4. Sending(x)
            BY <2>1, <2>13, <3>3 DEF LookAgain, At, Sending
        <3> QED BY <3>2, <3>3, <3>4
    <2> QED BY <1>6, <2>4, <2>5, <2>6, <2>7, <2>8, <2>9, <2>10, <2>11, <2>12, <2>13 DEF Fetch
<1>7. ASSUME NEW r \in Readers, CacheHit(r) \/ Finish(r) PROVE SendingInv'
    <2>1. r \in DOMAIN reads /\ reads[r] \in Read /\ End(r)
        BY <1>0, <1>7 DEF CacheHit, Finish, At, ReadsTyped
    <2>2. /\ reads[r].lookup.cacheKey \in CacheKeys
          /\ [at |-> reads[r].start, doc |-> reads[r].doc] \in [at : Time, doc : Document]
        BY <2>1 DEF Read
    <2>3. /\ DOMAIN cache' \subseteq CacheKeys
          /\ cache' \in [DOMAIN cache' -> [at : Time, doc : Document]]
        <3> DEFINE k == reads[r].lookup.cacheKey
                   v == [at |-> reads[r].start, doc |-> reads[r].doc]
        <3>1. cache' = cache \/ cache' = With(cache, k, v)
            BY <1>7 DEF CacheHit, Finish
        <3> HIDE DEF k, v
        <3> QED BY <1>0, <2>2, <3>1 DEF With, TypeOK, k, v
    <2>4. Rest
        BY <1>0, <1>7, <2>3 DEF CacheHit, Finish, TypeOK
    <2> QED BY <1>1, <2>1, <2>4, EndTyped
<1>8. CASE UNCHANGED vars
    BY <1>8 DEF vars, SendingInv, TypeOK, Sending
<1> QED BY <1>2, <1>3, <1>4, <1>5, <1>6, <1>7, <1>8 DEF Next, Resolve, Fetch

\* The inductive invariant of the types and the keys sent.
LEMMA SendingHolds == Spec => []SendingInv
<1>1. Init => SendingInv
    BY QuotaAssumption DEF Init, SendingInv, TypeOK, Time, Files
<1> QED BY <1>1, SendingStep, PTL DEF Spec

\* The variables of the quota reads keep their types in every execution.
THEOREM TypeCorrect == Spec => []TypeOK
<1>1. SendingInv => TypeOK
    BY DEF SendingInv
<1> QED BY <1>1, SendingHolds, PTL

\* quotaFetchWithRetry asks for a path at most twice, the second time with another key.
THEOREM RetriedOnceHolds == Spec => []RetriedOnce
<1>1. SendingInv => RetriedOnce
    <2> SUFFICES ASSUME SendingInv, NEW r \in DOMAIN reads
                 PROVE  /\ Len(reads[r].sent) <= 2
                        /\ Len(reads[r].sent) = 2 => reads[r].sent[1] # reads[r].sent[2]
        BY DEF RetriedOnce
    <2>1. reads[r].sent \in Seq(Key) /\ Sending(reads[r])
        BY DEF SendingInv, TypeOK, Read
    <2>2. Len(reads[r].sent) <= 2
        <3> DEFINE n == Len(reads[r].sent)
        <3>1. n \in Nat
            BY <2>1
        <3>2. n = 1 \/ n = 2 \/ n <= 1
            BY <2>1 DEF Sending
        <3> HIDE DEF n
        <3>3. n <= 2
            BY <3>1, <3>2
        <3> QED BY <3>3 DEF n
    <2>3. Len(reads[r].sent) = 2 => reads[r].sent[1] # reads[r].sent[2]
        BY <2>1 DEF Sending
    <2> QED BY <2>2, <2>3
<1> QED BY <1>1, SendingHolds, PTL
-----------------------------------------------------------------------------
\* What the steps of a read that do not end it leave as it is: all that others see, its
\* lookup, its beginning and, unless an answer arrives, its document.
LEMMA ReadStep ==
    ASSUME SendingInv, NEW r \in Readers,
           CacheMiss(r) \/ ResolveGiven(r) \/ ResolveMissing(r) \/ ResolveShared(r)
           \/ Search(r) \/ Remember(r) \/ FetchRejected(r) \/ FetchFails(r) \/ LookAgain(r)
    PROVE  /\ UNCHANGED <<clock, stored, cache>> /\ r \in DOMAIN reads
           /\ \E x \in Read : /\ Set(r, x)
                              /\ x.lookup = reads[r].lookup /\ x.start = reads[r].start
                              /\ x.doc = reads[r].doc /\ x.meant = reads[r].meant
<1> DEFINE read == reads[r]
           Same(x) == /\ x.lookup = read.lookup /\ x.start = read.start
                      /\ x.doc = read.doc /\ x.meant = read.meant
<1>1. /\ UNCHANGED <<clock, stored, cache>> /\ r \in DOMAIN reads
    BY DEF CacheMiss, ResolveGiven, ResolveMissing, ResolveShared, Search, Remember,
       FetchRejected, FetchFails, LookAgain, At
<1>2. read \in Read /\ Sending(read) /\ globKey \in Key \cup {NoKey}
    BY <1>1 DEF SendingInv, TypeOK
<1>3. SendingInv'
    BY SendingStep DEF Next, Resolve, Fetch
<1>4. PICK x : Set(r, x) /\ Same(x)
    <2>1. \A pc : Same([read EXCEPT !.pc = pc])
        BY <1>2 DEF Read
    <2>2. \A pc, key : Same([read EXCEPT !.pc = pc, !.apiKey = key])
        BY <1>2 DEF Read
    <2>3. Same(After(read))
        BY <1>2, AfterRead
    <2>4. ASSUME NEW key, Use(read, key) \notin {After(read)} PROVE Same(Use(read, key))
        BY <1>2, <2>4 DEF Use, Read
    <2>5. \A key : Same(Use(read, key))
        BY <2>3, <2>4
    <2> HIDE DEF Same
    <2>6. CASE CacheMiss(r)
        BY <2>1, <2>6 DEF CacheMiss
    <2>7. CASE ResolveGiven(r) \/ Remember(r)
        BY <2>5, <2>7 DEF ResolveGiven, Remember
    <2>8. CASE ResolveMissing(r) \/ FetchFails(r)
        BY <2>3, <2>8 DEF ResolveMissing, FetchFails
    <2>9. CASE ResolveShared(r)
        BY <2>1, <2>5, <2>9 DEF ResolveShared
    <2>10. CASE Search(r)
        BY <2>2, <2>3, <2>10, Zenon DEF Search
    <2>11. CASE FetchRejected(r)
        BY <2>1, <2>3, <2>11 DEF FetchRejected
    <2>12. CASE LookAgain(r)
        BY <2>2, <2>12 DEF LookAgain
    <2> QED BY <2>6, <2>7, <2>8, <2>9, <2>10, <2>11, <2>12
<1>5. x \in Read
    BY <1>1, <1>3, <1>4 DEF Set, SendingInv, TypeOK
<1> QED BY <1>1, <1>4, <1>5

\* Every step keeps the times: what is cached is not older than it is said to be, and has
\* data in it.
LEMMA DatedStep == SendingInv /\ DatedInv /\ [Next]_vars => DatedInv'
<1> SUFFICES ASSUME SendingInv, DatedInv, [Next]_vars PROVE DatedInv'
    OBVIOUS
<1>0. /\ clock \in Time /\ reads \in [DOMAIN reads -> Read]
      /\ \A r \in DOMAIN reads : reads[r].start \in Time /\ reads[r].doc \in Document
    BY DEF SendingInv, TypeOK, Read
<1>1. CASE Tick
    BY <1>0, <1>1 DEF Tick, DatedInv, CachedDated, CachedAvailable, Dated, Time
<1>2. ASSUME NEW f \in Files, Renew(f) \/ FileChanges(f) PROVE DatedInv'
    <2>1. UNCHANGED <<clock, cache>> /\ DOMAIN reads' = DOMAIN reads
        BY <1>2, Zenon DEF Renew, FileChanges
    <2>2. ASSUME NEW r \in DOMAIN reads
          PROVE  reads'[r].start = reads[r].start /\ reads'[r].doc = reads[r].doc
        <3>1. CASE Renew(f)
            BY <3>1, Zenon DEF Renew
        <3>2. CASE FileChanges(f)
            BY <1>0, <3>2 DEF FileChanges, Read
        <3> QED BY <1>2, <3>1, <3>2
    <2> QED BY <2>1, <2>2 DEF DatedInv, CachedDated, CachedAvailable, Dated
<1>3. ASSUME NEW r \in Readers, Begin(r) PROVE DatedInv'
    <2>1. PICK kind \in Kinds, f \in Files, force \in BOOLEAN :
             \E gen \in 1 .. valid[f] : reads' = With(reads, r, New(kind, f, force, gen))
        BY <1>3 DEF Begin, New
    <2>2. PICK gen \in 1 .. valid[f] : reads' = With(reads, r, New(kind, f, force, gen))
        BY <2>1
    <2>3. Dated(New(kind, f, force, gen))
        BY <1>0 DEF New, Dated, Available, Empty, Time
    <2>4. UNCHANGED <<clock, cache>>
        BY <1>3 DEF Begin
    <2> QED BY <2>2, <2>3, <2>4 DEF With, DatedInv, CachedDated, CachedAvailable, Dated
<1>4. ASSUME NEW r \in Readers,
             CacheMiss(r) \/ ResolveGiven(r) \/ ResolveMissing(r) \/ ResolveShared(r)
             \/ Search(r) \/ Remember(r) \/ FetchRejected(r) \/ FetchFails(r) \/ LookAgain(r)
      PROVE  DatedInv'
    <2>1. UNCHANGED <<clock, cache>> /\ r \in DOMAIN reads
        BY <1>4, ReadStep
    <2>2. PICK x \in Read : /\ Set(r, x)
                            /\ x.start = reads[r].start /\ x.doc = reads[r].doc
        BY <1>4, ReadStep
    <2> QED BY <2>1, <2>2 DEF Set, DatedInv, CachedDated, CachedAvailable, Dated
<1>5. ASSUME NEW r \in Readers, FetchSucceeds(r) PROVE DatedInv'
    <2>1. /\ r \in DOMAIN reads /\ reads[r].pc = "fetch" /\ UNCHANGED <<clock, cache>>
          /\ Set(r, After(Got(reads[r])))
        BY <1>5 DEF FetchSucceeds, At, Got
    <2>2. reads[r] \in Read /\ Sent(reads[r]) \in Key
        BY <2>1, SentKey
    <2>3. Dated(After(Got(reads[r])))
        BY <1>0, <2>1, <2>2, GotRead, AfterRead
        DEF Dated, DatedInv, Available, Document, SendingInv, Time
    <2> QED BY <2>1, <2>3 DEF Set, DatedInv, CachedDated, CachedAvailable, Dated
<1>6. ASSUME NEW r \in Readers, CacheHit(r) \/ Finish(r) PROVE DatedInv'
    <2>1. r \in DOMAIN reads /\ Dated(reads[r]) /\ End(r) /\ UNCHANGED clock
        BY <1>6 DEF CacheHit, Finish, At, DatedInv
    <2> DEFINE k == reads[r].lookup.cacheKey
               v == [at |-> reads[r].start, doc |-> reads[r].doc]
    <2>2. cache' = cache \/ (Available(v.doc) /\ cache' = With(cache, k, v))
        BY <1>6 DEF CacheHit, Finish
    <2>3. Available(v.doc) => v.at <= v.doc.since
        BY <2>1 DEF Dated
    <2>4. CachedDated' /\ CachedAvailable'
        <3> HIDE DEF k, v
        <3> QED BY <2>2, <2>3 DEF With, DatedInv, CachedDated, CachedAvailable, Available
    <2> QED BY <2>1, <2>4 DEF End, DatedInv, Dated
<1>7. CASE UNCHANGED vars
    BY <1>7 DEF vars, DatedInv, CachedDated, CachedAvailable, Dated
<1> QED BY <1>1, <1>2, <1>3, <1>4, <1>5, <1>6, <1>7 DEF Next, Resolve, Fetch

\* Every cached document has data in it, and was stored under a time before its data.
LEMMA DatedHolds == Spec => [](SendingInv /\ DatedInv)
<1>1. Init => DatedInv
    BY DEF Init, DatedInv, CachedDated, CachedAvailable
<1> QED BY <1>1, DatedStep, SendingHolds, PTL DEF Spec

\* The cache never answers with data older than quotaCacheTTL when the read began.
THEOREM FreshAnswers == Spec => AnswersAreFresh
<1>1. SendingInv /\ DatedInv /\ [Next]_vars =>
         [\A r \in Readers : (At(r, "cache") /\ r \notin DOMAIN reads') =>
             reads[r].start < cache[reads[r].lookup.cacheKey].doc.since + CacheTTL]_vars
    <2> SUFFICES ASSUME SendingInv, DatedInv, Next, NEW r \in Readers,
                        At(r, "cache"), r \notin DOMAIN reads'
                 PROVE  reads[r].start < cache[reads[r].lookup.cacheKey].doc.since + CacheTTL
        BY DEF At
    <2>1. Hit(reads[r])
        <3>1. CASE Tick
            BY <3>1 DEF Tick, At
        <3>2. ASSUME NEW f \in Files, Renew(f) \/ FileChanges(f) PROVE Hit(reads[r])
            BY <3>2, Zenon DEF Renew, FileChanges, At
        <3>3. ASSUME NEW q \in Readers,
                     Begin(q) \/ CacheMiss(q) \/ Resolve(q) \/ Fetch(q) \/ LookAgain(q)
              PROVE  Hit(reads[r])
            <4>1. CASE Begin(q)
                BY <4>1 DEF Begin, With, At
            <4>2. CASE FetchSucceeds(q)
                BY <4>2 DEF FetchSucceeds, Set, At
            <4>3. CASE ~Begin(q) /\ ~FetchSucceeds(q)
                <5>1. \E x \in Read : Set(q, x)
                    BY <3>3, <4>3, ReadStep DEF Resolve, Fetch
                <5> QED BY <5>1 DEF Set, At
            <4> QED BY <4>1, <4>2, <4>3
        <3>4. ASSUME NEW q \in Readers, CacheHit(q) PROVE Hit(reads[r])
            BY <3>4 DEF CacheHit, End, At
        <3>5. ASSUME NEW q \in Readers, Finish(q) PROVE Hit(reads[r])
            BY <3>5 DEF Finish, End, At
        <3> QED BY <3>1, <3>2, <3>3, <3>4, <3>5 DEF Next
    <2> DEFINE k == reads[r].lookup.cacheKey
    <2>2. k \in DOMAIN cache /\ reads[r].start < cache[k].at + CacheTTL
        BY <2>1 DEF Hit
    <2>3. cache[k].at <= cache[k].doc.since
        BY <2>2 DEF DatedInv, CachedDated
    <2>4. /\ reads[r].start \in Nat /\ CacheTTL \in Nat
          /\ cache[k].at \in Nat /\ cache[k].doc.since \in Nat
        <3>1. reads[r].start \in Time
            BY DEF SendingInv, TypeOK, At, Read
        <3>2. cache[k].at \in Time /\ cache[k].doc \in Document
            BY <2>2 DEF SendingInv, TypeOK
        <3>3. cache[k].doc.since \in Time
            BY <3>2 DEF Document
        <3> QED BY <3>1, <3>2, <3>3, QuotaAssumption DEF Time
    <2> QED BY <2>2, <2>3, <2>4
<1> QED BY <1>1, DatedHolds, PTL DEF Spec, AnswersAreFresh

\* A read that got neither credits nor usage leaves what is cached: no document is ever
\* replaced by one without data, or lost.
THEOREM FailuresHarmless == Spec => FailuresKeepTheCache
<1>1. SendingInv /\ DatedInv /\ [Next]_vars =>
         [\A k \in DOMAIN cache : k \in DOMAIN cache' /\ Available(cache'[k].doc)]_vars
    <2> SUFFICES ASSUME SendingInv, DatedInv, Next
                 PROVE  \A k \in DOMAIN cache : k \in DOMAIN cache' /\ Available(cache'[k].doc)
        OBVIOUS
    <2>1. CachedAvailable'
        BY DatedStep DEF DatedInv
    <2>2. DOMAIN cache \subseteq DOMAIN cache'
        <3>1. ASSUME NEW r \in Readers, Finish(r) PROVE DOMAIN cache \subseteq DOMAIN cache'
            BY <3>1 DEF Finish, With
        <3>2. ASSUME NEW r \in Readers, Resolve(r) \/ LookAgain(r) \/ CacheMiss(r) \/ Fetch(r)
              PROVE  UNCHANGED cache
            BY <3>2, ReadStep DEF Resolve, Fetch, FetchSucceeds
        <3>3. ASSUME NEW f \in Files, Renew(f) \/ FileChanges(f) PROVE UNCHANGED cache
            BY <3>3, Zenon DEF Renew, FileChanges
        <3> QED BY <3>1, <3>2, <3>3 DEF Next, Tick, Begin, CacheHit
    <2> QED BY <2>1, <2>2 DEF CachedAvailable
<1> QED BY <1>1, DatedHolds, PTL DEF Spec, FailuresKeepTheCache
-----------------------------------------------------------------------------
\* A file's name stands for that file; the key an auth_index stands for is a named file's.
LEMMA NamedKey ==
    ASSUME TypeOK
    PROVE  /\ \A f \in Files : \A files : Named(f, files) = {f}
           /\ \A index : LET key == quotaAPIKeyFromAuthIndex(index)
                         IN key # NoKey => key.account \in Named(index, stored)
           /\ \A f \in Files : KeyIn(f) # NoKey => KeyIn(f).account = f
<1>1. \A f \in Files : \A files : Named(f, files) = {f}
    BY DEF Named
<1>2. \A f : KeyIn(f) # NoKey => KeyIn(f).account = f
    BY DEF KeyIn
<1>3. ASSUME NEW index, quotaAPIKeyFromAuthIndex(index) # NoKey
      PROVE  quotaAPIKeyFromAuthIndex(index).account \in Named(index, stored)
    <2> DEFINE names == Named(index, stored)
    <2>1. /\ names # {}
          /\ quotaAPIKeyFromAuthIndex(index) = KeyIn(CHOOSE f \in names : TRUE)
        BY <1>3 DEF quotaAPIKeyFromAuthIndex
    <2> HIDE DEF names
    <2>2. (CHOOSE f \in names : TRUE) \in names
        BY <2>1
    <2>3. quotaAPIKeyFromAuthIndex(index).account \in names
        BY <1>2, <1>3, <2>1, <2>2
    <2> QED BY <2>3 DEF names
<1> QED BY <1>1, <1>2, <1>3

\* A step of one read that keeps what it holds its own keeps the invariant.
LEMMA SetOwn ==
    ASSUME OwnInv, NEW r \in DOMAIN reads, NEW x, Own(x, stored), Set(r, x),
           UNCHANGED <<stored, cache>>
    PROVE  OwnInv'
<1>1. CachedOwn'
    BY DEF OwnInv, CachedOwn
<1>2. DOMAIN reads' = DOMAIN reads /\ \A q \in DOMAIN reads : Own(reads'[q], stored')
    BY DEF OwnInv, Set
<1> QED BY <1>1, <1>2 DEF OwnInv

\* A read that names a credential, or none, begins with what it has named; only a key
\* alone ("stored") names an account that the search for another key does not.
LEMMA NewOwn ==
    ASSUME TypeOK, "stored" \notin Kinds, NEW kind \in Kinds, NEW f \in Files,
           NEW force \in BOOLEAN, NEW gen \in 1 .. valid[f]
    PROVE  Own(New(kind, f, force, gen), stored)
<1> DEFINE lookup == Lookup(kind, f, gen)
           meant == IF lookup.authIndex # 0 THEN Named(lookup.authIndex, stored)
                    ELSE IF kind = "glob" THEN Files ELSE {f}
           new == New(kind, f, force, gen)
<1>1. /\ new.pc \in {"resolve", "cache"} /\ new.lookup = lookup /\ new.meant = meant
      /\ new.apiKey = lookup.apiKey /\ new.sent = <<>> /\ new.doc = Empty
    BY DEF New
<1> SUFFICES /\ Owned(lookup.apiKey, new)
             /\ lookup.requested \/ meant = Files
             /\ lookup.authIndex # 0 => meant = Named(lookup.authIndex, stored)
             /\ lookup.cacheKey.file \in Files =>
                   /\ lookup.authIndex \in {0, lookup.cacheKey.file}
                   /\ meant = {lookup.cacheKey.file}
    <2> HIDE DEF new, lookup, meant
    <2>1. Own(new, stored)
        BY <1>1 DEF Own, Owned, Empty
    <2> QED BY <2>1 DEF new
<1>2. /\ f # 0 /\ NFiles + f # 0 /\ NFiles + f \notin Files /\ 0 \notin Files
    BY QuotaAssumption DEF Files
<1>3. CASE kind = "glob"
    BY <1>1, <1>2, <1>3 DEF Lookup, LookupOf, CacheKey, Owned
<1>4. CASE kind = "file"
    <2>1. lookup = LookupOf(TRUE, f, quotaAPIKeyFromAuthIndex(f), CacheKey("auth", f, 0))
        BY <1>4 DEF Lookup
    <2>2. meant = {f}
        BY <1>2, <2>1, NamedKey DEF LookupOf
    <2> HIDE DEF lookup, meant, new
    <2> QED BY <1>1, <1>2, <2>1, <2>2, NamedKey DEF LookupOf, CacheKey, Owned
<1>5. CASE kind = "position"
    <2> DEFINE index == NFiles + f
    <2>1. lookup = LookupOf(TRUE, index, quotaAPIKeyFromAuthIndex(index), CacheKey("auth", index, 0))
        BY <1>5 DEF Lookup
    <2>2. meant = Named(index, stored)
        BY <1>2, <2>1 DEF LookupOf
    <2>3. index \notin Files
        BY <1>2
    <2> HIDE DEF lookup, meant, new, index
    <2> QED BY <1>1, <2>1, <2>2, <2>3, NamedKey DEF LookupOf, CacheKey, Owned
<1>6. CASE kind = "host"
    <2>1. lookup = LookupOf(TRUE, f, [account |-> f, gen |-> gen], CacheKey("auth", f, 0))
        BY <1>6 DEF Lookup
    <2>2. meant = {f}
        BY <1>2, <2>1, NamedKey DEF LookupOf
    <2> HIDE DEF lookup, meant, new
    <2> QED BY <1>1, <1>2, <2>1, <2>2, NamedKey DEF LookupOf, CacheKey, Owned
<1>7. CASE kind = "dashboard"
    <2>1. lookup = LookupOf(TRUE, 0, KeyIn(f), CacheKey("dashboard", f, 0))
        BY <1>7 DEF Lookup
    <2>2. meant = {f}
        BY <1>7, <2>1 DEF LookupOf
    <2> HIDE DEF lookup, meant, new
    <2> QED BY <1>1, <2>1, <2>2, NamedKey DEF LookupOf, CacheKey, Owned
<1> QED BY QuotaAssumption, <1>3, <1>4, <1>5, <1>6, <1>7

\* Every step keeps what a read holds, and what is cached, with the accounts named.
LEMMA OwnStep ==
    ASSUME "stored" \notin Kinds
    PROVE  SendingInv /\ DatedInv /\ OwnInv /\ [Next]_vars => OwnInv'
<1> SUFFICES ASSUME SendingInv, DatedInv, OwnInv, [Next]_vars PROVE OwnInv'
    OBVIOUS
<1>0. TypeOK /\ reads \in [DOMAIN reads -> Read]
    BY DEF SendingInv, TypeOK
<1>1. CASE Tick
    BY <1>1 DEF Tick, OwnInv, CachedOwn, Own, Owned
<1>2. ASSUME NEW f \in Files, Renew(f) PROVE OwnInv'
    <2>1. UNCHANGED <<stored, cache, reads>>
        BY <1>2, Zenon DEF Renew
    <2> QED BY <2>1 DEF OwnInv, CachedOwn, Own, Owned
<1>3. ASSUME NEW f \in Files, FileChanges(f) PROVE OwnInv'
    <2>1. UNCHANGED cache /\ DOMAIN reads' = DOMAIN reads
        BY <1>3 DEF FileChanges
    <2>2. ASSUME NEW r \in DOMAIN reads PROVE Own(reads'[r], stored')
        <3> DEFINE read == reads[r]
                   index == read.lookup.authIndex
                   added == IF index = 0 THEN {} ELSE Named(index, stored')
                   read1 == reads'[r]
        <3>1. read \in Read /\ Own(read, stored)
            BY <1>0 DEF OwnInv
        <3>2. read1 = IF index = 0 THEN read ELSE [read EXCEPT !.meant = @ \cup Named(index, stored')]
            BY <1>3 DEF FileChanges
        <3>3. /\ read1.lookup = read.lookup /\ read1.apiKey = read.apiKey
              /\ read1.sent = read.sent /\ read1.doc = read.doc /\ read1.pc = read.pc
              /\ read1.meant = read.meant \cup added
            BY <3>1, <3>2 DEF Read
        <3>4. read.lookup.cacheKey.file \in Files => added \subseteq {read.lookup.cacheKey.file}
            BY <1>0, <3>1, NamedKey DEF Own
        <3>5. added \subseteq Files
            BY DEF Named
        <3>6. index # 0 => added = Named(index, stored')
            OBVIOUS
        <3>7. read.meant \subseteq Files
            BY <3>1 DEF Read
        <3> HIDE DEF added, read1, read, index
        <3>8. Own(read1, stored')
            <4>1. Owned(read1.lookup.apiKey, read1) /\ Owned(read1.apiKey, read1)
                BY <3>1, <3>3 DEF Own, Owned
            <4>2. \A i \in 1 .. Len(read1.sent) : Owned(read1.sent[i], read1)
                BY <3>1, <3>3 DEF Own, Owned
            <4>3. /\ read1.doc.accounts \subseteq read1.meant
                  /\ IF read1.lookup.requested THEN read1.pc \notin {"search", "remember"}
                     ELSE read1.meant = Files
                BY <3>1, <3>3, <3>5, <3>7 DEF Own
            <4>4. read1.lookup.authIndex # 0 =>
                     Named(read1.lookup.authIndex, stored') \subseteq read1.meant
                BY <3>3, <3>6 DEF index
            <4>5. read1.lookup.cacheKey.file \in Files =>
                     /\ read1.lookup.authIndex \in {0, read1.lookup.cacheKey.file}
                     /\ read1.meant = {read1.lookup.cacheKey.file}
                BY <3>1, <3>3, <3>4 DEF Own
            <4> QED BY <4>1, <4>2, <4>3, <4>4, <4>5 DEF Own
        <3> QED BY <3>8 DEF read1
    <2> QED BY <2>1, <2>2 DEF OwnInv, CachedOwn
<1>4. ASSUME NEW r \in Readers, Begin(r) PROVE OwnInv'
    <2>1. PICK kind \in Kinds, f \in Files, force \in BOOLEAN :
             \E gen \in 1 .. valid[f] : reads' = With(reads, r, New(kind, f, force, gen))
        BY <1>4 DEF Begin, New
    <2>2. PICK gen \in 1 .. valid[f] : reads' = With(reads, r, New(kind, f, force, gen))
        BY <2>1
    <2> DEFINE new == New(kind, f, force, gen)
    <2>3. Own(new, stored) /\ UNCHANGED <<stored, cache>>
        BY <1>0, <1>4, NewOwn DEF Begin
    <2> HIDE DEF new
    <2>4. \A q \in DOMAIN reads' : Own(reads'[q], stored)
        BY <2>2, <2>3 DEF With, OwnInv, new
    <2> QED BY <2>3, <2>4 DEF OwnInv, CachedOwn, Own, Owned
<1>5. ASSUME NEW r \in Readers,
             CacheMiss(r) \/ ResolveGiven(r) \/ ResolveMissing(r) \/ ResolveShared(r)
             \/ Search(r) \/ Remember(r) \/ Fetch(r) \/ LookAgain(r)
      PROVE  OwnInv'
    <2> DEFINE read == reads[r]
    <2>1. /\ r \in DOMAIN reads /\ UNCHANGED <<stored, cache>>
          /\ read \in Read /\ Own(read, stored) /\ Sending(read)
        BY <1>0, <1>5, ReadStep DEF Fetch, FetchSucceeds, At, OwnInv, SendingInv
    <2> SUFFICES \E x : Own(x, stored) /\ Set(r, x)
        BY <2>1, SetOwn
    <2>2. ASSUME NEW read1 \in Read, read1.lookup = read.lookup, read1.meant = read.meant,
                 read1.doc.accounts \subseteq read.meant
          PROVE  Own(After(read1), stored)
        BY <2>1, <2>2, AfterRead DEF Own, Owned
    <2>3. Own(After(read), stored)
        BY <2>1, <2>2 DEF Own
    <2>4. ASSUME NEW key \in Key, Owned(key, read), Len(read.sent) <= 1
          PROVE  Own(Use(read, key), stored)
        <3> DEFINE x == Use(read, key)
        <3>1. \A k \in Range(read.sent) \cup {key} : Owned(k, read)
            <4>1. \A k \in Range(read.sent) : \E i \in 1 .. Len(read.sent) : k = read.sent[i]
                BY <2>1 DEF Range, Read
            <4> QED BY <2>1, <2>4, <4>1 DEF Own
        <3>2. /\ x.lookup = read.lookup /\ x.meant = read.meant /\ x.doc = read.doc
              /\ x.pc \notin {"search", "remember"} /\ x.apiKey \in {read.apiKey, read.lookup.apiKey}
              /\ \A i \in 1 .. Len(x.sent) : x.sent[i] \in Range(read.sent) \cup {key}
            BY <2>1, <2>4, UseRead
        <3> HIDE DEF x
        <3> QED BY <2>1, <3>1, <3>2 DEF Own, Owned, x
    <2>5. ASSUME NEW pc \in {"resolve", "again"} PROVE Own([read EXCEPT !.pc = pc], stored)
        BY <2>1 DEF Read, Own, Owned
    <2>6. ASSUME NEW pc \in {"resolve", "search", "remember"}, NEW key, Owned(key, read),
                 pc \in {"search", "remember"} => ~read.lookup.requested
          PROVE  Own([read EXCEPT !.pc = pc, !.apiKey = key], stored)
        <3> DEFINE x == [read EXCEPT !.pc = pc, !.apiKey = key]
        <3>1. /\ x.lookup = read.lookup /\ x.meant = read.meant /\ x.doc = read.doc
              /\ x.pc = pc /\ x.apiKey = key /\ x.sent = read.sent
            BY <2>1 DEF Read
        <3> HIDE DEF x
        <3> QED BY <2>1, <2>6, <3>1 DEF Own, Owned, x
    <2>7. CASE CacheMiss(r)
        BY <2>5, <2>7 DEF CacheMiss
    <2>8. CASE ResolveGiven(r) \/ Remember(r)
        <3>1. read.apiKey \in Key /\ Len(read.sent) <= 1
            BY <2>1, <2>8 DEF ResolveGiven, Remember, At, Sending, Read
        <3> QED BY <2>1, <2>4, <2>8, <3>1 DEF ResolveGiven, Remember, Own
    <2>9. CASE ResolveMissing(r) \/ FetchFails(r)
        BY <2>3, <2>9 DEF ResolveMissing, FetchFails
    <2>10. CASE ResolveShared(r)
        <3>1. read.meant = Files /\ Len(read.sent) <= 1 /\ ~read.lookup.requested
            BY <2>1, <2>10 DEF ResolveShared, At, Sending, Own
        <3>2. CASE globKey # NoKey
            <4>1. globKey \in Key
                BY <1>0, <3>2 DEF TypeOK
            <4>2. Owned(globKey, read)
                BY <3>1, <4>1 DEF Owned, Key
            <4> QED BY <2>4, <2>10, <3>1, <3>2, <4>1, <4>2 DEF ResolveShared
        <3>3. CASE globKey = NoKey
            <4>1. Set(r, [read EXCEPT !.pc = "search"])
                BY <2>10, <3>3 DEF ResolveShared
            <4>2. Own([read EXCEPT !.pc = "search"], stored)
                BY <2>1, <3>1 DEF Read, Own, Owned
            <4> QED BY <4>1, <4>2
        <3> QED BY <3>2, <3>3
    <2>11. CASE Search(r)
        <3>1. ~read.lookup.requested /\ read.meant = Files
            BY <2>1, <2>11 DEF Search, At, Own
        <3>2. \A f \in Files : Owned(KeyIn(f), read)
            BY <1>0, <3>1, NamedKey DEF Owned
        <3>3. \/ Set(r, After(read))
              \/ \E f \in Files : Set(r, [read EXCEPT !.pc = "remember", !.apiKey = KeyIn(f)])
            BY <2>11, Zenon DEF Search
        <3> QED BY <2>3, <2>6, <3>1, <3>2, <3>3
    <2>12. CASE FetchSucceeds(r)
        <3>1. /\ read.pc = "fetch" /\ Set(r, After(Got(read)))
            BY <2>12 DEF FetchSucceeds, At, Got
        <3>2. /\ Sent(read) \in Key /\ \E i \in 1 .. Len(read.sent) : Sent(read) = read.sent[i]
            BY <2>1, <3>1, SentKey
        <3>3. Sent(read) # NoKey
            BY <3>2 DEF Key, NoKey, Files
        <3>4. Sent(read).account \in read.meant
            BY <2>1, <3>2, <3>3 DEF Own, Owned
        <3>5. Got(read).doc.accounts \subseteq read.meant
            BY <1>0, <2>1, <3>2, <3>4, GotRead DEF Own
        <3> QED BY <1>0, <2>1, <2>2, <3>1, <3>2, <3>5, GotRead
    <2>13. CASE FetchRejected(r)
        BY <2>3, <2>5, <2>13 DEF FetchRejected
    <2>14. CASE LookAgain(r)
        <3> DEFINE key == IF read.lookup.requested /\ read.lookup.authIndex # 0
                          THEN quotaAPIKeyFromAuthIndex(read.lookup.authIndex) ELSE NoKey
        <3>1. Owned(key, read)
            BY <1>0, <2>1, NamedKey DEF Owned, Own
        <3>2. Set(r, [read EXCEPT !.pc = "resolve", !.apiKey = key])
            BY <2>14 DEF LookAgain
        <3> HIDE DEF key
        <3> QED BY <2>6, <3>1, <3>2
    <2> QED BY <1>5, <2>7, <2>8, <2>9, <2>10, <2>11, <2>12, <2>13, <2>14 DEF Fetch
<1>6. ASSUME NEW r \in Readers, CacheHit(r) \/ Finish(r) PROVE OwnInv'
    <2>1. r \in DOMAIN reads /\ Own(reads[r], stored) /\ End(r) /\ UNCHANGED stored
        BY <1>6 DEF CacheHit, Finish, At, OwnInv
    <2> DEFINE k == reads[r].lookup.cacheKey
               v == [at |-> reads[r].start, doc |-> reads[r].doc]
    <2>2. cache' = cache \/ (Available(v.doc) /\ cache' = With(cache, k, v))
        BY <1>6 DEF CacheHit, Finish
    <2>3. Available(v.doc) /\ k.file \in Files => v.doc.accounts = {k.file}
        BY <2>1 DEF Own, Available
    <2>4. CachedOwn'
        <3> HIDE DEF k, v
        <3> QED BY <2>2, <2>3 DEF With, OwnInv, CachedOwn
    <2>5. DOMAIN reads' \subseteq DOMAIN reads /\ \A q \in DOMAIN reads' : reads'[q] = reads[q]
        BY <2>1 DEF End
    <2> QED BY <2>1, <2>4, <2>5 DEF OwnInv, Own, Owned
<1>7. CASE UNCHANGED vars
    BY <1>7 DEF vars, OwnInv, CachedOwn, Own, Owned
<1> QED BY <1>1, <1>2, <1>3, <1>4, <1>5, <1>6, <1>7 DEF Next, Resolve, Fetch

\* "A requested lookup must never fall back to the first globbed auth file": for reads that
\* name a file, a position, an account of the dashboard, or nothing, a document is its
\* account's own.  The kind left out is the one of which QuotaStored shows the contrary.
THEOREM OwnAccounts ==
    ASSUME "stored" \notin Kinds
    PROVE  Spec => []OwnAccountOnly
<1>1. Init => OwnInv
    BY DEF Init, OwnInv, CachedOwn
<1>2. OwnInv => OwnAccountOnly
    BY DEF OwnInv, CachedOwn, Own, OwnAccountOnly
<1> QED BY <1>1, <1>2, OwnStep, DatedHolds, PTL DEF Spec
=============================================================================
