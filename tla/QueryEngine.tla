---------------------------- MODULE QueryEngine ----------------------------
(***************************************************************************)
(* Dataset queries on one server process: lib/data-sources/query.ts reads  *)
(* a source's configuration twice and its file, and duckdb-engine.ts keeps *)
(* the loaded tables in an LRU cache with one load at a time per key, use  *)
(* counts, eviction by size and a time limit on each query.                *)
(*                                                                         *)
(* JavaScript runs from one await to the next without interruption; that   *)
(* is one action here.  In particular a load that ends stores its table,   *)
(* evicts others and hands the table to those who wait in one go.          *)
(***************************************************************************)
EXTENDS Integers, FiniteSets, FiniteSetsExt

CONSTANTS Queries, Sources, Buckets, Owners, Contents,
          Columns,      \* the owner columns that a content has, once each
          Size,         \* the bytes of a content
          Limit,        \* TWD_ENGINE_LRU_BYTES
          Tables,       \* names for DuckDB instances
          MaxVersion,   \* bound on the edits of a source
          Nothing

ASSUME QueryEngineAssumption ==
  /\ IsFiniteSet(Queries)
  /\ Columns \in [Contents -> SUBSET Owners]
  /\ Size \in [Contents -> Nat]
  /\ Limit \in Nat
  /\ MaxVersion \in Nat \ {0}
  /\ Nothing \notin Sources \cup Buckets \cup Owners \cup Contents \cup Tables

VARIABLES
  config,   \* data_sources/{id}; version 0 is a deleted document
  file,     \* the CSV in each bucket, which its owner replaces at will
  h,        \* the queries' handlers
  table,    \* DuckDB instances: rawSourceCache and rawSourcePromiseCache
  older,    \* the order of rawSourceCache: <<i, j>> when i comes before j
  bytes     \* cachedBytes

vars == <<config, file, h, table, older, bytes>>

Versions == 0..MaxVersion
Config == [version : Versions, at : Buckets, owner : Owners]

\* A table is made from data, under the key (source, etag, version), and types
\* its columns for the owner column that its loader was given.
NoTable == [state |-> "none", source |-> Nothing, etag |-> Nothing, version |-> 0,
            data |-> Nothing, owner |-> Nothing, uses |-> 0]
Table == [state : {"loading", "cached"}, source : Sources, etag : Contents,
          version : Versions, data : Contents, owner : Owners, uses : Nat]

NoQuery == [pc |-> "idle", source |-> Nothing, version |-> 0, owner |-> Nothing,
            at |-> Nothing, etag |-> Nothing, data |-> Nothing, table |-> Nothing]
Query == [pc : {"idle", "asked", "authorised", "located", "read", "downloaded", "waiting",
                "using", "answered", "refused"},
          source : Sources \cup {Nothing}, version : Versions, owner : Owners \cup {Nothing},
          at : Buckets \cup {Nothing}, etag : Contents \cup {Nothing},
          data : Contents \cup {Nothing}, table : Tables \cup {Nothing}]

\* What bytes is, NothingLeaks says.
TypeOK == /\ config \in [Sources -> Config]
          /\ file \in [Buckets -> Contents]
          /\ h \in [Queries -> Query]
          /\ table \in [Tables -> Table \cup {NoTable}]
          /\ older \in SUBSET (Tables \X Tables)

Init == /\ config \in [Sources -> [version : {1}, at : Buckets, owner : Owners]]
        /\ file \in [Buckets -> Contents]
        /\ h = [q \in Queries |-> NoQuery]
        /\ table = [i \in Tables |-> NoTable]
        /\ older = {}
        /\ bytes = 0

-----------------------------------------------------------------------------
\* queryDataset up to the engine.

Ask(q) == /\ h[q].pc = "idle"
          /\ \E s \in Sources :
               h' = [h EXCEPT ![q] = [NoQuery EXCEPT !.pc = "asked", !.source = s]]
          /\ UNCHANGED <<config, file, table, older, bytes>>

\* getDataSource and canQueryDataSource: the grants are those of the document
\* just read; a viewer without one is refused (Refuse).
Authorise(q) ==
  LET c == config[h[q].source] IN
  /\ h[q].pc = "asked"
  /\ c.version > 0
  /\ h' = [h EXCEPT ![q] = [h[q] EXCEPT !.pc = "authorised", !.version = c.version,
                                        !.owner = c.owner]]
  /\ UNCHANGED <<config, file, table, older, bytes>>

\* getAuthorizedDataSourceWithCredentials reads the document once more and uses
\* its bucket and credential; version and owner column stay those of the first
\* reading.
Locate(q) ==
  LET c == config[h[q].source] IN
  /\ h[q].pc = "authorised"
  /\ c.version > 0
  /\ h' = [h EXCEPT ![q] = [h[q] EXCEPT !.pc = "located", !.at = c.at]]
  /\ UNCHANGED <<config, file, table, older, bytes>>

\* readByKey: the metadata give the hash and the generation ...
ReadMetadata(q) ==
  /\ h[q].pc = "located"
  /\ h' = [h EXCEPT ![q] = [h[q] EXCEPT !.pc = "read", !.etag = file[h[q].at]]]
  /\ UNCHANGED <<config, file, table, older, bytes>>

\* ... and the download is of that generation: if it has been replaced and the
\* bucket keeps no versions, it fails (Refuse).
Download(q) ==
  /\ h[q].pc = "read"
  /\ h' = [h EXCEPT ![q] = [h[q] EXCEPT !.pc = "downloaded", !.data = h[q].etag]]
  /\ UNCHANGED <<config, file, table, older, bytes>>

\* Unknown source, no grant, a source deleted between the two readings, storage
\* that fails, SQL that the guard rejects: nothing has been taken yet.
Refuse(q) ==
  /\ h[q].pc \in {"asked", "authorised", "located", "read", "downloaded"}
  /\ h' = [h EXCEPT ![q] = [NoQuery EXCEPT !.pc = "refused"]]
  /\ UNCHANGED <<config, file, table, older, bytes>>

-----------------------------------------------------------------------------
\* getOrCreateRawSource

\* Mutant: the key is the configuration alone.
SameSource(q, i) == /\ table[i].source = h[q].source
                    /\ table[i].version = h[q].version

SameKey(q, i) == /\ table[i].source = h[q].source
                 /\ table[i].etag = h[q].etag
                 /\ table[i].version = h[q].version

Cached(q) == {i \in Tables : table[i].state = "cached" /\ SameKey(q, i)}

\* Mutant: loads are not shared.
NoneInFlight(q) == {}

InFlight(q) == {i \in Tables : table[i].state = "loading" /\ SameKey(q, i)}

CachedTables == {i \in Tables : table[i].state = "cached"}

\* A hit makes the entry the youngest.
Hit(q) ==
  /\ h[q].pc = "downloaded"
  /\ \E i \in Cached(q) :
       /\ h' = [h EXCEPT ![q] = [h[q] EXCEPT !.pc = "using", !.table = i]]
       /\ table' = [table EXCEPT ![i] = [table[i] EXCEPT !.uses = table[i].uses + 1]]
       /\ older' = {p \in older : p[1] # i} \cup ((CachedTables \ {i}) \X {i})
  /\ UNCHANGED <<config, file, bytes>>

Join(q) ==
  /\ h[q].pc = "downloaded"
  /\ Cached(q) = {}
  /\ \E i \in InFlight(q) :
       h' = [h EXCEPT ![q] = [h[q] EXCEPT !.pc = "waiting", !.table = i]]
  /\ UNCHANGED <<config, file, table, older, bytes>>

Free == {i \in Tables : table[i].state = "none"}

StartLoad(q) ==
  LET i == CHOOSE j \in Free : TRUE IN
  /\ h[q].pc = "downloaded"
  /\ Cached(q) = {}
  /\ InFlight(q) = {}
  /\ Free # {}
  /\ h' = [h EXCEPT ![q] = [h[q] EXCEPT !.pc = "waiting", !.table = i]]
  /\ table' = [table EXCEPT ![i] =
                 [state |-> "loading", source |-> h[q].source, etag |-> h[q].etag,
                  version |-> h[q].version, data |-> h[q].data, owner |-> h[q].owner,
                  uses |-> 0]]
  /\ UNCHANGED <<config, file, older, bytes>>

-----------------------------------------------------------------------------
\* createRawSource and enforceCacheLimit

Waiters(i) == {q \in Queries : h[q].pc = "waiting" /\ h[q].table = i}
Bytes(S) == MapThenSumSet(LAMBDA i : Size[table[i].data], S)

\* enforceCacheLimit goes through the cache from its oldest entry, passes over
\* the protected one and those in use, and stops as soon as the rest fits.
\*
\* Mutant: it does not look who uses a table.
IdleOrNot(i) == CachedTables \ {i}

Idle(i) == {j \in CachedTables \ {i} : table[j].uses = 0}

\* Mutant: it makes room for one byte more.
EvictedAtLimit(i, total) ==
  {j \in Idle(i) : total - Bytes({k \in Idle(i) : <<k, j>> \in older}) >= Limit}

Evicted(i, total) ==
  {j \in Idle(i) : total - Bytes({k \in Idle(i) : <<k, j>> \in older}) > Limit}

\* Whoever waited uses the table from now on.
Handed(i) == Cardinality(Waiters(i))

EndLoad(i) ==
  LET total == bytes + Size[table[i].data]
      gone  == Evicted(i, total)
  IN /\ table[i].state = "loading"
     /\ table' = [j \in Tables |->
                    IF j = i THEN [table[i] EXCEPT !.state = "cached",
                                                   !.uses = Handed(i)]
                    ELSE IF j \in gone THEN NoTable ELSE table[j]]
     /\ older' = {p \in older : p[1] \notin gone /\ p[2] \notin gone}
                   \cup ((CachedTables \ gone) \X {i})
     /\ bytes' = total - Bytes(gone)
     /\ h' = [q \in Queries |-> IF q \in Waiters(i) THEN [h[q] EXCEPT !.pc = "using"]
                                                    ELSE h[q]]
     /\ UNCHANGED <<config, file>>

\* A CSV that does not parse, or DuckDB failing: the instance is closed and all
\* who wait for it fail.
\*
\* Mutant: nobody tells those who wait.
FailLoadSilently(i) ==
  /\ table[i].state = "loading"
  /\ table' = [table EXCEPT ![i] = NoTable]
  /\ UNCHANGED <<config, file, h, older, bytes>>

FailLoad(i) ==
  /\ table[i].state = "loading"
  /\ table' = [table EXCEPT ![i] = NoTable]
  /\ h' = [q \in Queries |-> IF q \in Waiters(i) THEN [NoQuery EXCEPT !.pc = "refused"]
                                                 ELSE h[q]]
  /\ UNCHANGED <<config, file, older, bytes>>

-----------------------------------------------------------------------------
\* run: connect, create the filtered view, execute, and in every case release.

Release(i) == table' = [table EXCEPT ![i] = [table[i] EXCEPT !.uses = table[i].uses - 1]]

\* createFilteredView fails closed unless the owner column is there, once.
Answer(q) ==
  LET t == table[h[q].table] IN
  /\ h[q].pc = "using"
  /\ h[q].owner \in Columns[t.data]
  /\ h' = [h EXCEPT ![q] = [NoQuery EXCEPT !.pc = "answered", !.source = h[q].source,
                              !.version = h[q].version, !.at = h[q].at,
                              !.owner = h[q].owner, !.data = t.data]]
  /\ Release(h[q].table)
  /\ UNCHANGED <<config, file, older, bytes>>

\* No such column, an error of DuckDB, or runWithTimeout's timer.
FailQuery(q) ==
  /\ h[q].pc = "using"
  /\ h' = [h EXCEPT ![q] = [NoQuery EXCEPT !.pc = "refused"]]
  /\ Release(h[q].table)
  /\ UNCHANGED <<config, file, older, bytes>>

Leave(q) == /\ h[q].pc \in {"answered", "refused"}
            /\ h' = [h EXCEPT ![q] = NoQuery]
            /\ UNCHANGED <<config, file, table, older, bytes>>

-----------------------------------------------------------------------------
\* Administrators and bucket owners.

Edit(s) == /\ config[s].version \in 1..(MaxVersion - 1)
           /\ \E b \in Buckets, o \in Owners :
                /\ <<b, o>> # <<config[s].at, config[s].owner>>
                /\ config' = [config EXCEPT ![s] = [version |-> config[s].version + 1,
                                                    at |-> b, owner |-> o]]
           /\ UNCHANGED <<file, h, table, older, bytes>>

Delete(s) == /\ config[s].version > 0
             /\ config' = [config EXCEPT ![s] = [config[s] EXCEPT !.version = 0]]
             /\ UNCHANGED <<file, h, table, older, bytes>>

Upload(b) == /\ \E c \in Contents : file' = [file EXCEPT ![b] = c]
             /\ UNCHANGED <<config, h, table, older, bytes>>

Step(q) == \/ Authorise(q) \/ Locate(q) \/ ReadMetadata(q) \/ Download(q) \/ Refuse(q)
           \/ Hit(q) \/ Join(q) \/ StartLoad(q) \/ Answer(q) \/ FailQuery(q)

Next == \/ \E q \in Queries : Ask(q) \/ Step(q) \/ Leave(q)
        \/ \E i \in Tables : EndLoad(i) \/ FailLoad(i)
        \/ \E s \in Sources : Edit(s) \/ Delete(s)
        \/ \E b \in Buckets : Upload(b)

\* Calls that a handler awaits return or throw; DuckDB is interrupted when the
\* timer fires.
Fairness == /\ \A q \in Queries : WF_vars(Step(q))
            /\ \A i \in Tables : WF_vars(EndLoad(i) \/ FailLoad(i))

Spec == Init /\ [][Next]_vars /\ Fairness
-----------------------------------------------------------------------------
\* A query never works on a table that was closed or replaced under it, and the
\* table it works on is typed for the owner column it filters by: eviction
\* passes over tables in use (duckdb-engine.ts:510), and a key names one
\* configuration.
OpenWhileUsed ==
  \A q \in Queries : h[q].pc = "using" =>
    LET t == table[h[q].table] IN
    /\ t.state = "cached"
    /\ t.source = h[q].source /\ t.version = h[q].version
    /\ t.owner = h[q].owner

\* Nothing leaks: every open instance is being loaded for somebody, or is the
\* only one cached under its key; use counts and the byte count are exact, and
\* together with what is in use the cache keeps its limit after every load.
NothingLeaks ==
  /\ bytes = Bytes(CachedTables)
  /\ \A i \in Tables : table[i].state = "loading" => Waiters(i) # {}
  /\ \A i, j \in Tables : /\ i # j
                          /\ "none" \notin {table[i].state, table[j].state}
       => \/ table[i].source # table[j].source
          \/ table[i].etag # table[j].etag
          \/ table[i].version # table[j].version
  /\ \A i \in CachedTables :
       table[i].uses = Cardinality({q \in Queries : h[q].pc = "using" /\ h[q].table = i})

\* Eviction is by age and by need: what a load closes is older than any idle
\* table that stays, the last one it closed had to go, and if the limit is still
\* exceeded then everything else is in use.
Closed == {i \in CachedTables : table'[i].state = "none"}
Kept == {i \in CachedTables \ Closed : table[i].uses = 0}
EvictsAsNeeded ==
  [][/\ \A i \in Closed : /\ table[i].uses = 0
                          /\ \A j \in Kept : <<i, j>> \in older
     /\ Closed # {} => \E i \in Closed : /\ bytes' + Size[table[i].data] > Limit
                                         /\ \A j \in Closed \ {i} : <<j, i>> \in older
     /\ bytes' > bytes /\ bytes' > Limit => Kept = {}]_vars

\* The cache cannot be told from none: what a query is answered from is the
\* content it read, scoped by the column it was authorised with.
Pc(q) == IF h[q].pc \in {"downloaded", "waiting", "using"} THEN "read" ELSE h[q].pc
Asked == [q \in Queries |-> [pc |-> Pc(q), source |-> h[q].source, owner |-> h[q].owner,
                             at |-> h[q].at,
                             content |-> IF h[q].pc = "answered" THEN h[q].data
                                                                 ELSE h[q].etag]]
Direct == INSTANCE DirectQuery WITH ask <- Asked
ImplementsDirect == Direct!Spec

\* Every query ends, whoever else's load it waits for and however that ends.
Settled == \A q \in Queries : (h[q].pc = "asked") ~> (h[q].pc \in {"answered", "refused"})
=============================================================================
