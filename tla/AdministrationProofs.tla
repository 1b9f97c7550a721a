------------------------- MODULE AdministrationProofs -------------------------
(***************************************************************************)
(* What surrounds the pools of workers, for every number of clients, pools *)
(* and workers: the catalog of tools, the tools of the workers, and the    *)
(* routes of the admin API.                                                *)
(*                                                                         *)
(* Of the routes, a lemma per shape of program says what every program of  *)
(* that shape keeps, and one per table of routes that all its rows do; the *)
(* invariant of the requests then rests on those facts alone.              *)
(***************************************************************************)
EXTENDS MCAdministration, FiniteSetTheorems, TLAPS

-----------------------------------------------------------------------------
(* The catalog of tools *)

\* A tool that is on offer was so no tick ago, and one that is not was not.
HistoryIsCurrent ==
    \A e \in Entry : IF e \in OnOffer THEN on[e] = 0 ELSE off[e] = 0

\* How long the refresh of a thread can have taken so far.
Taken(c) == RpcTime * (Cardinality(CatalogPool) - Cardinality(client[c].todo)) + client[c].waited

\* What a thread has collected of the pools that it has asked, or found without a
\* worker, was true since its refresh began.
CollectedIsTrue(c) ==
    /\ \A e \in client[c].got : e[1] \notin client[c].todo
    /\ \A e \in Entry : e[1] \notin client[c].todo =>
        IF e \in client[c].got THEN on[e] <= Taken(c) ELSE off[e] <= Taken(c)
    /\ client[c].todo = {} => client[c].waited = 0
    /\ client[c].pc = "publish" => client[c].todo = {}

\* A catalog that is valid is as old as its validity has gone down, and as the
\* collection took.
CacheIsTrue == validFor > 0 => TrueWithin(cache, (Ttl - validFor) + CollectTime)

CatInv ==
    /\ CatTypeOK /\ HistoryIsCurrent /\ CacheIsTrue
    /\ \A c \in Client : client[c].pc = "refresh" => client[c].got = {} /\ client[c].waited = 0
    /\ \A c \in Client : Refreshing(c) => CollectedIsTrue(c)

\* Of the others, none changes when one thread takes a step.
OnlyClient(c) ==
    /\ client' \in [Client -> ClientRecord]
    /\ \A d \in Client : d # c => client'[d] = client[d]

LEMMA CollectTimes ==
    /\ Cardinality(CatalogPool) \in Nat /\ CollectTime \in Nat
    /\ \A c \in Client : client[c] \in ClientRecord /\ client[c].todo \subseteq CatalogPool =>
        /\ Cardinality(client[c].todo) \in 0 .. Cardinality(CatalogPool)
        /\ client[c].todo = {} => Cardinality(client[c].todo) = 0
        /\ Taken(c) \in Nat
        /\ client[c].todo = {} /\ client[c].waited = 0 => Taken(c) = CollectTime
<1>1. Cardinality(CatalogPool) \in Nat
  BY CatalogAssumption, FS_CardinalityType
<1>2. CollectTime \in Nat
  BY <1>1, CatalogAssumption DEF CollectTime
<1>3. ASSUME NEW c \in Client, client[c] \in ClientRecord, client[c].todo \subseteq CatalogPool
      PROVE  /\ Cardinality(client[c].todo) \in 0 .. Cardinality(CatalogPool)
             /\ client[c].todo = {} => Cardinality(client[c].todo) = 0
             /\ Taken(c) \in Nat
             /\ client[c].todo = {} /\ client[c].waited = 0 => Taken(c) = CollectTime
  <2>1. /\ IsFiniteSet(client[c].todo) /\ Cardinality(client[c].todo) \in Nat
        /\ Cardinality(client[c].todo) <= Cardinality(CatalogPool)
    BY <1>3, CatalogAssumption, FS_Subset, FS_CardinalityType
  <2>2. client[c].todo = {} => Cardinality(client[c].todo) = 0
    BY FS_EmptySet
  <2>3. client[c].waited \in Nat
    BY <1>3, CatalogAssumption DEF ClientRecord
  <2>4. Cardinality(CatalogPool) - Cardinality(client[c].todo) \in Nat
    BY <1>1, <2>1
  <2>5. RpcTime * (Cardinality(CatalogPool) - Cardinality(client[c].todo)) \in Nat
    BY <2>4, CatalogAssumption
  <2>6. Taken(c) \in Nat
    BY <2>3, <2>5 DEF Taken
  <2>7. ASSUME client[c].todo = {}, client[c].waited = 0 PROVE Taken(c) = CollectTime
    BY <1>1, <2>2, <2>7, CatalogAssumption DEF Taken, CollectTime
  <2> QED
    BY <1>1, <2>1, <2>2, <2>6, <2>7
<1> QED
  BY <1>1, <1>2, <1>3

LEMMA CatInvInitially == CatInit => CatInv
<1> SUFFICES ASSUME CatInit PROVE CatInv
  OBVIOUS
<1>1. IdleClient \in ClientRecord
  BY CatalogAssumption DEF IdleClient, ClientRecord
<1>2. \A c \in Client : client[c].pc = "idle"
  BY DEF CatInit, IdleClient
<1>3. CatTypeOK
  <2>1. validFor \in 0 .. Ttl
    BY CatalogAssumption DEF CatInit
  <2>2. client \in [Client -> ClientRecord]
    BY <1>1 DEF CatInit
  <2>3. on \in [Entry -> 0..Horizon] /\ off \in [Entry -> 0..Horizon]
    BY CatalogAssumption DEF CatInit
  <2>4. inFlight = \E c \in Client : Refreshing(c)
    <3>1. (\E c \in Client : Refreshing(c)) = FALSE
      BY <1>2 DEF Refreshing
    <3> QED
      BY <3>1 DEF CatInit
  <2>5. \A c, d \in Client : Refreshing(c) /\ Refreshing(d) => c = d
    BY <1>2 DEF Refreshing
  <2>6. offers \in [CatalogPool -> SUBSET CatalogTool] /\ admin \in BOOLEAN /\ cache \in SUBSET Entry
    BY DEF CatInit
  <2> QED
    BY <2>1, <2>2, <2>3, <2>4, <2>5, <2>6 DEF CatTypeOK
<1>4. HistoryIsCurrent /\ CacheIsTrue
  BY DEF CatInit, HistoryIsCurrent, CacheIsTrue, OnOffer, Entry
<1> QED
  BY <1>2, <1>3, <1>4 DEF CatInv, Refreshing

\* The history ages by at most a tick, and only when time passes.
Aged(n) ==
    /\ on' \in [Entry -> 0..Horizon] /\ off' \in [Entry -> 0..Horizon]
    /\ \A e \in Entry : on'[e] <= on[e] + n /\ off'[e] <= off[e] + n

LEMMA ChangeAges ==
    ASSUME CatInv, NEW p \in CatalogPool, NEW ts \in SUBSET CatalogTool, ChangeOffer(p, ts)
    PROVE  /\ offers' \in [CatalogPool -> SUBSET CatalogTool]
           /\ Aged(0) /\ HistoryIsCurrent'
<1>1. /\ offers \in [CatalogPool -> SUBSET CatalogTool]
      /\ on \in [Entry -> 0..Horizon] /\ off \in [Entry -> 0..Horizon]
      /\ 0 \in 0 .. Horizon /\ Horizon \in Nat
  BY CatalogAssumption DEF CatInv, CatTypeOK
<1>2. offers' = [offers EXCEPT ![p] = ts]
  BY DEF ChangeOffer
<1>3. /\ \A e \in Entry : on'[e] = IF e \in OnOffer \/ e \in {p} \X ts THEN 0 ELSE on[e]
      /\ \A e \in Entry : off'[e] = IF e \notin OnOffer \/ e \in {p} \X (CatalogTool \ ts)
                                    THEN 0 ELSE off[e]
      /\ on' = [e \in Entry |-> on'[e]] /\ off' = [e \in Entry |-> off'[e]]
  BY DEF ChangeOffer
<1>4. Aged(0)
  BY <1>1, <1>3 DEF Aged
<1>5. ASSUME NEW e \in Entry
      PROVE  IF e \in OnOffer' THEN on'[e] = 0 ELSE off'[e] = 0
  <2>1. PICK q, t : q \in CatalogPool /\ t \in CatalogTool /\ e = << q, t >>
    BY <1>5 DEF Entry
  <2>2. e \in OnOffer <=> t \in offers[q]
    BY <2>1 DEF OnOffer, Entry
  <2>3. e \in OnOffer' <=> t \in offers'[q]
    BY <2>1 DEF OnOffer, Entry
  <2>4. CASE q = p
    <3>1. offers'[q] = ts
      BY <1>1, <1>2, <2>1, <2>4
    <3> QED
      BY <1>3, <2>1, <2>3, <2>4, <3>1
  <2>5. CASE q # p
    <3>1. offers'[q] = offers[q]
      BY <1>1, <1>2, <2>1, <2>5
    <3> QED
      BY <1>3, <2>1, <2>2, <2>3, <3>1 DEF CatInv, HistoryIsCurrent
  <2> QED
    BY <2>4, <2>5
<1>6. HistoryIsCurrent'
  BY <1>5 DEF HistoryIsCurrent
<1> QED
  BY <1>1, <1>2, <1>4, <1>6

LEMMA HistoryKept ==
    ASSUME CatInv, [CatNext]_catVars
    PROVE  /\ offers' \in [CatalogPool -> SUBSET CatalogTool] /\ HistoryIsCurrent'
           /\ IF CatalogTick THEN Aged(1) ELSE Aged(0)
<1>1. /\ offers \in [CatalogPool -> SUBSET CatalogTool]
      /\ on \in [Entry -> 0..Horizon] /\ off \in [Entry -> 0..Horizon]
      /\ 0 \in 0 .. Horizon /\ Horizon \in Nat
  BY CatalogAssumption DEF CatInv, CatTypeOK
<1>2. Aged(0) => Aged(1)
  BY <1>1 DEF Aged
<1>3. CASE UNCHANGED << offers, on, off >>
  <2>1. Aged(0)
    BY <1>1, <1>3 DEF Aged
  <2>2. HistoryIsCurrent'
    BY <1>3 DEF CatInv, HistoryIsCurrent, OnOffer
  <2> QED
    BY <1>1, <1>2, <1>3, <2>1, <2>2
<1>4. CASE \E c \in Client, p \in CatalogPool : AskFails(c, p)
  <2>1. PICK p \in CatalogPool :
            /\ off' = [e \in Entry |-> IF e[1] = p THEN 0 ELSE off[e]]
            /\ UNCHANGED << offers, on >>
    BY <1>4 DEF AskFails
  <2>2. Aged(0)
    BY <1>1, <2>1 DEF Aged
  <2>3. HistoryIsCurrent'
    BY <2>1 DEF CatInv, HistoryIsCurrent, OnOffer
  <2> QED
    BY <1>1, <1>2, <2>1, <2>2, <2>3
<1>5. CASE \E p \in CatalogPool, ts \in SUBSET CatalogTool : ChangeOffer(p, ts)
  BY <1>2, <1>5, ChangeAges
<1>6. CASE CatalogTick
  <2>1. /\ UNCHANGED offers
        /\ on' = [e \in Entry |-> IF e \in OnOffer THEN 0 ELSE AtMostHorizon(on[e])]
        /\ off' = [e \in Entry |-> IF e \in OnOffer THEN AtMostHorizon(off[e]) ELSE 0]
    BY <1>6 DEF CatalogTick
  <2>2. \A n \in 0 .. Horizon : AtMostHorizon(n) \in 0 .. Horizon /\ AtMostHorizon(n) <= n + 1
    BY <1>1 DEF AtMostHorizon
  <2>3. Aged(1)
    BY <1>1, <2>1, <2>2 DEF Aged
  <2>4. HistoryIsCurrent'
    BY <2>1 DEF HistoryIsCurrent, OnOffer
  <2> QED
    BY <1>1, <1>6, <2>1, <2>3, <2>4
<1> QED
  BY <1>3, <1>4, <1>5, <1>6 DEF CatNext, ListTools, CallTool, Hit, ServeInFlight, StartRefresh,
     Ask, AllAsked, CollectThrows, Publish, WorkerChange, AdminChange, InvalidateToolCatalog, catVars

\* What a thread collected stays as true as it was while no time passes.
LEMMA CollectedKept ==
    ASSUME CatInv, Aged(0), NEW c \in Client, Refreshing(c),
           client'[c].todo = client[c].todo, client'[c].got = client[c].got,
           client'[c].waited = client[c].waited, client'[c].pc = "publish" => client[c].todo = {}
    PROVE  CollectedIsTrue(c)'
<1>1. CollectedIsTrue(c) /\ client[c] \in ClientRecord
  BY DEF CatInv, CatTypeOK
<1>2. Taken(c) \in Nat
  BY <1>1, CollectTimes DEF ClientRecord
<1>3. Taken(c)' = Taken(c)
  BY DEF Taken
<1>4. \A e \in Entry : on[e] \in Nat /\ off[e] \in Nat /\ on'[e] \in Nat /\ off'[e] \in Nat
  BY CatalogAssumption DEF CatInv, CatTypeOK, Aged
<1>5. ASSUME NEW e \in Entry, e[1] \notin client[c].todo
      PROVE  IF e \in client[c].got THEN on'[e] <= Taken(c) ELSE off'[e] <= Taken(c)
  BY <1>1, <1>2, <1>4, <1>5 DEF CollectedIsTrue, Aged
<1> QED
  BY <1>1, <1>3, <1>5 DEF CollectedIsTrue

LEMMA CacheKept ==
    ASSUME CatInv, Aged(0), UNCHANGED cache, validFor' \in {0, validFor}
    PROVE  CacheIsTrue'
<1>1. \A e \in Entry : on[e] \in Nat /\ off[e] \in Nat /\ on'[e] \in Nat /\ off'[e] \in Nat
  BY CatalogAssumption DEF CatInv, CatTypeOK, Aged
<1>2. validFor \in 0 .. Ttl /\ Ttl \in Nat /\ CollectTime \in Nat
  BY CatalogAssumption, CollectTimes DEF CatInv, CatTypeOK
<1>3. CASE validFor' > 0
  <2>1. validFor' = validFor /\ validFor > 0
    BY <1>3
  <2>2. TrueWithin(cache, (Ttl - validFor) + CollectTime)
    BY <2>1 DEF CatInv, CacheIsTrue
  <2>3. ASSUME NEW e \in Entry
        PROVE  IF e \in cache THEN on'[e] <= (Ttl - validFor) + CollectTime
               ELSE off'[e] <= (Ttl - validFor) + CollectTime
    BY <1>1, <1>2, <2>2 DEF TrueWithin, Aged
  <2> QED
    BY <2>1, <2>3 DEF CacheIsTrue, TrueWithin, CollectTime
<1> QED
  BY <1>3 DEF CacheIsTrue

\* The flag, after a step of thread c.
LEMMA FlagKept ==
    ASSUME CatInv, NEW c \in Client, OnlyClient(c),
           \/ Refreshing(c)' /\ (Refreshing(c) \/ ~inFlight) /\ inFlight'
           \/ ~Refreshing(c)' /\ ~Refreshing(c) /\ UNCHANGED inFlight
           \/ ~Refreshing(c)' /\ Refreshing(c) /\ ~inFlight',
           inFlight' \in BOOLEAN
    PROVE  /\ inFlight' = \E d \in Client : Refreshing(d)'
           /\ \A d, e \in Client : Refreshing(d)' /\ Refreshing(e)' => d = e
<1>1. \A d \in Client : d # c => (Refreshing(d)' <=> Refreshing(d))
  BY DEF OnlyClient, Refreshing
<1>2. /\ inFlight = \E d \in Client : Refreshing(d)
      /\ \A d, e \in Client : Refreshing(d) /\ Refreshing(e) => d = e
  BY DEF CatInv, CatTypeOK
<1>3. inFlight' <=> \E d \in Client : Refreshing(d)'
  BY <1>1, <1>2
<1>4. (\E d \in Client : Refreshing(d)') \in BOOLEAN
  OBVIOUS
<1>5. inFlight' = \E d \in Client : Refreshing(d)'
  BY <1>3, <1>4
<1> QED
  BY <1>1, <1>2, <1>5

\* A step of thread c that leaves the pools and the cache alone keeps the invariant, if what c
\* has afterwards is right.
LEMMA ClientStep ==
    ASSUME CatInv, [CatNext]_catVars, ~CatalogTick, NEW c \in Client, OnlyClient(c),
           UNCHANGED << admin, cache, validFor >>,
           inFlight' \in BOOLEAN,
           \/ Refreshing(c)' /\ (Refreshing(c) \/ ~inFlight) /\ inFlight'
           \/ ~Refreshing(c)' /\ ~Refreshing(c) /\ UNCHANGED inFlight
           \/ ~Refreshing(c)' /\ Refreshing(c) /\ ~inFlight',
           client'[c].pc = "refresh" => client'[c].got = {} /\ client'[c].waited = 0,
           Refreshing(c)' => CollectedIsTrue(c)'
    PROVE  CatInv'
<1>1. /\ offers' \in [CatalogPool -> SUBSET CatalogTool] /\ HistoryIsCurrent'
      /\ Aged(0)
  BY HistoryKept
<1>2. CacheIsTrue'
  BY <1>1, CacheKept
<1>3. /\ inFlight' = \E d \in Client : Refreshing(d)'
      /\ \A d, e \in Client : Refreshing(d)' /\ Refreshing(e)' => d = e
  BY FlagKept
<1>4. CatTypeOK'
  BY <1>1, <1>3 DEF CatTypeOK, CatInv, OnlyClient, Aged
<1>5. ASSUME NEW d \in Client
      PROVE  /\ client'[d].pc = "refresh" => client'[d].got = {} /\ client'[d].waited = 0
             /\ Refreshing(d)' => CollectedIsTrue(d)'
  <2>1. CASE d = c
    BY <2>1
  <2>2. CASE d # c
    <3>1. client'[d] = client[d]
      BY <2>2 DEF OnlyClient
    <3>2. ASSUME Refreshing(d)' PROVE CollectedIsTrue(d)'
      <4>1. Refreshing(d) /\ CollectedIsTrue(d)
        BY <3>1, <3>2 DEF Refreshing, CatInv
      <4> QED
        BY <1>1, <3>1, <4>1, CollectedKept DEF CollectedIsTrue
    <3> QED
      BY <3>1, <3>2 DEF CatInv
  <2> QED
    BY <2>1, <2>2
<1> QED
  BY <1>1, <1>2, <1>4, <1>5 DEF CatInv

\* The steps of a thread other than the publication.
LEMMA ThreadSteps ==
    ASSUME CatInv, [CatNext]_catVars, ~CatalogTick, NEW c \in Client,
           \/ ListTools(c) \/ \E n \in Name : CallTool(c, n)
           \/ Hit(c) \/ ServeInFlight(c) \/ StartRefresh(c)
           \/ \E p \in CatalogPool : Ask(c, p) \/ AskFails(c, p)
           \/ AllAsked(c) \/ CollectThrows(c)
    PROVE  CatInv'
<1>1. /\ client \in [Client -> ClientRecord] /\ cache \in SUBSET Entry /\ inFlight \in BOOLEAN
      /\ offers \in [CatalogPool -> SUBSET CatalogTool]
      /\ inFlight = \E d \in Client : Refreshing(d)
      /\ client[c] \in ClientRecord /\ 0 \in 0 .. RpcTime
  BY CatalogAssumption DEF CatInv, CatTypeOK
<1>2. IdleClient \in ClientRecord /\ IdleClient.pc = "idle"
  BY CatalogAssumption DEF IdleClient, ClientRecord
<1>3. Refreshing(c) => inFlight
  BY <1>1
<1>4. CASE ListTools(c)
  <2>1. client' = [client EXCEPT ![c] = [IdleClient EXCEPT !.pc = "refresh"]]
    BY <1>4 DEF ListTools
  <2>2. [IdleClient EXCEPT !.pc = "refresh"] \in ClientRecord
    BY <1>2 DEF ClientRecord
  <2>3. OnlyClient(c)
    BY <1>1, <2>1, <2>2 DEF OnlyClient
  <2>4. client'[c].pc = "refresh" /\ client'[c].got = {} /\ client'[c].waited = 0
    BY <1>1, <2>1 DEF IdleClient
  <2>5. ~Refreshing(c)' /\ ~Refreshing(c)
    BY <1>4, <2>4 DEF Refreshing, ListTools
  <2> QED
    BY <1>1, <1>4, <2>3, <2>4, <2>5, ClientStep DEF ListTools
<1>5. CASE \E n \in Name : CallTool(c, n)
  <2>1. PICK n \in Name :
            /\ client[c].pc \in {"idle", "done"}
            /\ client' = [client EXCEPT ![c] =
                   IF Candidates(cache, n) = {}
                   THEN [IdleClient EXCEPT !.pc = "refresh", !.want = n]
                   ELSE [IdleClient EXCEPT !.pc = "done", !.want = n, !.from = "call", !.got = cache]]
            /\ UNCHANGED << offers, admin, cache, validFor, inFlight, on, off >>
    BY <1>5 DEF CallTool
  <2>2. /\ [IdleClient EXCEPT !.pc = "refresh", !.want = n] \in ClientRecord
        /\ [IdleClient EXCEPT !.pc = "done", !.want = n, !.from = "call", !.got = cache] \in ClientRecord
    BY <1>1, <1>2 DEF ClientRecord
  <2>3. OnlyClient(c)
    BY <1>1, <2>1, <2>2 DEF OnlyClient
  <2>4. client'[c].pc \in {"refresh", "done"}
    BY <1>1, <2>1 DEF IdleClient
  <2>5. client'[c].pc = "refresh" => client'[c].got = {} /\ client'[c].waited = 0
    BY <1>1, <2>1 DEF IdleClient
  <2>6. ~Refreshing(c)' /\ ~Refreshing(c)
    BY <2>1, <2>4 DEF Refreshing
  <2> QED
    BY <1>1, <2>1, <2>3, <2>5, <2>6, ClientStep
<1>6. CASE Hit(c) \/ ServeInFlight(c)
  <2>1. PICK from \in {"hit", "inFlight"} :
            /\ client[c].pc = "refresh"
            /\ CatalogAnswer(c, from, cache)
            /\ UNCHANGED << offers, admin, cache, validFor, inFlight, on, off >>
    BY <1>6 DEF Hit, ServeInFlight
  <2>2. client' = [client EXCEPT ![c] = [client[c] EXCEPT !.pc = "done", !.from = from,
                        !.got = cache, !.todo = {}, !.waited = 0]]
    BY <1>1, <2>1 DEF CatalogAnswer
  <2>3. [client[c] EXCEPT !.pc = "done", !.from = from, !.got = cache, !.todo = {}, !.waited = 0]
            \in ClientRecord
    BY <1>1 DEF ClientRecord
  <2>4. OnlyClient(c)
    BY <1>1, <2>2, <2>3 DEF OnlyClient
  <2>5. client'[c].pc = "done"
    BY <1>1, <2>2 DEF ClientRecord
  <2>6. ~Refreshing(c)' /\ ~Refreshing(c)
    BY <2>1, <2>5 DEF Refreshing
  <2> QED
    BY <1>1, <2>1, <2>4, <2>5, <2>6, ClientStep
<1>7. CASE StartRefresh(c)
  <2> DEFINE asked == {p \in CatalogPool : offers[p] # {}}
  <2>1. client' = [client EXCEPT ![c] = [client[c] EXCEPT !.pc = "collect", !.todo = asked]]
    BY <1>1, <1>7 DEF StartRefresh
  <2>2. [client[c] EXCEPT !.pc = "collect", !.todo = asked] \in ClientRecord
    BY <1>1 DEF ClientRecord
  <2>3. OnlyClient(c)
    BY <1>1, <2>1, <2>2 DEF OnlyClient
  <2>4. /\ client'[c].pc = "collect" /\ client'[c].todo = asked
        /\ client'[c].got = {} /\ client'[c].waited = 0
    <3>1. client[c].got = {} /\ client[c].waited = 0
      BY <1>7 DEF StartRefresh, CatInv
    <3> QED
      BY <1>1, <2>1, <3>1 DEF ClientRecord
  <2>5. CollectedIsTrue(c)'
    <3>1. /\ HistoryIsCurrent /\ UNCHANGED << offers, on, off >>
      BY <1>7 DEF StartRefresh, CatInv
    <3>2. Taken(c)' \in Nat
      <4>1. client'[c].todo \subseteq CatalogPool
        BY <2>4
      <4>2. (Cardinality(CatalogPool) - Cardinality(client'[c].todo)) \in Nat
        BY <4>1, CatalogAssumption, FS_Subset, FS_CardinalityType
      <4>3. RpcTime * (Cardinality(CatalogPool) - Cardinality(client'[c].todo)) \in Nat
        BY <4>2, CatalogAssumption
      <4> QED
        BY <2>4, <4>3 DEF Taken
    <3>3. ASSUME NEW e \in Entry, e[1] \notin asked PROVE off[e] = 0
      <4>1. e \notin OnOffer
        BY <3>3 DEF OnOffer, Entry
      <4> QED
        BY <3>1, <4>1 DEF HistoryIsCurrent
    <3> HIDE DEF asked
    <3> QED
      BY <2>4, <3>1, <3>2, <3>3 DEF CollectedIsTrue
  <2>6. Refreshing(c)'
    BY <2>4 DEF Refreshing
  <2>7. ~inFlight /\ inFlight' /\ UNCHANGED << admin, cache, validFor >>
    BY <1>7 DEF StartRefresh
  <2> QED
    BY <1>1, <2>3, <2>4, <2>5, <2>6, <2>7, ClientStep
<1>8. CASE \E p \in CatalogPool : Ask(c, p) \/ AskFails(c, p)
  <2>1. PICK p \in CatalogPool, es \in SUBSET Entry :
            /\ client[c].pc = "collect" /\ p \in client[c].todo
            /\ Collected(c, p, es)
            /\ UNCHANGED << offers, admin, cache, validFor, inFlight >>
            /\ \A e \in es : e[1] = p
            /\ \A e \in Entry : e[1] = p => IF e \in es THEN on'[e] = 0 ELSE off'[e] = 0
    <3>1. PICK p \in CatalogPool : Ask(c, p) \/ AskFails(c, p)
      BY <1>8
    <3>2. CASE Ask(c, p)
      <4>1. ASSUME NEW e \in Entry, e[1] = p
            PROVE  IF e \in {p} \X offers[p] THEN on'[e] = 0 ELSE off'[e] = 0
        <5>1. e \in {p} \X offers[p] <=> e \in OnOffer
          BY <4>1 DEF OnOffer, Entry
        <5>2. UNCHANGED << on, off >>
          BY <3>2 DEF Ask
        <5> QED
          BY <4>1, <5>1, <5>2 DEF CatInv, HistoryIsCurrent
      <4>2. {p} \X offers[p] \in SUBSET Entry
        BY <1>1, <3>1 DEF Entry
      <4>3. \A e \in {p} \X offers[p] : e[1] = p
        OBVIOUS
      <4> QED
        BY <3>1, <3>2, <4>1, <4>2, <4>3 DEF Ask
    <3>3. CASE AskFails(c, p)
      <4>1. \A e \in Entry : e[1] = p => off'[e] = 0
        BY <3>3 DEF AskFails
      <4> QED
        BY <3>1, <3>3, <4>1 DEF AskFails
    <3> QED
      BY <3>1, <3>2, <3>3
  <2>2. client' = [client EXCEPT ![c] = [client[c] EXCEPT !.todo = client[c].todo \ {p},
                        !.got = client[c].got \cup es, !.waited = 0]]
    BY <1>1, <2>1 DEF Collected
  <2>3. [client[c] EXCEPT !.todo = client[c].todo \ {p}, !.got = client[c].got \cup es, !.waited = 0]
            \in ClientRecord
    BY <1>1 DEF ClientRecord
  <2>4. OnlyClient(c)
    BY <1>1, <2>2, <2>3 DEF OnlyClient
  <2>5. /\ client'[c].pc = "collect" /\ client'[c].todo = client[c].todo \ {p}
        /\ client'[c].got = client[c].got \cup es /\ client'[c].waited = 0
    BY <1>1, <2>1, <2>2 DEF ClientRecord
  <2>6. Refreshing(c) /\ Refreshing(c)'
    BY <2>1, <2>5 DEF Refreshing
  <2>7. CollectedIsTrue(c) /\ Aged(0)
    BY <2>6, HistoryKept DEF CatInv
  <2>8. Taken(c) \in Nat /\ Taken(c)' \in Nat /\ Taken(c) <= Taken(c)'
    <3> DEFINE n == Cardinality(CatalogPool)
               k == Cardinality(client[c].todo)
    <3>1. IsFiniteSet(client[c].todo) /\ k \in Nat /\ k <= n /\ n \in Nat /\ k # 0
      <4>1. IsFiniteSet(client[c].todo) /\ k \in Nat /\ k <= n /\ n \in Nat
        BY <1>1, CatalogAssumption, FS_Subset, FS_CardinalityType DEF ClientRecord
      <4> QED
        BY <2>1, <4>1, FS_EmptySet
    <3>2. Cardinality(client[c].todo \ {p}) = k - 1
      <4>1. p \in client[c].todo
        BY <2>1
      <4> QED
        BY <3>1, <4>1, FS_RemoveElement
    <3>3. Taken(c)' = RpcTime * (n - (k - 1))
      BY <2>5, <3>1, <3>2, CatalogAssumption DEF Taken
    <3>4. client[c].waited \in Nat /\ client[c].waited <= RpcTime /\ RpcTime \in Nat
      BY <1>1, CatalogAssumption DEF ClientRecord
    <3>5. Taken(c) = RpcTime * (n - k) + client[c].waited
      BY DEF Taken
    <3> HIDE DEF n, k
    <3>6. RpcTime * (n - (k - 1)) = RpcTime * (n - k) + RpcTime
      BY <3>1, <3>4
    <3>7. RpcTime * (n - k) \in Nat
      BY <3>1, <3>4
    <3> QED
      BY <3>3, <3>4, <3>5, <3>6, <3>7
  <2>9. CollectedIsTrue(c)'
    <3>1. \A e \in Entry : on[e] \in Nat /\ off[e] \in Nat /\ on'[e] \in Nat /\ off'[e] \in Nat
      BY <2>7, CatalogAssumption DEF CatInv, CatTypeOK, Aged
    <3>2. ASSUME NEW e \in Entry, e[1] \notin client'[c].todo
          PROVE  IF e \in client'[c].got THEN on'[e] <= Taken(c)' ELSE off'[e] <= Taken(c)'
      <4>1. CASE e[1] = p
        <5>1. e \notin client[c].got
          BY <2>1, <2>7, <4>1 DEF CollectedIsTrue
        <5> QED
          BY <2>1, <2>5, <2>8, <4>1, <5>1
      <4>2. CASE e[1] # p
        <5>1. e \notin es /\ e[1] \notin client[c].todo
          BY <2>1, <2>5, <3>2, <4>2
        <5> QED
          BY <2>5, <2>7, <2>8, <3>1, <5>1 DEF CollectedIsTrue, Aged
      <4> QED
        BY <4>1, <4>2
    <3>3. \A e \in client'[c].got : e[1] \notin client'[c].todo
      BY <2>1, <2>5, <2>7 DEF CollectedIsTrue
    <3> QED
      BY <2>5, <3>2, <3>3 DEF CollectedIsTrue
  <2> QED
    BY <1>1, <1>3, <2>1, <2>4, <2>5, <2>6, <2>9, ClientStep
<1>9. CASE AllAsked(c)
  <2>1. client' = [client EXCEPT ![c] = [client[c] EXCEPT !.pc = "publish"]]
    BY <1>1, <1>9 DEF AllAsked
  <2>2. [client[c] EXCEPT !.pc = "publish"] \in ClientRecord
    BY <1>1 DEF ClientRecord
  <2>3. OnlyClient(c)
    BY <1>1, <2>1, <2>2 DEF OnlyClient
  <2>4. /\ client'[c].pc = "publish" /\ client'[c].todo = client[c].todo /\ client[c].todo = {}
        /\ client'[c].got = client[c].got /\ client'[c].waited = client[c].waited
    BY <1>1, <1>9, <2>1 DEF ClientRecord, AllAsked
  <2>5. Refreshing(c) /\ Refreshing(c)'
    BY <1>9, <2>4 DEF Refreshing, AllAsked
  <2>6. Aged(0)
    BY HistoryKept
  <2>7. CollectedIsTrue(c)'
    BY <2>4, <2>5, <2>6, CollectedKept
  <2>8. UNCHANGED << admin, cache, validFor, inFlight >>
    BY <1>9 DEF AllAsked
  <2> QED
    BY <1>1, <1>3, <2>3, <2>4, <2>5, <2>7, <2>8, ClientStep
<1>10. CASE CollectThrows(c)
  <2>1. client' = [client EXCEPT ![c] = IdleClient] /\ ~inFlight'
        /\ UNCHANGED << admin, cache, validFor >> /\ client[c].pc = "collect"
    BY <1>10 DEF CollectThrows
  <2>2. OnlyClient(c)
    BY <1>1, <1>2, <2>1 DEF OnlyClient
  <2>3. client'[c].pc = "idle"
    BY <1>1, <1>2, <2>1
  <2>4. Refreshing(c) /\ ~Refreshing(c)'
    BY <2>1, <2>3 DEF Refreshing
  <2>5. inFlight' \in BOOLEAN
    BY <1>10 DEF CollectThrows
  <2> QED
    BY <2>1, <2>2, <2>3, <2>4, <2>5, ClientStep
<1> QED
  BY <1>4, <1>5, <1>6, <1>7, <1>8, <1>9, <1>10

\* What a thread publishes was true within one collection.
LEMMA PublishedIsTrue ==
    ASSUME CatInv, NEW c \in Client, client[c].pc = "publish"
    PROVE  TrueWithin(client[c].got, CollectTime)
<1>1. CollectedIsTrue(c) /\ client[c] \in ClientRecord
  BY DEF CatInv, CatTypeOK, Refreshing
<1>2. Taken(c) = CollectTime /\ client[c].todo = {}
  BY <1>1, CollectTimes DEF CollectedIsTrue, ClientRecord
<1> QED
  BY <1>1, <1>2 DEF CollectedIsTrue, TrueWithin

LEMMA PublishKeeps ==
    ASSUME CatInv, [CatNext]_catVars, ~CatalogTick, NEW c \in Client, Publish(c)
    PROVE  CatInv'
<1>1. /\ client \in [Client -> ClientRecord] /\ client[c] \in ClientRecord
      /\ 0 \in 0 .. RpcTime /\ Ttl \in 0 .. Ttl /\ Ttl \in Nat /\ CollectTime \in Nat
  BY CatalogAssumption, CollectTimes DEF CatInv, CatTypeOK
<1>2. /\ client[c].pc = "publish" /\ ~inFlight' /\ inFlight' \in BOOLEAN /\ cache' = client[c].got
      /\ validFor' = Ttl /\ UNCHANGED << offers, admin, on, off >>
  BY DEF Publish, Stamp
<1>3. client' = [client EXCEPT ![c] = [client[c] EXCEPT !.pc = "done", !.from = "own",
                      !.got = client[c].got, !.todo = {}, !.waited = 0]]
  BY <1>1 DEF Publish, CatalogAnswer
<1>4. [client[c] EXCEPT !.pc = "done", !.from = "own", !.got = client[c].got, !.todo = {}, !.waited = 0]
            \in ClientRecord
  BY <1>1 DEF ClientRecord
<1>5. OnlyClient(c) /\ client'[c].pc = "done"
  BY <1>1, <1>3, <1>4 DEF OnlyClient, ClientRecord
<1>6. Refreshing(c) /\ ~Refreshing(c)'
  BY <1>2, <1>5 DEF Refreshing
<1>7. /\ offers' \in [CatalogPool -> SUBSET CatalogTool] /\ HistoryIsCurrent' /\ Aged(0)
  BY HistoryKept
<1>8. /\ inFlight' = \E d \in Client : Refreshing(d)'
      /\ \A d, e \in Client : Refreshing(d)' /\ Refreshing(e)' => d = e
  BY <1>2, <1>5, <1>6, FlagKept
<1>9. CatTypeOK'
  <2>1. cache' \in SUBSET Entry /\ validFor' \in 0 .. Ttl /\ admin' \in BOOLEAN
    BY <1>1, <1>2 DEF ClientRecord, CatInv, CatTypeOK
  <2> QED
    BY <1>5, <1>7, <1>8, <2>1 DEF CatTypeOK, OnlyClient, Aged
<1>10. CacheIsTrue'
  <2>1. TrueWithin(client[c].got, CollectTime)
    BY <1>2, PublishedIsTrue
  <2>2. (Ttl - validFor') + CollectTime = CollectTime
    BY <1>1, <1>2
  <2> QED
    BY <1>2, <2>1, <2>2 DEF CacheIsTrue, TrueWithin, CollectTime
<1>11. ASSUME NEW d \in Client, d # c
       PROVE  /\ client'[d].pc = "refresh" => client'[d].got = {} /\ client'[d].waited = 0
              /\ ~Refreshing(d)'
  <2>1. client'[d] = client[d]
    BY <1>5, <1>11 DEF OnlyClient
  <2>2. ~Refreshing(d)
    BY <1>6, <1>11 DEF CatInv, CatTypeOK
  <2> QED
    BY <2>1, <2>2 DEF CatInv, Refreshing
<1> QED
  BY <1>5, <1>6, <1>7, <1>9, <1>10, <1>11 DEF CatInv

\* A change of a pool, an invalidation, or no change at all.
LEMMA PoolStepKeeps ==
    ASSUME CatInv, [CatNext]_catVars, ~CatalogTick, UNCHANGED << cache, inFlight, client >>,
           admin' \in BOOLEAN, validFor' \in {0, validFor}
    PROVE  CatInv'
<1>1. /\ offers' \in [CatalogPool -> SUBSET CatalogTool] /\ HistoryIsCurrent' /\ Aged(0)
  BY HistoryKept
<1>2. CacheIsTrue'
  BY <1>1, CacheKept
<1>3. CatTypeOK'
  <2>1. validFor' \in 0 .. Ttl
    BY CatalogAssumption DEF CatInv, CatTypeOK
  <2> QED
    BY <1>1, <2>1 DEF CatInv, CatTypeOK, Aged, Refreshing
<1>4. ASSUME NEW d \in Client, Refreshing(d)' PROVE CollectedIsTrue(d)'
  <2>1. Refreshing(d) /\ CollectedIsTrue(d)
    BY <1>4 DEF Refreshing, CatInv
  <2> QED
    BY <1>1, <2>1, CollectedKept DEF CollectedIsTrue
<1> QED
  BY <1>1, <1>2, <1>3, <1>4 DEF CatInv

LEMMA TickKeeps ==
    ASSUME CatInv, [CatNext]_catVars, CatalogTick
    PROVE  CatInv'
<1>1. /\ client \in [Client -> ClientRecord] /\ validFor \in 0 .. Ttl /\ Ttl \in Nat
      /\ RpcTime \in Nat /\ CollectTime \in Nat
  BY CatalogAssumption, CollectTimes DEF CatInv, CatTypeOK
<1>2. /\ offers' \in [CatalogPool -> SUBSET CatalogTool] /\ HistoryIsCurrent' /\ Aged(1)
  BY HistoryKept
<1>3. /\ \A c \in Client :
            \/ client[c].pc \in {"idle", "done"}
            \/ client[c].pc = "collect" /\ client[c].todo # {} /\ client[c].waited < RpcTime
      /\ validFor' = IF validFor = 0 THEN 0 ELSE validFor - 1
      /\ client' = [c \in Client |->
             IF client[c].pc = "collect" THEN [client[c] EXCEPT !.waited = @ + 1] ELSE client[c]]
      /\ UNCHANGED << admin, cache, inFlight >>
  BY DEF CatalogTick
<1>4. \A e \in Entry : on[e] \in Nat /\ off[e] \in Nat /\ on'[e] \in Nat /\ off'[e] \in Nat
  BY <1>2, CatalogAssumption DEF CatInv, CatTypeOK, Aged
<1>5. ASSUME NEW c \in Client
      PROVE  /\ client'[c] \in ClientRecord /\ client'[c].pc = client[c].pc
             /\ client[c].pc # "collect" => client'[c] = client[c]
             /\ client[c].pc = "collect" =>
                  /\ client'[c].todo = client[c].todo /\ client'[c].got = client[c].got
                  /\ client'[c].waited = client[c].waited + 1
  <2>1. client[c] \in ClientRecord /\ client[c].waited \in Nat
    BY <1>1 DEF ClientRecord
  <2>2. CASE client[c].pc = "collect"
    <3>1. client'[c] = [client[c] EXCEPT !.waited = client[c].waited + 1]
      BY <1>3, <2>2
    <3>2. client[c].waited + 1 \in 0 .. RpcTime
      BY <1>1, <1>3, <2>1, <2>2
    <3> QED
      BY <2>1, <2>2, <3>1, <3>2 DEF ClientRecord
  <2>3. CASE client[c].pc # "collect"
    BY <1>3, <2>1, <2>3
  <2> QED
    BY <2>2, <2>3
<1>6. client' \in [Client -> ClientRecord]
  BY <1>3, <1>5
<1>7. CatTypeOK'
  <2>1. \A c \in Client : Refreshing(c)' <=> Refreshing(c)
    BY <1>5 DEF Refreshing
  <2>2. inFlight' = \E c \in Client : Refreshing(c)'
    <3>1. (\E c \in Client : Refreshing(c)') <=> (\E c \in Client : Refreshing(c))
      BY <2>1
    <3>2. (\E c \in Client : Refreshing(c)') = (\E c \in Client : Refreshing(c))
      BY <3>1
    <3> QED
      BY <1>3, <3>2 DEF CatInv, CatTypeOK
  <2>3. validFor' \in 0 .. Ttl
    BY <1>1, <1>3
  <2> QED
    BY <1>2, <1>3, <1>6, <2>1, <2>2, <2>3 DEF CatInv, CatTypeOK, Aged
<1>8. CacheIsTrue'
  <2>1. CASE validFor' > 0
    <3>1. validFor > 0 /\ validFor' = validFor - 1
      BY <1>1, <1>3, <2>1
    <3>2. TrueWithin(cache, (Ttl - validFor) + CollectTime)
      BY <3>1 DEF CatInv, CacheIsTrue
    <3>3. (Ttl - validFor') + CollectTime = (Ttl - validFor) + CollectTime + 1
      BY <1>1, <3>1
    <3>4. ASSUME NEW e \in Entry
          PROVE  IF e \in cache THEN on'[e] <= (Ttl - validFor) + CollectTime + 1
                 ELSE off'[e] <= (Ttl - validFor) + CollectTime + 1
      BY <1>1, <1>2, <1>4, <3>2 DEF TrueWithin, Aged
    <3> QED
      BY <1>3, <3>3, <3>4 DEF CacheIsTrue, TrueWithin, CollectTime
  <2> QED
    BY <2>1 DEF CacheIsTrue
<1>9. ASSUME NEW c \in Client, Refreshing(c)' PROVE CollectedIsTrue(c)'
  <2>1. client[c].pc = "collect" /\ client[c].todo # {} /\ CollectedIsTrue(c)
    BY <1>3, <1>5, <1>9 DEF Refreshing, CatInv
  <2>2. client[c] \in ClientRecord
    BY <1>1
  <2>3. Taken(c) \in Nat
    BY <2>2, CollectTimes DEF ClientRecord
  <2>4. Taken(c)' = Taken(c) + 1
    <3>1. RpcTime * (Cardinality(CatalogPool) - Cardinality(client[c].todo)) \in Int
          /\ client[c].waited \in Nat
      <4>1. Cardinality(CatalogPool) \in Nat /\ Cardinality(client[c].todo) \in Nat
        BY <2>2, CollectTimes DEF ClientRecord
      <4> QED
        BY <1>1, <2>2, <4>1 DEF ClientRecord
    <3> QED
      BY <1>5, <2>1, <3>1 DEF Taken
  <2>5. ASSUME NEW e \in Entry, e[1] \notin client[c].todo
        PROVE  IF e \in client[c].got THEN on'[e] <= Taken(c) + 1 ELSE off'[e] <= Taken(c) + 1
    BY <1>2, <1>4, <2>1, <2>3, <2>5 DEF CollectedIsTrue, Aged
  <2> QED
    BY <1>5, <2>1, <2>4, <2>5 DEF CollectedIsTrue
<1>10. \A c \in Client : client'[c].pc = "refresh" => client'[c].got = {} /\ client'[c].waited = 0
  BY <1>5 DEF CatInv
<1> QED
  BY <1>2, <1>7, <1>8, <1>9, <1>10 DEF CatInv

LEMMA CatInvKept == CatInv /\ [CatNext]_catVars => CatInv'
<1> SUFFICES ASSUME CatInv, [CatNext]_catVars PROVE CatInv'
  OBVIOUS
<1>1. CASE CatalogTick
  BY <1>1, TickKeeps
<1>2. CASE ~CatalogTick
  <2>1. CASE UNCHANGED catVars
    BY <1>2, <2>1, PoolStepKeeps DEF catVars, CatInv, CatTypeOK
  <2>2. CASE \E c \in Client :
                \/ ListTools(c) \/ \E n \in Name : CallTool(c, n)
                \/ Hit(c) \/ ServeInFlight(c) \/ StartRefresh(c)
                \/ \E p \in CatalogPool : Ask(c, p) \/ AskFails(c, p)
                \/ AllAsked(c) \/ CollectThrows(c)
    BY <1>2, <2>2, ThreadSteps
  <2>3. CASE \E c \in Client : Publish(c)
    BY <1>2, <2>3, PublishKeeps
  <2>4. CASE \E p \in CatalogPool, ts \in SUBSET CatalogTool : WorkerChange(p, ts) \/ AdminChange(p, ts)
    BY <1>2, <2>4, PoolStepKeeps DEF WorkerChange, AdminChange, CatInv, CatTypeOK
  <2>5. CASE InvalidateToolCatalog
    BY <1>2, <2>5, PoolStepKeeps DEF InvalidateToolCatalog
  <2> QED
    BY <1>2, <2>1, <2>2, <2>3, <2>4, <2>5 DEF CatNext
<1> QED
  BY <1>1, <1>2

\* A step that serves a thread from the cache or from its own refresh serves what the cache, or
\* the refresh, found.
LEMMA ServedSteps ==
    ASSUME CatInv, [CatNext]_catVars, NEW c \in Client, ServedFrom(c, {"hit", "own"})
    PROVE  TrueWithin(client'[c].got, Ttl + CollectTime)
<1>1. /\ client \in [Client -> ClientRecord] /\ client[c] \in ClientRecord
      /\ validFor \in 0 .. Ttl /\ Ttl \in Nat /\ CollectTime \in Nat
  BY CatalogAssumption, CollectTimes DEF CatInv, CatTypeOK
<1>2. \A e \in Entry : on[e] \in Nat /\ off[e] \in Nat
  BY CatalogAssumption DEF CatInv, CatTypeOK
<1>3. /\ client[c].pc \in {"refresh", "publish"} /\ client'[c].pc = "done"
      /\ client'[c].from \in {"hit", "own"}
  BY DEF ServedFrom
<1>4. CASE Hit(c)
  <2>1. validFor > 0 /\ client'[c].got = cache
    BY <1>1, <1>4 DEF Hit, CatalogAnswer
  <2>2. TrueWithin(cache, (Ttl - validFor) + CollectTime)
    BY <2>1 DEF CatInv, CacheIsTrue
  <2> QED
    BY <1>1, <1>2, <2>1, <2>2 DEF TrueWithin
<1>5. CASE Publish(c)
  <2>1. client'[c].got = client[c].got /\ client[c].pc = "publish"
    BY <1>1, <1>5 DEF Publish, CatalogAnswer
  <2>2. TrueWithin(client[c].got, CollectTime)
    BY <2>1, PublishedIsTrue
  <2> QED
    BY <1>1, <1>2, <2>1, <2>2 DEF TrueWithin
<1>6. ~ ServeInFlight(c)
  <2>1. ServeInFlight(c) => client'[c].from = "inFlight"
    BY <1>1 DEF ServeInFlight, CatalogAnswer, ClientRecord
  <2> QED
    BY <1>3, <2>1
<1>7. client'[c] # client[c]
  BY <1>3
<1>8. ~ \E d \in Client :
            \/ d # c /\ (Hit(d) \/ ServeInFlight(d) \/ Publish(d))
            \/ ListTools(d) \/ \E n \in Name : CallTool(d, n)
            \/ StartRefresh(d)
            \/ \E p \in CatalogPool : Ask(d, p) \/ AskFails(d, p)
            \/ AllAsked(d) \/ CollectThrows(d)
  <2> SUFFICES ASSUME NEW d \in Client,
                      \/ d # c /\ (Hit(d) \/ ServeInFlight(d) \/ Publish(d))
                      \/ ListTools(d) \/ \E n \in Name : CallTool(d, n)
                      \/ StartRefresh(d)
                      \/ \E p \in CatalogPool : Ask(d, p) \/ AskFails(d, p)
                      \/ AllAsked(d) \/ CollectThrows(d)
               PROVE  FALSE
    OBVIOUS
  <2>1. CASE d # c
    <3>1. client'[c] = client[c]
      BY <1>1, <2>1 DEF Hit, ServeInFlight, Publish, CatalogAnswer, ListTools, CallTool, StartRefresh,
         Ask, AskFails, Collected, AllAsked, CollectThrows
    <3> QED
      BY <1>7, <3>1
  <2>2. CASE d = c
    <3>1. ~ListTools(c)
      BY <1>1, <1>3 DEF ListTools, ClientRecord
    <3>2. \A n \in Name : ~CallTool(c, n)
      BY <1>1, <1>3 DEF CallTool, ClientRecord
    <3>3. ~StartRefresh(c)
      BY <1>1, <1>3 DEF StartRefresh, ClientRecord
    <3>4. \A p \in CatalogPool : ~Ask(c, p) /\ ~AskFails(c, p)
      BY <1>1, <1>3 DEF Ask, AskFails, Collected, ClientRecord
    <3>5. ~AllAsked(c) /\ ~CollectThrows(c)
      BY <1>1, <1>3 DEF AllAsked, CollectThrows, ClientRecord
    <3> QED BY <2>2, <3>1, <3>2, <3>3, <3>4, <3>5
  <2> QED
    BY <2>1, <2>2
<1>9. ~ CatalogTick /\ client' # client
  BY <1>3, <1>7 DEF CatalogTick
<1> QED
  BY <1>4, <1>5, <1>6, <1>8, <1>9 DEF CatNext, WorkerChange, AdminChange, InvalidateToolCatalog, catVars

-----------------------------------------------------------------------------
(* The tables of the workers' tools *)

\* What the two tables have to agree on: every tool on the list is served, with
\* no argument insisted on that its schema does not require.
RowsAgree(listed, handlers) ==
    /\ \A l \in listed : l.tool # "none" /\ \E h \in handlers : h.tool = l.tool
    /\ \A l \in listed, h \in handlers : h.tool = l.tool => h.insists \subseteq l.required
    /\ \A h \in handlers : "none" \notin h.typed

\* Every specialization's two tables agree.
LEMMA TablesAgree ==
    \A s \in Specialization : RowsAgree(Listed(s), Served(s))
<1>1. RowsAgree(baselineToolsCatalog, ServedBaseline \cup ServedBaseline)
  BY DEF RowsAgree, baselineToolsCatalog, ServedBaseline,
         Tool, Handler
<1>2. RowsAgree(terminalShellCatalog, ServedShell \cup ServedBaseline)
  BY DEF RowsAgree, terminalShellCatalog, ServedBaseline, ServedShell,
         Tool, Handler
<1>3. RowsAgree(localGitCatalog, ServedGit \cup ServedBaseline)
  BY DEF RowsAgree, localGitCatalog, ServedBaseline, ServedGit,
         Tool, Handler
<1>4. RowsAgree(fileSearchCatalog, ServedSearch \cup ServedBaseline)
  BY DEF RowsAgree, fileSearchCatalog, ServedBaseline, ServedSearch,
         Tool, Handler
<1>5. RowsAgree(clientTrackerCatalog, ServedClients \cup ServedBaseline)
  BY DEF RowsAgree, clientTrackerCatalog, ServedBaseline, ServedClients,
         Tool, Handler
<1>6. RowsAgree(metricsCatalog, ServedMetrics \cup ServedBaseline)
  BY DEF RowsAgree, metricsCatalog, ServedBaseline, ServedMetrics,
         Tool, Handler
<1>7. RowsAgree(codeExecutionReplCatalog, ServedRepl \cup ServedBaseline)
  BY DEF RowsAgree, codeExecutionReplCatalog, ServedBaseline, ServedRepl,
         Tool, Handler
<1>8. RowsAgree(localTestRunnerCatalog, ServedTest \cup ServedBaseline)
  BY DEF RowsAgree, localTestRunnerCatalog, ServedBaseline, ServedTest,
         Tool, Handler
<1>9. RowsAgree(localBuildToolCatalog, ServedBuild \cup ServedBaseline)
  BY DEF RowsAgree, localBuildToolCatalog, ServedBaseline, ServedBuild,
         Tool, Handler
<1>10. RowsAgree(localLinterCatalog, ServedLint \cup ServedBaseline)
  BY DEF RowsAgree, localLinterCatalog, ServedBaseline, ServedLint,
         Tool, Handler
<1>11. RowsAgree(localIndexerCatalog, ServedIndex \cup ServedBaseline)
  BY DEF RowsAgree, localIndexerCatalog, ServedBaseline, ServedIndex,
         Tool, Handler
<1>12. RowsAgree(persistentContextCatalog, ServedContext \cup ServedBaseline)
  BY DEF RowsAgree, persistentContextCatalog, ServedBaseline, ServedContext,
         Tool, Handler
<1>13. RowsAgree(knowledgeGraphCatalog, ServedGraph \cup ServedBaseline)
  BY DEF RowsAgree, knowledgeGraphCatalog, ServedBaseline, ServedGraph,
         Tool, Handler
<1>14. RowsAgree(fileWatcherCatalog, ServedWatch \cup ServedBaseline)
  BY DEF RowsAgree, fileWatcherCatalog, ServedBaseline, ServedWatch,
         Tool, Handler
<1>15. RowsAgree(keyboardMouseControlCatalog, ServedInput \cup ServedBaseline)
  BY DEF RowsAgree, keyboardMouseControlCatalog, ServedBaseline, ServedInput,
         Tool, Handler, Click, Typing, Move
<1>16. RowsAgree(screenCaptureVisionCatalog, ServedScreen \cup ServedBaseline)
  BY DEF RowsAgree, screenCaptureVisionCatalog, ServedBaseline, ServedScreen,
         Tool, Handler, CaptureSpec
<1>17. RowsAgree(desktopControlCatalog, ServedDesktop \cup ServedBaseline)
  BY DEF RowsAgree, desktopControlCatalog, ServedBaseline, ServedDesktop,
         Tool, Handler, Windows
<1>18. RowsAgree(computerUseCatalog, ServedComputer \cup ServedBaseline)
  BY DEF RowsAgree, computerUseCatalog, ServedBaseline, ServedComputer,
         Tool, Handler, ServedInput, ServedScreen, ServedDesktop,
         Click, Typing, Move, CaptureSpec, Windows
<1>19. RowsAgree(sentinelCatalog, ServedSentinel \cup ServedBaseline)
  BY DEF RowsAgree, sentinelCatalog, ServedBaseline, ServedSentinel,
         Tool, Handler
<1>20. RowsAgree(architectCatalog, ServedArchitect \cup ServedBaseline)
  BY DEF RowsAgree, architectCatalog, ServedBaseline, ServedArchitect,
         Tool, Handler
<1>21. RowsAgree(forgeCatalog, ServedForge \cup ServedBaseline)
  BY DEF RowsAgree, forgeCatalog, ServedBaseline, ServedForge,
         Tool, Handler
<1>22. RowsAgree(scribeCatalog, ServedScribe \cup ServedBaseline)
  BY DEF RowsAgree, scribeCatalog, ServedBaseline, ServedScribe,
         Tool, Handler
<1>23. RowsAgree(reconCatalog, ServedRecon \cup ServedBaseline)
  BY DEF RowsAgree, reconCatalog, ServedBaseline, ServedRecon,
         Tool, Handler
<1>24. RowsAgree(nexusCatalog, ServedNexus \cup ServedBaseline)
  BY DEF RowsAgree, nexusCatalog, ServedBaseline, ServedNexus,
         Tool, Handler
<1>25. RowsAgree(watchtowerCatalog, ServedWatchtower \cup ServedBaseline)
  BY DEF RowsAgree, watchtowerCatalog, ServedBaseline, ServedWatchtower,
         Tool, Handler
<1>26. RowsAgree(localDatabaseCatalog, ServedDatabase \cup ServedBaseline)
  BY DEF RowsAgree, localDatabaseCatalog, ServedBaseline, ServedDatabase,
         Tool, Handler
<1>27. ASSUME NEW s \in Specialization PROVE RowsAgree(Listed(s), Served(s))
  <2>1. CASE s = "baseline-tools"
    BY <1>1, <2>1 DEF Listed, ServedBy, Served
  <2>2. CASE s = "terminal-shell"
    BY <1>2, <2>2 DEF Listed, ServedBy, Served
  <2>3. CASE s = "local-git"
    BY <1>3, <2>3 DEF Listed, ServedBy, Served
  <2>4. CASE s = "file-search"
    BY <1>4, <2>4 DEF Listed, ServedBy, Served
  <2>5. CASE s = "client-tracker"
    BY <1>5, <2>5 DEF Listed, ServedBy, Served
  <2>6. CASE s = "metrics"
    BY <1>6, <2>6 DEF Listed, ServedBy, Served
  <2>7. CASE s = "code-execution-repl"
    BY <1>7, <2>7 DEF Listed, ServedBy, Served
  <2>8. CASE s = "local-test-runner"
    BY <1>8, <2>8 DEF Listed, ServedBy, Served
  <2>9. CASE s = "local-build-tool"
    BY <1>9, <2>9 DEF Listed, ServedBy, Served
  <2>10. CASE s = "local-linter"
    BY <1>10, <2>10 DEF Listed, ServedBy, Served
  <2>11. CASE s = "local-indexer"
    BY <1>11, <2>11 DEF Listed, ServedBy, Served
  <2>12. CASE s = "persistent-context"
    BY <1>12, <2>12 DEF Listed, ServedBy, Served
  <2>13. CASE s = "knowledge-graph"
    BY <1>13, <2>13 DEF Listed, ServedBy, Served
  <2>14. CASE s = "file-watcher"
    BY <1>14, <2>14 DEF Listed, ServedBy, Served
  <2>15. CASE s = "keyboard-mouse-control"
    BY <1>15, <2>15 DEF Listed, ServedBy, Served
  <2>16. CASE s = "screen-capture-vision"
    BY <1>16, <2>16 DEF Listed, ServedBy, Served
  <2>17. CASE s = "desktop-control"
    BY <1>17, <2>17 DEF Listed, ServedBy, Served
  <2>18. CASE s = "computer-use"
    BY <1>18, <2>18 DEF Listed, ServedBy, Served
  <2>19. CASE s = "sentinel"
    BY <1>19, <2>19 DEF Listed, ServedBy, Served
  <2>20. CASE s = "architect"
    BY <1>20, <2>20 DEF Listed, ServedBy, Served
  <2>21. CASE s = "forge"
    BY <1>21, <2>21 DEF Listed, ServedBy, Served
  <2>22. CASE s = "scribe"
    BY <1>22, <2>22 DEF Listed, ServedBy, Served
  <2>23. CASE s = "recon"
    BY <1>23, <2>23 DEF Listed, ServedBy, Served
  <2>24. CASE s = "nexus"
    BY <1>24, <2>24 DEF Listed, ServedBy, Served
  <2>25. CASE s = "watchtower"
    BY <1>25, <2>25 DEF Listed, ServedBy, Served
  <2>26. CASE s = "local-database"
    BY <1>26, <2>26 DEF Listed, ServedBy, Served
  <2> QED BY <2>1, <2>2, <2>3, <2>4, <2>5, <2>6, <2>7, <2>8, <2>9, <2>10, <2>11, <2>12, <2>13, <2>14, <2>15, <2>16, <2>17, <2>18, <2>19, <2>20, <2>21, <2>22, <2>23, <2>24, <2>25, <2>26 DEF Specialization
<1> QED BY <1>27

\* The specializations whose workers use a store file, and the one that watches.
ContextUsers == {"persistent-context", "local-database"}
GraphUsers == {"knowledge-graph"}
Watchers == {"file-watcher"}
UsersOf(f) == IF f = Context THEN ContextUsers ELSE GraphUsers
ContextTools == {"ctx.set", "ctx.delete", "db.set_connection_string"}
GraphTools == {"kg.entity.upsert", "kg.relation.create", "kg.delete_entity"}

\* The tools that change a store or the watch table are served there alone.
LEMMA StateToolsAreApart ==
    \A s \in Specialization : \A h \in Served(s) :
        /\ h.tool \in ContextTools => s \in ContextUsers
        /\ h.tool \in GraphTools => s \in GraphUsers
        /\ h.tool \in Watches => s \in Watchers
<1> SUFFICES ASSUME NEW s \in Specialization, NEW h \in Served(s)
             PROVE  /\ h.tool \in ContextTools => s \in ContextUsers
                    /\ h.tool \in GraphTools => s \in GraphUsers
                    /\ h.tool \in Watches => s \in Watchers
  OBVIOUS
<1>1. CASE s = "baseline-tools"
  BY <1>1 DEF Served, ServedBy, ContextTools, GraphTools, ContextUsers, GraphUsers, Watchers, Watches,
         ServedBaseline, Handler
<1>2. CASE s = "terminal-shell"
  BY <1>2 DEF Served, ServedBy, ContextTools, GraphTools, ContextUsers, GraphUsers, Watchers, Watches,
         ServedBaseline, ServedShell, Handler
<1>3. CASE s = "local-git"
  BY <1>3 DEF Served, ServedBy, ContextTools, GraphTools, ContextUsers, GraphUsers, Watchers, Watches,
         ServedBaseline, ServedGit, Handler
<1>4. CASE s = "file-search"
  BY <1>4 DEF Served, ServedBy, ContextTools, GraphTools, ContextUsers, GraphUsers, Watchers, Watches,
         ServedBaseline, ServedSearch, Handler
<1>5. CASE s = "client-tracker"
  BY <1>5 DEF Served, ServedBy, ContextTools, GraphTools, ContextUsers, GraphUsers, Watchers, Watches,
         ServedBaseline, ServedClients, Handler
<1>6. CASE s = "metrics"
  BY <1>6 DEF Served, ServedBy, ContextTools, GraphTools, ContextUsers, GraphUsers, Watchers, Watches,
         ServedBaseline, ServedMetrics, Handler
<1>7. CASE s = "code-execution-repl"
  BY <1>7 DEF Served, ServedBy, ContextTools, GraphTools, ContextUsers, GraphUsers, Watchers, Watches,
         ServedBaseline, ServedRepl, Handler
<1>8. CASE s = "local-test-runner"
  BY <1>8 DEF Served, ServedBy, ContextTools, GraphTools, ContextUsers, GraphUsers, Watchers, Watches,
         ServedBaseline, ServedTest, Handler
<1>9. CASE s = "local-build-tool"
  BY <1>9 DEF Served, ServedBy, ContextTools, GraphTools, ContextUsers, GraphUsers, Watchers, Watches,
         ServedBaseline, ServedBuild, Handler
<1>10. CASE s = "local-linter"
  BY <1>10 DEF Served, ServedBy, ContextTools, GraphTools, ContextUsers, GraphUsers, Watchers, Watches,
         ServedBaseline, ServedLint, Handler
<1>11. CASE s = "local-indexer"
  BY <1>11 DEF Served, ServedBy, ContextTools, GraphTools, ContextUsers, GraphUsers, Watchers, Watches,
         ServedBaseline, ServedIndex, Handler
<1>12. CASE s = "persistent-context"
  BY <1>12 DEF Served, ServedBy, ContextTools, GraphTools, ContextUsers, GraphUsers, Watchers, Watches,
         ServedBaseline, ServedContext, Handler
<1>13. CASE s = "knowledge-graph"
  BY <1>13 DEF Served, ServedBy, ContextTools, GraphTools, ContextUsers, GraphUsers, Watchers, Watches,
         ServedBaseline, ServedGraph, Handler
<1>14. CASE s = "file-watcher"
  BY <1>14 DEF Served, ServedBy, ContextTools, GraphTools, ContextUsers, GraphUsers, Watchers, Watches,
         ServedBaseline, ServedWatch, Handler
<1>15. CASE s = "keyboard-mouse-control"
  BY <1>15 DEF Served, ServedBy, ContextTools, GraphTools, ContextUsers, GraphUsers, Watchers, Watches,
         ServedBaseline, ServedInput, Handler, Click, Typing, Move
<1>16. CASE s = "screen-capture-vision"
  BY <1>16 DEF Served, ServedBy, ContextTools, GraphTools, ContextUsers, GraphUsers, Watchers, Watches,
         ServedBaseline, ServedScreen, Handler, CaptureSpec
<1>17. CASE s = "desktop-control"
  BY <1>17 DEF Served, ServedBy, ContextTools, GraphTools, ContextUsers, GraphUsers, Watchers, Watches,
         ServedBaseline, ServedDesktop, Handler, Windows
<1>18. CASE s = "computer-use"
  BY <1>18 DEF Served, ServedBy, ContextTools, GraphTools, ContextUsers, GraphUsers, Watchers, Watches,
         ServedBaseline, ServedComputer, Handler, ServedInput, ServedScreen, ServedDesktop,
         Click, Typing, Move, CaptureSpec, Windows
<1>19. CASE s = "sentinel"
  BY <1>19 DEF Served, ServedBy, ContextTools, GraphTools, ContextUsers, GraphUsers, Watchers, Watches,
         ServedBaseline, ServedSentinel, Handler
<1>20. CASE s = "architect"
  BY <1>20 DEF Served, ServedBy, ContextTools, GraphTools, ContextUsers, GraphUsers, Watchers, Watches,
         ServedBaseline, ServedArchitect, Handler
<1>21. CASE s = "forge"
  BY <1>21 DEF Served, ServedBy, ContextTools, GraphTools, ContextUsers, GraphUsers, Watchers, Watches,
         ServedBaseline, ServedForge, Handler
<1>22. CASE s = "scribe"
  BY <1>22 DEF Served, ServedBy, ContextTools, GraphTools, ContextUsers, GraphUsers, Watchers, Watches,
         ServedBaseline, ServedScribe, Handler
<1>23. CASE s = "recon"
  BY <1>23 DEF Served, ServedBy, ContextTools, GraphTools, ContextUsers, GraphUsers, Watchers, Watches,
         ServedBaseline, ServedRecon, Handler
<1>24. CASE s = "nexus"
  BY <1>24 DEF Served, ServedBy, ContextTools, GraphTools, ContextUsers, GraphUsers, Watchers, Watches,
         ServedBaseline, ServedNexus, Handler
<1>25. CASE s = "watchtower"
  BY <1>25 DEF Served, ServedBy, ContextTools, GraphTools, ContextUsers, GraphUsers, Watchers, Watches,
         ServedBaseline, ServedWatchtower, Handler
<1>26. CASE s = "local-database"
  BY <1>26 DEF Served, ServedBy, ContextTools, GraphTools, ContextUsers, GraphUsers, Watchers, Watches,
         ServedBaseline, ServedDatabase, Handler
<1> QED BY <1>1, <1>2, <1>3, <1>4, <1>5, <1>6, <1>7, <1>8, <1>9, <1>10, <1>11, <1>12, <1>13, <1>14, <1>15, <1>16, <1>17, <1>18, <1>19, <1>20, <1>21, <1>22, <1>23, <1>24, <1>25, <1>26 DEF Specialization

\* A call as a client makes it, and the values that a tool which changes a
\* store gets with it.
IsCall(c) ==
    /\ c = [tool |-> c.tool, lacks |-> c.lacks, ill |-> c.ill, fits |-> c.fits,
            a |-> c.a, b |-> c.b, n |-> c.n]
    /\ c.tool \in {"ctx.set", "ctx.delete"} => c.a \in Key
    /\ c.tool = "ctx.set" => c.n \in 1 .. WkWrites
    /\ c.tool = "db.set_connection_string" => c.a \in Key /\ c.n \in 1 .. WkWrites
    /\ c.tool \in {"kg.entity.upsert", "kg.delete_entity"} => c.a \in Node
    /\ c.tool = "kg.relation.create" => c.a \in Node /\ c.b \in Node

LEMMA CallsShape ==
    ASSUME NEW s, NEW c \in Calls(s)
    PROVE  \E t, x, y, z : c = [tool |-> t, lacks |-> x, ill |-> y, fits |-> z,
                                a |-> "none", b |-> "none", n |-> 0]
<1> DEFINE asked(t) == [NoCall EXCEPT !.tool = t]
           insists(t) == UNION ({l.required : l \in {x \in Listed(s) : x.tool = t}}
                                \cup {h.insists : h \in {x \in Served(s) : x.tool = t}})
           typed(t) == UNION {h.typed : h \in {x \in Served(s) : x.tool = t}}
<1>1. PICK t : c \in {asked(t)} \cup {[asked(t) EXCEPT !.lacks = x] : x \in insists(t)}
                     \cup {[asked(t) EXCEPT !.ill = x] : x \in typed(t)}
                     \cup {[asked(t) EXCEPT !.fits = (t \notin Bound)]}
  BY DEF Calls
<1> HIDE DEF insists, typed
<1>2. CASE c = asked(t)
  BY <1>2 DEF NoCall
<1>3. ASSUME NEW x, c = [asked(t) EXCEPT !.lacks = x] PROVE c = [tool |-> t, lacks |-> x, ill |-> "none", fits |-> TRUE,
                                a |-> "none", b |-> "none", n |-> 0]
  BY <1>3 DEF NoCall
<1>4. ASSUME NEW x, c = [asked(t) EXCEPT !.ill = x] PROVE c = [tool |-> t, lacks |-> "none", ill |-> x, fits |-> TRUE,
                                a |-> "none", b |-> "none", n |-> 0]
  BY <1>4 DEF NoCall
<1>5. ASSUME NEW z, c = [asked(t) EXCEPT !.fits = z] PROVE c = [tool |-> t, lacks |-> "none", ill |-> "none", fits |-> z,
                                a |-> "none", b |-> "none", n |-> 0]
  BY <1>5 DEF NoCall
<1> HIDE DEF asked
<1>6. CASE c = [asked(t) EXCEPT !.fits = (t \notin Bound)]
  BY <1>5, <1>6
<1>7. CASE \E x : c = [asked(t) EXCEPT !.lacks = x]
  <2>1. PICK x : c = [asked(t) EXCEPT !.lacks = x]
    BY <1>7
  <2> QED BY <1>3, <2>1
<1>8. CASE \E x : c = [asked(t) EXCEPT !.ill = x]
  <2>1. PICK x : c = [asked(t) EXCEPT !.ill = x]
    BY <1>8
  <2> QED BY <1>4, <2>1
<1> QED BY <1>1, <1>2, <1>6, <1>7, <1>8

\* A filled call has values of its store.
LEMMA FilledCalls ==
    ASSUME NEW s, NEW c \in Calls(s), c.tool \in ChangesStore, counts.writes \in 0 .. WkWrites - 1,
           WkWrites \in Nat, NEW v \in Filled(c)
    PROVE  IsCall(v) /\ v.tool = c.tool /\ v.lacks = c.lacks /\ v.ill = c.ill /\ v.fits = c.fits
<1>1. PICK t, x, y, z : c = [tool |-> t, lacks |-> x, ill |-> y, fits |-> z,
                             a |-> "none", b |-> "none", n |-> 0]
  BY CallsShape
<1>2. PICK u \in Values(c.tool) : v = [c EXCEPT !.a = u[1], !.b = u[2], !.n = u[3]]
  BY DEF Filled
<1>3. v = [tool |-> t, lacks |-> x, ill |-> y, fits |-> z, a |-> u[1], b |-> u[2], n |-> u[3]]
  BY <1>1, <1>2
<1>4. CASE c.tool \in {"ctx.set", "ctx.delete"}
  <2>1. u[1] \in Key /\ u[3] = counts.writes + 1
    BY <1>2, <1>4 DEF Values
  <2> QED BY <1>1, <1>3, <1>4, <2>1 DEF IsCall
<1>5. CASE c.tool = "db.set_connection_string"
  <2>1. u[1] \in Key /\ u[3] = counts.writes + 1
    BY <1>2, <1>5 DEF Values, Key
  <2> QED BY <1>1, <1>3, <1>5, <2>1 DEF IsCall
<1>6. CASE c.tool \in {"kg.entity.upsert", "kg.delete_entity"}
  <2>1. u[1] \in Node
    BY <1>2, <1>6 DEF Values
  <2> QED BY <1>1, <1>3, <1>6, <2>1 DEF IsCall
<1>7. CASE c.tool = "kg.relation.create"
  <2>1. u[1] \in Node /\ u[2] \in Node
    BY <1>2, <1>7 DEF Values
  <2> QED BY <1>1, <1>3, <1>7, <2>1 DEF IsCall
<1> QED BY <1>4, <1>5, <1>6, <1>7 DEF ChangesStore

\* A change of a store leaves items of that store.
LEMMA AppliedAreItems ==
    ASSUME NEW c, IsCall(c), c.tool \in ChangesStore, NEW items \in SUBSET Item(FileOf(c))
    PROVE  Applied(c, items) \subseteq Item(FileOf(c))
<1>1. CASE c.tool \in {"ctx.set", "db.set_connection_string"}
  BY <1>1 DEF Applied, FileOf, Item, Context, Graph, WithoutKey, IsCall
<1>2. CASE c.tool = "ctx.delete"
  BY <1>2 DEF Applied, FileOf, Item, Context, Graph, WithoutKey
<1>3. CASE c.tool = "kg.delete_entity"
  BY <1>3 DEF Applied, WithoutEntity
<1>4. CASE c.tool = "kg.entity.upsert"
  BY <1>4 DEF Applied, FileOf, Item, Context, Graph, IsCall
<1>5. CASE c.tool = "kg.relation.create"
  BY <1>5 DEF Applied, FileOf, Item, Context, Graph, IsCall
<1> QED BY <1>1, <1>2, <1>3, <1>4, <1>5 DEF ChangesStore

WorkerTyped(r) ==
    /\ r = [pc |-> r.pc, call |-> r.call, copy |-> r.copy]
    /\ r.pc \in {"reading", "running", "open", "write", "dead"}
    /\ r.pc \in {"running", "open", "write"} <=> r.call # NoCall
    /\ r.pc \in {"open", "write"} =>
        IsCall(r.call) /\ r.call.tool \in ChangesStore /\ r.copy \subseteq Item(FileOf(r.call))

WorkersTyped == DOMAIN worker = Worker /\ \A w \in Worker : WorkerTyped(worker[w])

AnswersTyped ==
    /\ DOMAIN answered = Worker
    /\ \A w \in Worker :
        /\ answered[w] = [call |-> answered[w].call, answer |-> answered[w].answer]
        /\ answered[w].answer \in {"none", "result", "invalid", "notFound", "dies",
                                   "parseError", "silence"}

StoresTyped ==
    /\ DOMAIN store = {Context, Graph} /\ DOMAIN promised = {Context, Graph}
    /\ \A f \in {Context, Graph} :
        /\ store[f] = [whole |-> store[f].whole, items |-> store[f].items]
        /\ store[f].items \subseteq Item(f) /\ promised[f] \subseteq Item(f)

WatchesTyped ==
    /\ watch \in [Worker -> [on : BOOLEAN, snapshot : 0 .. WkVersions]]
    /\ version \in 0 .. WkVersions
    /\ view \in [WatchClient -> [fresh : BOOLEAN, known : 0 .. WkVersions]]

CountsTyped == counts \in [writes : 0 .. WkWrites, versions : 1 .. WkVersions, kills : Nat]

\* What the places of the workers and the stores are; it gives the types.
WkInv ==
    /\ poolOf \in Pools
    /\ WorkersTyped /\ AnswersTyped /\ StoresTyped /\ WatchesTyped /\ CountsTyped

LEMMA WkInvTypes == WkInv => WkTypeOK
  BY DEF WkInv, WkTypeOK, WorkersTyped, WorkerTyped, AnswersTyped, StoresTyped, WatchesTyped

LEMMA WkInvInitially == WkInit => WkInv
<1> SUFFICES ASSUME WkInit PROVE WkInv
  OBVIOUS
<1>1. WorkersTyped
  BY DEF WkInit, WorkersTyped, WorkerTyped, IdleTool
<1>2. AnswersTyped
  BY DEF WkInit, AnswersTyped
<1>3. StoresTyped
  BY DEF WkInit, StoresTyped
<1>4. WatchesTyped /\ CountsTyped
  BY WorkerToolsAssumption DEF WkInit, WatchesTyped, CountsTyped, NoWatch
<1> QED BY <1>1, <1>2, <1>3, <1>4 DEF WkInv, WkInit

\* A worker that takes another place.
LEMMA WorkerMoves ==
    ASSUME WorkersTyped, NEW w \in Worker, NEW r, WorkerTyped(r), worker' = [worker EXCEPT ![w] = r]
    PROVE  WorkersTyped'
<1>1. DOMAIN worker' = Worker
  BY DEF WorkersTyped
<1>2. ASSUME NEW v \in Worker PROVE WorkerTyped(worker'[v])
  <2>1. worker'[v] = IF v = w THEN r ELSE worker[v]
    BY DEF WorkersTyped
  <2> QED BY <2>1 DEF WorkersTyped
<1> QED BY <1>1, <1>2 DEF WorkersTyped, WorkerTyped, IsCall, Item, FileOf

LEMMA IdleWorker == WorkerTyped(IdleTool) /\ WorkerTyped([IdleTool EXCEPT !.pc = "dead"])
<1>1. WorkerTyped(IdleTool)
  BY DEF WorkerTyped, IdleTool
<1>2. [IdleTool EXCEPT !.pc = "dead"] = [pc |-> "dead", call |-> NoCall, copy |-> {}]
  BY DEF IdleTool
<1>3. WorkerTyped([pc |-> "dead", call |-> NoCall, copy |-> {}])
  BY DEF WorkerTyped
<1> QED BY <1>1, <1>2, <1>3

LEMMA WorkerDies ==
    ASSUME WorkersTyped, NEW w \in Worker, Doing(w, "reading"),
           worker' = [worker EXCEPT ![w].pc = "dead"]
    PROVE  WorkersTyped'
<1> DEFINE r == [worker[w] EXCEPT !.pc = "dead"]
<1>1. r = [pc |-> "dead", call |-> worker[w].call, copy |-> worker[w].copy]
  BY DEF WorkersTyped, WorkerTyped
<1>2. WorkerTyped(r)
  BY <1>1 DEF WorkersTyped, WorkerTyped, Doing
<1>3. worker' = [worker EXCEPT ![w] = r]
  BY DEF WorkersTyped
<1> QED BY <1>2, <1>3, WorkerMoves

\* An answer, and a parting one.
LEMMA AnswerTyped ==
    ASSUME AnswersTyped, NEW w \in Worker, NEW c, NEW a, Answers(w, c, a),
           a \in {"none", "result", "invalid", "notFound", "dies", "parseError", "silence"}
    PROVE  AnswersTyped' /\ answered'[w].call = c /\ answered'[w].answer = a
           /\ \A v \in Worker : v # w => answered'[v] = answered[v]
  BY DEF Answers, AnswersTyped

LEMMA Verdicts ==
    ASSUME NEW s, NEW c PROVE AnswerTo(s, c) \in {"notFound", "invalid", "dies", "result"}
  BY DEF AnswerTo

\* Calls that the tables know are not NoCall.
LEMMA NamedCalls ==
    ASSUME NEW c, c.tool \in RunsProcess \cup ChangesStore PROVE c # NoCall
  BY DEF RunsProcess, Bound, Bridged, ChangesStore, NoCall

LEMMA FilesTwo == ASSUME NEW c PROVE FileOf(c) \in {Context, Graph}
  BY DEF FileOf

\* Each step keeps the places of the workers and the stores what they are.
LEMMA ToolCallsKeepTypes ==
    ASSUME WkInv, NEW w \in Worker, NEW c,
           \/ Answer(w, c) \/ Run(w, c) \/ Envelope(w) \/ RunEnds(w)
    PROVE  WkInv'
<1> USE WkInv DEF WkInv
<1>1. CASE Answer(w, c)
  <2>1. AnswersTyped'
    BY <1>1, Verdicts, AnswerTyped DEF Answer
  <2>2. WorkersTyped'
    <3>1. CASE worker' = worker
      BY <3>1 DEF WorkersTyped, WorkerTyped, IsCall, Item, FileOf
    <3>2. CASE worker' = [worker EXCEPT ![w].pc = "dead"]
      BY <1>1, <3>2, WorkerDies DEF Answer
    <3> QED BY <1>1, <3>1, <3>2 DEF Answer
  <2> QED BY <1>1, <2>1, <2>2 DEF Answer, StoresTyped, WatchesTyped, CountsTyped, Item
<1>2. CASE Run(w, c)
  <2>1. WorkerTyped([pc |-> "running", call |-> c, copy |-> {}])
    BY <1>2, NamedCalls DEF WorkerTyped, Run
  <2>2. WorkersTyped'
    BY <1>2, <2>1, WorkerMoves DEF Run
  <2> QED BY <1>2, <2>2 DEF Run, AnswersTyped, StoresTyped, WatchesTyped, CountsTyped, Item
<1>3. CASE Envelope(w)
  <2>1. AnswersTyped'
    BY <1>3, AnswerTyped DEF Envelope
  <2>2. WorkersTyped'
    <3>1. CASE worker' = worker
      BY <3>1 DEF WorkersTyped, WorkerTyped, IsCall, Item, FileOf
    <3>2. CASE worker' = [worker EXCEPT ![w].pc = "dead"]
      BY <1>3, <3>2, WorkerDies DEF Envelope
    <3> QED BY <1>3, <3>1, <3>2 DEF Envelope
  <2> QED BY <1>3, <2>1, <2>2 DEF Envelope, StoresTyped, WatchesTyped, CountsTyped, Item
<1>4. CASE RunEnds(w)
  <2>1. AnswersTyped'
    BY <1>4, AnswerTyped DEF RunEnds
  <2>2. WorkersTyped'
    BY <1>4, IdleWorker, WorkerMoves DEF RunEnds
  <2> QED BY <1>4, <2>1, <2>2 DEF RunEnds, StoresTyped, WatchesTyped, CountsTyped, Item
<1> QED BY <1>1, <1>2, <1>3, <1>4

LEMMA LoadedAreItems ==
    ASSUME StoresTyped, NEW f \in {Context, Graph} PROVE Loaded(f) \subseteq Item(f)
  BY DEF StoresTyped, Loaded

LEMMA PromiseKept ==
    ASSUME StoresTyped, NEW c, IsCall(c), c.tool \in ChangesStore,
           promised' = [promised EXCEPT ![FileOf(c)] = Applied(c, @)]
    PROVE  /\ DOMAIN promised' = {Context, Graph}
           /\ \A f \in {Context, Graph} : promised'[f] \subseteq Item(f)
<1> DEFINE F == FileOf(c)
<1>1. F \in {Context, Graph} /\ promised[F] \in SUBSET Item(F)
  BY FilesTwo DEF StoresTyped
<1>2. Applied(c, promised[F]) \subseteq Item(F)
  BY <1>1, AppliedAreItems
<1>3. promised' = [promised EXCEPT ![F] = Applied(c, promised[F])] /\ DOMAIN promised = {Context, Graph}
  BY <1>1 DEF StoresTyped
<1> QED BY <1>1, <1>2, <1>3 DEF StoresTyped

LEMMA StoreWorkKeepsTypes ==
    ASSUME WkInv, NEW w \in Worker,
           \/ \E c \in Calls(poolOf[w]) : c.tool \in ChangesStore /\ \E v \in Filled(c) : Load(w, v)
           \/ Open(w) \/ Write(w)
    PROVE  WkInv'
<1> USE WkInv DEF WkInv
<1>1. ASSUME NEW c \in Calls(poolOf[w]), c.tool \in ChangesStore, NEW v \in Filled(c), Load(w, v)
      PROVE  WkInv'
  <2>1. counts.writes \in 0 .. WkWrites - 1 /\ WkWrites \in Nat
    BY <1>1, WorkerToolsAssumption DEF Load, CountsTyped
  <2>2. IsCall(v) /\ v.tool \in ChangesStore
    BY <1>1, <2>1, FilledCalls
  <2>3. Applied(v, Loaded(FileOf(v))) \subseteq Item(FileOf(v))
    BY <2>2, LoadedAreItems, FilesTwo, AppliedAreItems
  <2>4. CountsTyped'
    BY <1>1, <2>1 DEF Load, CountsTyped
  <2>5. CASE ~Saves(v, Loaded(FileOf(v)))
    <3>1. AnswersTyped' /\ worker' = worker /\ store' = store
          /\ promised' = [promised EXCEPT ![FileOf(v)] = Applied(v, @)]
      BY <1>1, <2>5, AnswerTyped DEF Load
    <3>2. StoresTyped'
      BY <2>2, <3>1, PromiseKept DEF StoresTyped, Item
    <3>3. WorkersTyped'
      BY <3>1 DEF WorkersTyped, WorkerTyped, IsCall, Item, FileOf
    <3> QED BY <1>1, <2>4, <3>1, <3>2, <3>3 DEF Load, WatchesTyped
  <2>6. CASE Saves(v, Loaded(FileOf(v)))
    <3> DEFINE r == [pc |-> "open", call |-> v, copy |-> Applied(v, Loaded(FileOf(v)))]
    <3>1. worker' = [worker EXCEPT ![w] = r] /\ UNCHANGED << answered, promised, store >>
      BY <1>1, <2>6 DEF Load
    <3>2. WorkerTyped(r)
      BY <2>2, <2>3, NamedCalls DEF WorkerTyped
    <3>3. WorkersTyped'
      BY <3>1, <3>2, WorkerMoves
    <3> QED BY <1>1, <2>4, <3>1, <3>3 DEF Load, AnswersTyped, StoresTyped, WatchesTyped, Item
  <2> QED BY <2>5, <2>6
<1> DEFINE k == worker[w].call
           F == FileOf(k)
<1>2. ASSUME Doing(w, "open") \/ Doing(w, "write")
      PROVE  /\ IsCall(k) /\ k.tool \in ChangesStore /\ F \in {Context, Graph}
             /\ worker[w].copy \subseteq Item(F)
  BY <1>2, FilesTwo DEF WorkersTyped, WorkerTyped, Doing
<1>3. ASSUME Acknowledge(w), Doing(w, "open") \/ Doing(w, "write")
      PROVE  /\ AnswersTyped' /\ WorkersTyped' /\ DOMAIN promised' = {Context, Graph}
             /\ \A f \in {Context, Graph} : promised'[f] \subseteq Item(f)
  BY <1>2, <1>3, AnswerTyped, IdleWorker, WorkerMoves, PromiseKept DEF Acknowledge
<1>4. CASE Open(w)
  <2>1. CASE /\ store' = [store EXCEPT ![FileOf(worker[w].call)] = TornStore]
             /\ worker' = [worker EXCEPT ![w].pc = "write"]
             /\ UNCHANGED << answered, promised >>
    <3> DEFINE r == [worker[w] EXCEPT !.pc = "write"]
    <3>1. r = [pc |-> "write", call |-> k, copy |-> worker[w].copy]
      BY DEF WorkersTyped, WorkerTyped
    <3>2. WorkerTyped(r)
      BY <1>2, <1>4, <3>1, NamedCalls DEF WorkerTyped, Open
    <3>3. worker' = [worker EXCEPT ![w] = r]
      BY <2>1 DEF WorkersTyped
    <3>4. WorkersTyped'
      BY <3>2, <3>3, WorkerMoves
    <3>5. StoresTyped'
      BY <2>1, <1>2, <1>4 DEF StoresTyped, TornStore, Item, Open
    <3> QED BY <1>4, <2>1, <3>4, <3>5 DEF Open, AnswersTyped, WatchesTyped, CountsTyped
  <2>2. CASE Acknowledge(w) /\ UNCHANGED store
    <3>1. StoresTyped'
      BY <1>3, <1>4, <2>2 DEF StoresTyped, Item, Open
    <3> QED BY <1>3, <1>4, <2>2, <3>1 DEF Open, WatchesTyped, CountsTyped
  <2> QED BY <1>4, <2>1, <2>2 DEF Open
<1>5. CASE Write(w)
  <2>1. StoresTyped'
    <3>1. store' = [store EXCEPT ![F] = [whole |-> TRUE, items |-> worker[w].copy]]
      BY <1>5 DEF Write
    <3>2. worker[w].copy \subseteq Item(F) /\ F \in {Context, Graph}
      BY <1>2, <1>5 DEF Write
    <3>3. /\ DOMAIN store' = {Context, Graph}
          /\ \A f \in {Context, Graph} :
                store'[f] = IF f = F THEN [whole |-> TRUE, items |-> worker[w].copy] ELSE store[f]
      BY <3>1, <3>2 DEF StoresTyped
    <3> QED BY <1>3, <1>5, <3>2, <3>3 DEF StoresTyped, Item, Write
  <2> QED BY <1>3, <1>5, <2>1 DEF Write, WatchesTyped, CountsTyped
<1> QED BY <1>1, <1>4, <1>5

LEMMA WatchesKeepTypes ==
    ASSUME WkInv, NEW w \in Worker, NEW c,
           WatchRemove(w, c) \/ \E k \in WatchClient :
               WatchAdd(w, c, k) \/ WatchPoll(w, c, k) \/ WatchPollNothing(w, c, k)
    PROVE  WkInv'
<1> USE WkInv DEF WkInv
<1>1. Reply(w, c)
  BY DEF WatchAdd, WatchPoll, WatchPollNothing, WatchRemove
<1>2. AnswersTyped' /\ UNCHANGED << poolOf, worker, store, promised, version, counts >>
  BY <1>1, AnswerTyped DEF Reply
<1>3. WorkersTyped' /\ StoresTyped' /\ CountsTyped'
  BY <1>2 DEF WorkersTyped, WorkerTyped, IsCall, StoresTyped, CountsTyped, Item, FileOf
<1>4. WatchesTyped'
  <2>1. CASE WatchRemove(w, c)
    BY <2>1, <1>2, WorkerToolsAssumption DEF WatchRemove, WatchesTyped, NoWatch
  <2>2. ASSUME NEW k \in WatchClient, WatchAdd(w, c, k) PROVE WatchesTyped'
    BY <2>2, <1>2 DEF WatchAdd, WatchesTyped
  <2>3. ASSUME NEW k \in WatchClient, WatchPoll(w, c, k) PROVE WatchesTyped'
    BY <2>3, <1>2 DEF WatchPoll, WatchesTyped
  <2>4. ASSUME NEW k \in WatchClient, WatchPollNothing(w, c, k) PROVE WatchesTyped'
    BY <2>4, <1>2 DEF WatchPollNothing, WatchesTyped
  <2> QED BY <2>1, <2>2, <2>3, <2>4
<1> QED BY <1>2, <1>3, <1>4

LEMMA ProcessKeepsTypes ==
    ASSUME WkInv, FileChanges \/ \E w \in Worker : KillWorker(w) \/ Respawn(w)
    PROVE  WkInv'
<1> USE WkInv DEF WkInv
<1>1. CASE FileChanges
  <2>1. CountsTyped' /\ counts'.versions \in 1 .. WkVersions
    BY <1>1, WorkerToolsAssumption DEF FileChanges, CountsTyped
  <2>2. version' \in 0 .. WkVersions
    BY <1>1, <2>1, WorkerToolsAssumption DEF FileChanges
  <2>3. WatchesTyped'
    BY <1>1, <2>2 DEF FileChanges, WatchesTyped
  <2> QED BY <1>1, <2>1, <2>3 DEF FileChanges, WorkersTyped, WorkerTyped, IsCall, AnswersTyped,
                                  StoresTyped, Item, FileOf
<1>2. ASSUME NEW w \in Worker, KillWorker(w) PROVE WkInv'
  <2>1. WorkersTyped'
    BY <1>2, IdleWorker, WorkerMoves DEF KillWorker
  <2>2. CountsTyped'
    BY <1>2 DEF KillWorker, CountsTyped
  <2> QED BY <1>2, <2>1, <2>2 DEF KillWorker, AnswersTyped, StoresTyped, WatchesTyped, Item
<1>3. ASSUME NEW w \in Worker, Respawn(w) PROVE WkInv'
  <2>1. WorkersTyped'
    BY <1>3, IdleWorker, WorkerMoves DEF Respawn
  <2>2. AnswersTyped'
    BY <1>3 DEF Respawn, AnswersTyped
  <2>3. WatchesTyped'
    BY <1>3, WorkerToolsAssumption DEF Respawn, WatchesTyped, NoWatch
  <2> QED BY <1>3, <2>1, <2>2, <2>3 DEF Respawn, StoresTyped, CountsTyped, Item
<1> QED BY <1>1, <1>2, <1>3

LEMMA WkInvKept == WkInv /\ [WkNext]_wkVars => WkInv'
<1> SUFFICES ASSUME WkInv, [WkNext]_wkVars PROVE WkInv'
  OBVIOUS
<1>1. CASE UNCHANGED wkVars
  BY <1>1 DEF wkVars, WkInv, WorkersTyped, WorkerTyped, IsCall, AnswersTyped, StoresTyped, WatchesTyped,
              CountsTyped, Item, FileOf
<1>2. ASSUME NEW w \in Worker, Serve(w) PROVE WkInv'
  <2>1. CASE Envelope(w) \/ RunEnds(w)
    BY <2>1, ToolCallsKeepTypes
  <2>2. CASE Open(w) \/ Write(w)
    BY <2>2, StoreWorkKeepsTypes
  <2>3. ASSUME NEW c \in Calls(poolOf[w]), Answer(w, c) \/ Run(w, c) PROVE WkInv'
    BY <2>3, ToolCallsKeepTypes
  <2>4. ASSUME NEW c \in Calls(poolOf[w]), c.tool \in ChangesStore, NEW v \in Filled(c), Load(w, v)
        PROVE  WkInv'
    BY <2>4, StoreWorkKeepsTypes
  <2>5. ASSUME NEW c, \/ WatchRemove(w, c)
                      \/ \E k \in WatchClient :
                            WatchAdd(w, c, k) \/ WatchPoll(w, c, k) \/ WatchPollNothing(w, c, k)
        PROVE  WkInv'
    BY <2>5, WatchesKeepTypes
  <2> QED BY <1>2, <2>1, <2>2, <2>3, <2>4, <2>5 DEF Serve
<1> QED BY <1>1, <1>2, ProcessKeepsTypes DEF WkNext

-----------------------------------------------------------------------------
(* What the workers answer *)

\* A call that keeps to the schema is served.
LEMMA ConformingIsServed ==
    ASSUME NEW s \in Specialization, NEW c, Conforming(s, c)
    PROVE  AnswerTo(s, c) = "result" /\ c # NoCall
<1>1. PICK l \in Listed(s) : l.tool = c.tool /\ c.lacks \notin l.required
  BY DEF Conforming
<1>2. l.tool # "none" /\ \E g \in Served(s) : g.tool = c.tool
  BY <1>1, TablesAgree DEF RowsAgree
<1> DEFINE h == CHOOSE x \in Served(s) : x.tool = c.tool
<1>3. h \in Served(s) /\ h.tool = c.tool
  BY <1>2
<1>4. h.insists \subseteq l.required /\ "none" \notin h.typed
  BY <1>1, <1>3, TablesAgree DEF RowsAgree
<1>5. c.lacks \notin h.insists /\ c.ill \notin h.typed
  BY <1>1, <1>4 DEF Conforming
<1>6. AnswerTo(s, c) = CASE c.lacks \in h.insists -> "invalid"
                         [] c.ill \in h.typed     -> "dies"
                         [] OTHER                 -> IF c.tool \in Bound /\ ~c.fits THEN "invalid" ELSE "result"
  BY <1>3 DEF AnswerTo
<1> HIDE DEF h
<1> QED BY <1>1, <1>2, <1>5, <1>6 DEF Conforming, NoCall

\* A tool that a call reaches is served there.
LEMMA ResultsAreServed ==
    ASSUME NEW s \in Specialization, NEW c, AnswerTo(s, c) = "result"
    PROVE  /\ c.tool \in ContextTools => s \in ContextUsers
           /\ c.tool \in GraphTools => s \in GraphUsers
           /\ c.tool \in Watches => s \in Watchers
<1>1. PICK h \in Served(s) : h.tool = c.tool
  BY DEF AnswerTo
<1> QED BY <1>1, StateToolsAreApart

LEMMA PoolsAreSpecialized ==
    WkInv => \A w \in Worker : poolOf[w] \in Specialization
  BY WorkerToolsAssumption DEF WkInv


\* A worker keeps its specialization.
LEMMA PoolsStay ==
    ASSUME [WkNext]_wkVars PROVE poolOf' = poolOf
<1>1. ASSUME NEW w \in Worker, Serve(w) PROVE poolOf' = poolOf
  <2>1. CASE Envelope(w) \/ RunEnds(w) \/ Open(w) \/ Write(w)
    BY <2>1 DEF Envelope, RunEnds, Open, Write
  <2>2. ASSUME NEW c, Answer(w, c) \/ Run(w, c) \/ Load(w, c) PROVE poolOf' = poolOf
    BY <2>2 DEF Answer, Run, Load
  <2>3. ASSUME NEW c, \/ WatchRemove(w, c)
                      \/ \E k \in WatchClient :
                            WatchAdd(w, c, k) \/ WatchPoll(w, c, k) \/ WatchPollNothing(w, c, k)
        PROVE  poolOf' = poolOf
    BY <2>3 DEF WatchRemove, WatchAdd, WatchPoll, WatchPollNothing, Reply
  <2> QED BY <1>1, <2>1, <2>2, <2>3 DEF Serve
<1>2. ASSUME NEW w \in Worker, KillWorker(w) \/ Respawn(w) PROVE poolOf' = poolOf
  BY <1>2 DEF KillWorker, Respawn
<1>3. CASE FileChanges \/ UNCHANGED wkVars
  BY <1>3 DEF FileChanges, wkVars
<1> QED BY <1>1, <1>2, <1>3 DEF WkNext

LEMMA AnswersStayTrue ==
    ASSUME WkFaults = {}, WkInv, ListedToolsAreServed, [WkNext]_wkVars
    PROVE  ListedToolsAreServed'
<1> USE DEF ListedToolsAreServed
<1>0. poolOf' = poolOf
  BY PoolsStay
<1>1. ASSUME answered' = answered PROVE ListedToolsAreServed'
  BY <1>0, <1>1 DEF Conforming
<1>2. ASSUME NEW w \in Worker, NEW c, NEW a, Answers(w, c, a), Conforming(poolOf[w], c) => a \in {"none", "result"}
      PROVE  ListedToolsAreServed'
  BY <1>0, <1>2 DEF Answers, Conforming, WkInv, AnswersTyped
<1>3. ASSUME NEW w \in Worker, Serve(w) PROVE ListedToolsAreServed'
  <2>1. ASSUME NEW c, Answer(w, c) PROVE ListedToolsAreServed'
    BY <1>2, <2>1, ConformingIsServed, PoolsAreSpecialized DEF Answer
  <2>2. CASE Envelope(w)
    BY <1>2, <2>2, ConformingIsServed, PoolsAreSpecialized DEF Envelope
  <2>3. CASE RunEnds(w)
    BY <1>2, <2>3 DEF RunEnds
  <2>4. ASSUME NEW c, Run(w, c) PROVE ListedToolsAreServed'
    BY <1>1, <2>4 DEF Run
  <2>5. ASSUME NEW c, Load(w, c) PROVE ListedToolsAreServed'
    BY <1>1, <1>2, <2>5 DEF Load
  <2>6. CASE Open(w) \/ Write(w)
    BY <1>1, <1>2, <2>6 DEF Open, Write, Acknowledge
  <2>7. ASSUME NEW c, \/ WatchRemove(w, c)
                      \/ \E k \in WatchClient :
                            WatchAdd(w, c, k) \/ WatchPoll(w, c, k) \/ WatchPollNothing(w, c, k)
        PROVE  ListedToolsAreServed'
    BY <1>2, <2>7 DEF WatchRemove, WatchAdd, WatchPoll, WatchPollNothing, Reply
  <2> QED BY <1>3, <2>1, <2>2, <2>3, <2>4, <2>5, <2>6, <2>7 DEF Serve
<1>4. ASSUME NEW w \in Worker, Respawn(w) PROVE ListedToolsAreServed'
  BY <1>0, <1>4 DEF Respawn, WkInv, AnswersTyped, Conforming
<1>5. ASSUME NEW w \in Worker, KillWorker(w) PROVE ListedToolsAreServed'
  BY <1>1, <1>5 DEF KillWorker
<1>6. CASE FileChanges
  BY <1>1, <1>6 DEF FileChanges
<1>7. CASE UNCHANGED wkVars
  BY <1>1, <1>7 DEF wkVars
<1> QED BY <1>3, <1>4, <1>5, <1>6, <1>7 DEF WkNext

-----------------------------------------------------------------------------
(* What the stores hold and the watchers know *)

\* No two workers use the same store or watch, one client does, and nothing of
\* AllWkFaults happens.
WorkersApart ==
    /\ \A p \in Pools, v \in Worker, w \in Worker :
        /\ \A f \in {Context, Graph} : p[v] \in UsersOf(f) /\ p[w] \in UsersOf(f) => v = w
        /\ p[v] \in Watchers /\ p[w] \in Watchers => v = w
    /\ \A j, k \in WatchClient : j = k
    /\ WkFaults = {}

InTruth(f) == store[f] = [whole |-> TRUE, items |-> promised[f]]
Uses(w, f) == worker[w].pc \in {"open", "write"} /\ FileOf(worker[w].call) = f
Writes(w, f) == worker[w].pc = "write" /\ FileOf(worker[w].call) = f

\* A store is what was promised, unless a worker has truncated it; and what a
\* worker is about to write makes its own promise good.
StoreInv ==
    /\ \A f \in {Context, Graph} : InTruth(f) \/ \E w \in Worker : Writes(w, f)
    /\ \A w \in Worker, f \in {Context, Graph} : Uses(w, f) =>
        /\ poolOf[w] \in UsersOf(f)
        /\ worker[w].copy = Applied(worker[w].call, promised[f])

LEMMA StoreInvSerial == StoreInv => StoresAreSerial
  BY DEF StoreInv, StoresAreSerial, InTruth, Writes

\* The user of a store is the only one.
LEMMA OneUser ==
    ASSUME WorkersApart, WkInv, NEW f \in {Context, Graph}, NEW v \in Worker, NEW w \in Worker,
           poolOf[v] \in UsersOf(f), poolOf[w] \in UsersOf(f)
    PROVE  v = w
  BY DEF WorkersApart, WkInv

\* Steps that leave the stores and the workers that write alone.
LEMMA StoresRest ==
    ASSUME StoreInv, UNCHANGED << poolOf, store >>,
           \A f \in {Context, Graph} : promised'[f] = promised[f],
           \A w \in Worker, f \in {Context, Graph} :
               /\ Writes(w, f) => worker'[w] = worker[w]
               /\ Uses(w, f)' => worker'[w] = worker[w]
    PROVE  StoreInv'
<1>1. \A w \in Worker, f \in {Context, Graph} : Uses(w, f)' => Uses(w, f)
  BY DEF Uses
<1>2. \A w \in Worker, f \in {Context, Graph} : Writes(w, f) => Writes(w, f)'
  BY DEF Writes
<1>3. \A w \in Worker, f \in {Context, Graph} : Uses(w, f)' =>
        /\ poolOf'[w] \in UsersOf(f)
        /\ worker'[w].copy = Applied(worker'[w].call, promised'[f])
  <2> SUFFICES ASSUME NEW w \in Worker, NEW f \in {Context, Graph}, Uses(w, f)'
               PROVE  /\ poolOf'[w] \in UsersOf(f)
                      /\ worker'[w].copy = Applied(worker'[w].call, promised'[f])
    OBVIOUS
  <2>1. Uses(w, f) /\ worker'[w] = worker[w] /\ promised'[f] = promised[f]
    BY <1>1
  <2> QED BY <2>1 DEF StoreInv
<1>4. \A f \in {Context, Graph} : InTruth(f)' <=> InTruth(f)
  BY DEF InTruth
<1> QED BY <1>2, <1>3, <1>4 DEF StoreInv, InTruth, Writes, Uses, UsersOf

LEMMA LoadsStayTrue ==
    ASSUME WorkersApart, WkInv, WkInv', StoreInv, NEW w \in Worker, NEW c, c.tool \in ChangesStore, Load(w, c)
    PROVE  StoreInv'
<1> DEFINE F == FileOf(c)
<1>1. F \in {Context, Graph} /\ Doing(w, "reading") /\ worker[w].pc = "reading"
  BY FilesTwo DEF Load, Doing
<1>2. poolOf[w] \in UsersOf(F)
  BY ResultsAreServed, PoolsAreSpecialized
     DEF Load, UsersOf, FileOf, Context, Graph, ContextTools, GraphTools, ChangesStore
<1>3. \A v \in Worker : ~Uses(v, F)
  BY <1>1, <1>2, OneUser DEF StoreInv, Uses
<1>4. InTruth(F) /\ Loaded(F) = promised[F]
  <2>1. InTruth(F)
    BY <1>1, <1>3 DEF StoreInv, Writes, Uses
  <2>2. store[F].whole /\ store[F].items = promised[F]
    BY <2>1 DEF InTruth
  <2> QED BY <2>1, <2>2 DEF Loaded
<1>5. CASE ~Saves(c, Loaded(F))
  <2>1. Applied(c, promised[F]) = promised[F]
    BY <1>4, <1>5 DEF Saves
  <2>2. \A f \in {Context, Graph} : promised'[f] = promised[f]
    BY <1>1, <1>5, <2>1 DEF Load, WkInv, StoresTyped
  <2>3. UNCHANGED << worker, poolOf, store >>
    BY <1>5 DEF Load
  <2> QED BY <2>2, <2>3, StoresRest
<1>6. CASE Saves(c, Loaded(F))
  <2> DEFINE r == [pc |-> "open", call |-> c, copy |-> Applied(c, Loaded(F))]
  <2>1. worker' = [worker EXCEPT ![w] = r] /\ UNCHANGED << poolOf, store, promised >>
    BY <1>6 DEF Load
  <2>2. /\ worker'[w].pc = "open" /\ worker'[w].call = c /\ worker'[w].copy = Applied(c, promised[F])
        /\ \A v \in Worker : v # w => worker'[v] = worker[v]
    BY <1>4, <2>1 DEF WkInv, WorkersTyped
  <2>3. ASSUME NEW v \in Worker, NEW f \in {Context, Graph}, Uses(v, f)'
        PROVE  poolOf'[v] \in UsersOf(f) /\ worker'[v].copy = Applied(worker'[v].call, promised'[f])
    <3>1. CASE v = w
      BY <3>1, <2>1, <2>2, <2>3, <1>2 DEF Uses
    <3>2. CASE v # w
      <4>1. Uses(v, f) /\ worker'[v] = worker[v]
        BY <3>2, <2>2, <2>3 DEF Uses
      <4> QED BY <2>1, <4>1 DEF StoreInv
    <3> QED BY <3>1, <3>2
  <2>4. ASSUME NEW f \in {Context, Graph} PROVE InTruth(f)' \/ \E v \in Worker : Writes(v, f)'
    <3>1. CASE InTruth(f)
      BY <2>1, <3>1 DEF InTruth
    <3>2. ASSUME NEW v \in Worker, Writes(v, f) PROVE Writes(v, f)'
      <4>1. v # w
        BY <1>1, <3>2 DEF Writes
      <4> QED BY <2>2, <3>2, <4>1 DEF Writes
    <3> QED BY <3>1, <3>2 DEF StoreInv
  <2> QED BY <2>3, <2>4 DEF StoreInv, InTruth, Writes, Uses, UsersOf
<1> QED BY <1>5, <1>6

LEMMA OpensStayTrue ==
    ASSUME WorkersApart, WkInv, StoreInv, NEW w \in Worker, Open(w)
    PROVE  StoreInv'
<1>0. PICK F \in {Context, Graph} : F = FileOf(worker[w].call)
  BY FilesTwo
<1>1. /\ worker[w].pc = "open"
      /\ store' = [store EXCEPT ![F] = TornStore]
      /\ worker' = [worker EXCEPT ![w].pc = "write"]
      /\ UNCHANGED << answered, promised, poolOf >>
  BY <1>0 DEF Open, Doing, WorkersApart
<1>2. /\ worker'[w].pc = "write" /\ worker'[w].call = worker[w].call /\ worker'[w].copy = worker[w].copy
      /\ \A v \in Worker : v # w => worker'[v] = worker[v]
  BY <1>1 DEF WkInv, WorkersTyped, WorkerTyped
<1>3. Writes(w, F)' /\ \A f \in {Context, Graph} : f # F => store'[f] = store[f]
  BY <1>0, <1>1, <1>2 DEF Writes, WkInv, StoresTyped
<1>4. ASSUME NEW f \in {Context, Graph} PROVE InTruth(f)' \/ \E v \in Worker : Writes(v, f)'
  <2>1. CASE f = F
    BY <1>3, <2>1
  <2>2. CASE f # F
    <3>1. CASE InTruth(f)
      BY <1>1, <1>3, <2>2, <3>1 DEF InTruth
    <3>2. ASSUME NEW v \in Worker, Writes(v, f) PROVE Writes(v, f)'
      BY <1>1, <1>2, <3>2 DEF Writes
    <3> QED BY <3>1, <3>2 DEF StoreInv
  <2> QED BY <2>1, <2>2
<1>5. ASSUME NEW v \in Worker, NEW f \in {Context, Graph}, Uses(v, f)'
      PROVE  poolOf'[v] \in UsersOf(f) /\ worker'[v].copy = Applied(worker'[v].call, promised'[f])
  <2>1. Uses(v, f) /\ worker'[v].copy = worker[v].copy /\ worker'[v].call = worker[v].call
    BY <1>1, <1>2, <1>5 DEF Uses
  <2> QED BY <1>1, <2>1 DEF StoreInv
<1> QED BY <1>4, <1>5 DEF StoreInv, InTruth, Writes, Uses, UsersOf

LEMMA WritesStayTrue ==
    ASSUME WorkersApart, WkInv, StoreInv, NEW w \in Worker, Write(w)
    PROVE  StoreInv'
<1>0. PICK k, F : k = worker[w].call /\ F \in {Context, Graph} /\ F = FileOf(k)
  BY FilesTwo
<1>1. /\ worker[w].pc = "write" /\ poolOf' = poolOf
      /\ store' = [store EXCEPT ![F] = [whole |-> TRUE, items |-> worker[w].copy]]
      /\ worker' = [worker EXCEPT ![w] = IdleTool]
      /\ promised' = [promised EXCEPT ![F] = Applied(k, @)]
  BY <1>0 DEF Write, Doing, Acknowledge
<1>2. worker'[w].pc = "reading" /\ \A v \in Worker : v # w => worker'[v] = worker[v]
  BY <1>1 DEF WkInv, WorkersTyped, IdleTool
<1>3. promised'[F] = Applied(k, promised[F]) /\ store'[F] = [whole |-> TRUE, items |-> worker[w].copy]
  BY <1>0, <1>1 DEF WkInv, StoresTyped
<1>4. \A f \in {Context, Graph} : f # F => promised'[f] = promised[f] /\ store'[f] = store[f]
  BY <1>0, <1>1 DEF WkInv, StoresTyped
<1>5. Uses(w, F) /\ poolOf[w] \in UsersOf(F) /\ worker[w].copy = Applied(k, promised[F])
  BY <1>0, <1>1 DEF Uses, StoreInv
<1>6. InTruth(F)'
  BY <1>0, <1>3, <1>5 DEF InTruth
<1>7. ASSUME NEW f \in {Context, Graph} PROVE InTruth(f)' \/ \E v \in Worker : Writes(v, f)'
  <2>1. CASE f # F
    <3>1. CASE InTruth(f)
      BY <1>4, <2>1, <3>1 DEF InTruth
    <3>2. ASSUME NEW v \in Worker, Writes(v, f) PROVE Writes(v, f)'
      <4>1. v # w
        BY <1>0, <2>1, <3>2 DEF Writes
      <4> QED BY <1>2, <3>2, <4>1 DEF Writes
    <3> QED BY <3>1, <3>2 DEF StoreInv
  <2> QED BY <1>6, <2>1
<1>8. ASSUME NEW v \in Worker, NEW f \in {Context, Graph}, Uses(v, f)'
      PROVE  poolOf'[v] \in UsersOf(f) /\ worker'[v].copy = Applied(worker'[v].call, promised'[f])
  <2>1. v # w /\ worker'[v] = worker[v]
    BY <1>2, <1>8 DEF Uses
  <2>2. Uses(v, f)
    BY <1>8, <2>1 DEF Uses
  <2>3. f # F
    BY <1>5, <2>1, <2>2, OneUser DEF StoreInv
  <2> QED BY <1>1, <1>4, <2>1, <2>2, <2>3 DEF StoreInv
<1> QED BY <1>7, <1>8 DEF StoreInv, InTruth, Writes, Uses, UsersOf

LEMMA StoresStayTrue ==
    ASSUME WorkersApart, WkInv, WkInv', StoreInv, [WkNext]_wkVars
    PROVE  StoreInv'
<1>1. ASSUME UNCHANGED << poolOf, store, promised, worker >> PROVE StoreInv'
  BY <1>1, StoresRest
<1>2. ASSUME NEW w \in Worker, NEW r, r.pc \notin {"open", "write"}, worker[w].pc # "write",
             worker' = [worker EXCEPT ![w] = r], UNCHANGED << poolOf, store, promised >>
      PROVE  StoreInv'
  <2>1. worker'[w] = r /\ \A v \in Worker : v # w => worker'[v] = worker[v]
    BY <1>2 DEF WkInv, WorkersTyped
  <2> QED BY <1>2, <2>1, StoresRest DEF Writes, Uses
<1>3. ASSUME NEW w \in Worker, Doing(w, "reading"), worker' = [worker EXCEPT ![w].pc = "dead"],
             UNCHANGED << poolOf, store, promised >>
      PROVE  StoreInv'
  <2>1. worker'[w].pc = "dead" /\ worker[w].pc = "reading" /\ \A v \in Worker : v # w => worker'[v] = worker[v]
    BY <1>3 DEF WkInv, WorkersTyped, WorkerTyped, Doing
  <2> QED BY <1>3, <2>1, StoresRest DEF Writes, Uses
<1>4. IdleTool.pc = "reading" /\ [IdleTool EXCEPT !.pc = "dead"].pc = "dead"
  BY DEF IdleTool
<1>5. ASSUME NEW w \in Worker, Serve(w) PROVE StoreInv'
  <2>1. ASSUME NEW c, Answer(w, c) PROVE StoreInv'
    BY <1>1, <1>3, <2>1 DEF Answer
  <2>2. CASE Envelope(w)
    BY <1>1, <1>3, <2>2 DEF Envelope
  <2>3. CASE RunEnds(w)
    BY <1>2, <1>4, <2>3 DEF RunEnds, Doing
  <2>4. ASSUME NEW c, Run(w, c) PROVE StoreInv'
    BY <1>2, <2>4 DEF Run, Doing
  <2>5. ASSUME NEW c, c.tool \in ChangesStore, Load(w, c) PROVE StoreInv'
    BY <2>5, LoadsStayTrue
  <2>6. CASE Open(w) \/ Write(w)
    BY <2>6, OpensStayTrue, WritesStayTrue
  <2>7. ASSUME NEW c, \/ WatchRemove(w, c)
                      \/ \E k \in WatchClient :
                            WatchAdd(w, c, k) \/ WatchPoll(w, c, k) \/ WatchPollNothing(w, c, k)
        PROVE  StoreInv'
    BY <1>1, <2>7 DEF WatchRemove, WatchAdd, WatchPoll, WatchPollNothing, Reply
  <2>8. ASSUME NEW c, Load(w, c) PROVE c.tool \in ChangesStore
    BY <2>8 DEF Load
  <2> QED BY <1>5, <2>1, <2>2, <2>3, <2>4, <2>5, <2>6, <2>7, <2>8 DEF Serve
<1>6. ASSUME NEW w \in Worker, Respawn(w) PROVE StoreInv'
  BY <1>2, <1>4, <1>6 DEF Respawn, Doing
<1>7. ASSUME NEW w \in Worker, KillWorker(w) PROVE StoreInv'
  <2>1. worker[w].pc # "write"
    BY <1>7 DEF KillWorker, Doing, WorkersApart
  <2> QED BY <1>2, <1>4, <1>7, <2>1 DEF KillWorker
<1>8. CASE FileChanges
  BY <1>1, <1>8 DEF FileChanges
<1>9. CASE UNCHANGED wkVars
  BY <1>1, <1>9 DEF wkVars
<1> QED BY <1>5, <1>6, <1>7, <1>8, <1>9 DEF WkNext

\* The one client knows what the one watch last saw.
WatchInv ==
    /\ \A w \in Worker : watch[w].on =>
        poolOf[w] \in Watchers /\ \A k \in WatchClient : view[k].known = watch[w].snapshot
    /\ WatchersAreUpToDate

LEMMA WatchesStayTrue ==
    ASSUME WorkersApart, WkInv, WatchInv, [WkNext]_wkVars
    PROVE  WatchInv'
<1> USE DEF WatchersAreUpToDate
<1>1. ASSUME UNCHANGED << poolOf, watch, view, version >> PROVE WatchInv'
  BY <1>1 DEF WatchInv
<1>2. ASSUME NEW w \in Worker, NEW c, \/ WatchRemove(w, c)
                      \/ \E k \in WatchClient :
                            WatchAdd(w, c, k) \/ WatchPoll(w, c, k) \/ WatchPollNothing(w, c, k)
      PROVE  WatchInv'
  <2>1. poolOf' = poolOf /\ version' = version
    BY <1>2 DEF WatchRemove, WatchAdd, WatchPoll, WatchPollNothing, Reply
  <2>2. poolOf[w] \in Watchers
    BY <1>2, ResultsAreServed, PoolsAreSpecialized
       DEF WatchRemove, WatchAdd, WatchPoll, WatchPollNothing, Watching, Watches
  <2>3. \A v \in Worker : watch[v].on => v = w
    BY <2>2 DEF WatchInv, WorkersApart, WkInv
  <2>4. CASE WatchRemove(w, c)
    <3>1. view' = view /\ ~watch'[w].on /\ \A v \in Worker : v # w => watch'[v] = watch[v]
      BY <2>4 DEF WatchRemove, WkInv, WatchesTyped, NoWatch
    <3> QED BY <2>1, <3>1 DEF WatchInv
  <2>5. ASSUME NEW k \in WatchClient, WatchAdd(w, c, k) \/ WatchPoll(w, c, k) PROVE WatchInv'
    <3>1. watch'[w].snapshot = version /\ \A v \in Worker : v # w => watch'[v] = watch[v]
      BY <2>5 DEF WatchAdd, WatchPoll, WkInv, WatchesTyped
    <3>2. view'[k].known = version /\ \A j \in WatchClient : j = k
      <4>1. CASE WatchAdd(w, c, k)
        BY <4>1 DEF WatchAdd, WkInv, WatchesTyped, WorkersApart
      <4>2. CASE WatchPoll(w, c, k)
        <5>1. watch[w].on /\ view[k].known = watch[w].snapshot
          BY <4>2 DEF WatchPoll, WatchInv
        <5>2. Differs(watch[w].snapshot, version) <=> watch[w].snapshot # version
          BY DEF Differs, WorkersApart
        <5> QED BY <4>2, <5>1, <5>2 DEF WatchPoll, WkInv, WatchesTyped, WorkersApart
      <4> QED BY <2>5, <4>1, <4>2
    <3> QED BY <2>1, <2>2, <2>3, <3>1, <3>2 DEF WatchInv
  <2>6. ASSUME NEW k \in WatchClient, WatchPollNothing(w, c, k) PROVE WatchInv'
    <3>1. watch' = watch /\ view'[k].known = view[k].known /\ ~view'[k].fresh /\ \A j \in WatchClient : j = k
      BY <2>6 DEF WatchPollNothing, WkInv, WatchesTyped, WorkersApart
    <3> QED BY <2>1, <3>1 DEF WatchInv
  <2> QED BY <1>2, <2>4, <2>5, <2>6
<1>3. ASSUME NEW w \in Worker, Serve(w) PROVE WatchInv'
  <2>1. CASE Envelope(w) \/ RunEnds(w) \/ Open(w) \/ Write(w)
    BY <1>1, <2>1 DEF Envelope, RunEnds, Open, Write
  <2>2. ASSUME NEW c, Answer(w, c) \/ Run(w, c) \/ Load(w, c) PROVE WatchInv'
    BY <1>1, <2>2 DEF Answer, Run, Load
  <2> QED BY <1>2, <1>3, <2>1, <2>2 DEF Serve
<1>4. ASSUME NEW w \in Worker, Respawn(w) PROVE WatchInv'
  <2>1. /\ ~watch'[w].on /\ UNCHANGED << poolOf, view, version >>
        /\ \A v \in Worker : v # w => watch'[v] = watch[v]
    BY <1>4 DEF Respawn, WkInv, WatchesTyped, NoWatch
  <2> QED BY <2>1 DEF WatchInv
<1>5. ASSUME NEW w \in Worker, KillWorker(w) PROVE WatchInv'
  BY <1>1, <1>5 DEF KillWorker
<1>6. CASE FileChanges
  <2>1. /\ UNCHANGED << poolOf, watch >>
        /\ \A k \in WatchClient : view'[k].known = view[k].known /\ ~view'[k].fresh
    BY <1>6 DEF FileChanges, WkInv, WatchesTyped
  <2> QED BY <2>1 DEF WatchInv
<1>7. CASE UNCHANGED wkVars
  BY <1>1, <1>7 DEF wkVars
<1> QED BY <1>3, <1>4, <1>5, <1>6, <1>7 DEF WkNext

-----------------------------------------------------------------------------
(* The programs of the routes *)

Refusals == {202, 401, 403, 405}
Registers == {"register", "unregister"}
Changes(s) == s.does \in {"change", "try"}

Typed(p) == Len(p) \in 0 .. 9 /\ \A i \in 1 .. Len(p) : p[i].codes \subseteq Codes

\* After a change no step asks for a privilege or for governance, or refuses.
Gated(p) ==
    \A i, j \in 1 .. Len(p) : i < j /\ Changes(p[i]) =>
        p[j].does \notin {"needs", "govern"} /\ p[j].codes \cap Refusals = {}

\* From step n on the catalog is invalidated before the request can end.
InvalidatesFrom(p, n) ==
    \E j \in n .. Len(p) :
        p[j].does = "invalidate" /\ \A k \in n .. j - 1 : p[k].does \in {"try", "event"}

\* Whatever registers or removes a pool is followed by an invalidation.
Telling(p) ==
    \A i \in 1 .. Len(p) : Changes(p[i]) /\ p[i].op \in Registers => InvalidatesFrom(p, i + 1)

\* Nothing is changed; each change is followed by an event.
Quiet(p) == \A i \in 1 .. Len(p) : ~Changes(p[i])
Eventful(p) ==
    \A i \in 1 .. Len(p) : Changes(p[i]) => i + 1 \in 1 .. Len(p) /\ p[i + 1].does = "event"

Good(p) == Typed(p) /\ Gated(p) /\ Telling(p)

\* What the gates and the notices rest on, row by row of the dispatch.
RowOK(row) ==
    /\ Typed(row.program)
    /\ row.route \notin LateRefusals => Gated(row.program)
    /\ row.route \notin UntoldRoutes => Telling(row.program)
    /\ row.route[1] = "GET" => Quiet(row.program)
RowsOK(rows) == \A row \in rows : RowOK(row)
EarlyRowsOK(rows) ==
    \A row \in rows : row.route \notin UntracedRoutes => Eventful(row.program)

LEMMA QuietIsEventful == \A p : Quiet(p) => Eventful(p)
  BY DEF Quiet, Eventful

LEMMA RefusalIsCode == {403} \subseteq Codes
  BY DEF Codes

LEMMA ReadProgram == Good(Read) /\ Quiet(Read)
  BY DEF Good, Typed, Gated, Telling, Quiet, Read

LEMMA ConfirmProgram ==
    \A a, b \in SUBSET Codes : \A o1 : 
        o1 \notin Registers =>
            Typed(<< May(a), Try(o1), Event, May(b) >>) /\ Telling(<< May(a), Try(o1), Event, May(b) >>) /\ Eventful(<< May(a), Try(o1), Event, May(b) >>) /\ (b \cap Refusals = {} => Gated(<< May(a), Try(o1), Event, May(b) >>))
<1> SUFFICES ASSUME NEW a \in SUBSET Codes,
                    NEW b \in SUBSET Codes,
                    NEW o1,
                    o1 \notin Registers,
                    NEW p, p = << May(a), Try(o1), Event, May(b) >>
             PROVE  Typed(p) /\ Telling(p) /\ Eventful(p) /\ (b \cap Refusals = {} => Gated(p))
  OBVIOUS
<1>1. Len(p) = 4 /\ p[1] = May(a) /\ p[2] = Try(o1) /\ p[3] = Event /\ p[4] = May(b)
  OBVIOUS
<1>2. Typed(p)
  BY <1>1 DEF Typed, Event, May, Try
<1>3. b \cap Refusals = {} => Gated(p)
  BY <1>1 DEF Gated, Changes, Event, May, Try
<1>4. Telling(p)
  BY <1>1 DEF Telling, Registers, Changes, Event, May, Try
<1>5. Eventful(p)
  BY <1>1 DEF Eventful, Changes, Event, May, Try
<1> QED BY <1>2, <1>3, <1>4, <1>5

LEMMA RevokeProgram ==
    \A a \in SUBSET Codes : \A o1 : 
        o1 \notin Registers =>
            Good(<< May(a), Try(o1), Event >>) /\ Eventful(<< May(a), Try(o1), Event >>)
<1> SUFFICES ASSUME NEW a \in SUBSET Codes,
                    NEW o1,
                    o1 \notin Registers,
                    NEW p, p = << May(a), Try(o1), Event >>
             PROVE  Good(p) /\ Eventful(p)
  OBVIOUS
<1>1. Len(p) = 3 /\ p[1] = May(a) /\ p[2] = Try(o1) /\ p[3] = Event
  OBVIOUS
<1>2. Typed(p)
  BY <1>1 DEF Typed, Event, May, Try
<1>3. Gated(p)
  BY <1>1 DEF Gated, Changes, Event, May, Try
<1>4. Telling(p)
  BY <1>1 DEF Telling, Registers, Changes, Event, May, Try
<1>5. Eventful(p)
  BY <1>1 DEF Eventful, Changes, Event, May, Try
<1> QED BY <1>2, <1>3, <1>4, <1>5 DEF Good

LEMMA MayTryProgram ==
    \A a \in SUBSET Codes : \A o1 : 
        o1 \notin Registers =>
            Good(<< May(a), Try(o1) >>)
<1> SUFFICES ASSUME NEW a \in SUBSET Codes,
                    NEW o1,
                    o1 \notin Registers,
                    NEW p, p = << May(a), Try(o1) >>
             PROVE  Good(p)
  OBVIOUS
<1>1. Len(p) = 2 /\ p[1] = May(a) /\ p[2] = Try(o1)
  OBVIOUS
<1>2. Typed(p)
  BY <1>1 DEF Typed, May, Try
<1>3. Gated(p)
  BY <1>1 DEF Gated, Changes, May, Try
<1>4. Telling(p)
  BY <1>1 DEF Telling, Registers, Changes, May, Try
<1> QED BY <1>2, <1>3, <1>4 DEF Good

LEMMA ChangeProgram ==
    \A a \in SUBSET Codes : \A o1 : 
        o1 \notin Registers =>
            Good(<< Change(o1, a) >>)
<1> SUFFICES ASSUME NEW a \in SUBSET Codes,
                    NEW o1,
                    o1 \notin Registers,
                    NEW p, p = << Change(o1, a) >>
             PROVE  Good(p)
  OBVIOUS
<1>1. Len(p) = 1 /\ p[1] = Change(o1, a)
  OBVIOUS
<1>2. Typed(p)
  BY <1>1 DEF Typed, Change
<1>3. Gated(p)
  BY <1>1 DEF Gated, Changes, Change
<1>4. Telling(p)
  BY <1>1 DEF Telling, Registers, Changes, Change
<1> QED BY <1>2, <1>3, <1>4 DEF Good

LEMMA MayChangeProgram ==
    \A a, b \in SUBSET Codes : \A o1 : 
        o1 \notin Registers =>
            Good(<< May(a), Change(o1, b) >>)
<1> SUFFICES ASSUME NEW a \in SUBSET Codes,
                    NEW b \in SUBSET Codes,
                    NEW o1,
                    o1 \notin Registers,
                    NEW p, p = << May(a), Change(o1, b) >>
             PROVE  Good(p)
  OBVIOUS
<1>1. Len(p) = 2 /\ p[1] = May(a) /\ p[2] = Change(o1, b)
  OBVIOUS
<1>2. Typed(p)
  BY <1>1 DEF Typed, Change, May
<1>3. Gated(p)
  BY <1>1 DEF Gated, Changes, Change, May
<1>4. Telling(p)
  BY <1>1 DEF Telling, Registers, Changes, Change, May
<1> QED BY <1>2, <1>3, <1>4 DEF Good

LEMMA ToggleProgram ==
    \A a, b \in SUBSET Codes : \A o1, o2 : 
        o1 \notin Registers /\ o2 \notin Registers =>
            Good(<< May(a), Change(o1, b), Try(o2) >>)
<1> SUFFICES ASSUME NEW a \in SUBSET Codes,
                    NEW b \in SUBSET Codes,
                    NEW o1,
                    NEW o2,
                    o1 \notin Registers,
                    o2 \notin Registers,
                    NEW p, p = << May(a), Change(o1, b), Try(o2) >>
             PROVE  Good(p)
  OBVIOUS
<1>1. Len(p) = 3 /\ p[1] = May(a) /\ p[2] = Change(o1, b) /\ p[3] = Try(o2)
  OBVIOUS
<1>2. Typed(p)
  BY <1>1 DEF Typed, Change, May, Try
<1>3. Gated(p)
  BY <1>1 DEF Gated, Changes, Change, May, Try
<1>4. Telling(p)
  BY <1>1 DEF Telling, Registers, Changes, Change, May, Try
<1> QED BY <1>2, <1>3, <1>4 DEF Good

LEMMA ProviderProgram ==
    \A a, b \in SUBSET Codes : \A o1, o2, o3 : 
        o1 \notin Registers /\ o2 \notin Registers /\ o3 \notin Registers /\ b \cap Refusals = {} =>
            Good(<< May(a), Try(o1), Try(o2), Change(o3, b) >>)
<1> SUFFICES ASSUME NEW a \in SUBSET Codes,
                    NEW b \in SUBSET Codes,
                    NEW o1,
                    NEW o2,
                    NEW o3,
                    o1 \notin Registers,
                    o2 \notin Registers,
                    o3 \notin Registers,
                    b \cap Refusals = {},
                    NEW p, p = << May(a), Try(o1), Try(o2), Change(o3, b) >>
             PROVE  Good(p)
  OBVIOUS
<1>1. Len(p) = 4 /\ p[1] = May(a) /\ p[2] = Try(o1) /\ p[3] = Try(o2) /\ p[4] = Change(o3, b)
  OBVIOUS
<1>2. Typed(p)
  BY <1>1 DEF Typed, Change, May, Try
<1>3. Gated(p)
  BY <1>1 DEF Gated, Changes, Change, May, Try
<1>4. Telling(p)
  BY <1>1 DEF Telling, Registers, Changes, Change, May, Try
<1> QED BY <1>2, <1>3, <1>4 DEF Good

LEMMA EndsProgram ==
    \A a \in SUBSET Codes : 
            Good(<< Ends(a) >>) /\ Quiet(<< Ends(a) >>)
<1> SUFFICES ASSUME NEW a \in SUBSET Codes,
                    NEW p, p = << Ends(a) >>
             PROVE  Good(p) /\ Quiet(p)
  OBVIOUS
<1>1. Len(p) = 1 /\ p[1] = Ends(a)
  OBVIOUS
<1>2. Typed(p)
  BY <1>1 DEF Typed, Ends
<1>3. Gated(p)
  BY <1>1 DEF Gated, Changes, Ends
<1>4. Telling(p)
  BY <1>1 DEF Telling, Registers, Changes, Ends
<1>5. Quiet(p)
  BY <1>1 DEF Quiet, Changes, Ends
<1> QED BY <1>2, <1>3, <1>4, <1>5 DEF Good

LEMMA ProfileProgram ==
    \A a, b \in SUBSET Codes : 
            Good(<< Needs, May(a), Govern, Ends(b) >>) /\ Quiet(<< Needs, May(a), Govern, Ends(b) >>)
<1> SUFFICES ASSUME NEW a \in SUBSET Codes,
                    NEW b \in SUBSET Codes,
                    NEW p, p = << Needs, May(a), Govern, Ends(b) >>
             PROVE  Good(p) /\ Quiet(p)
  OBVIOUS
<1>1. Len(p) = 4 /\ p[1] = Needs /\ p[2] = May(a) /\ p[3] = Govern /\ p[4] = Ends(b)
  OBVIOUS
<1>2. Typed(p)
  BY <1>1, RefusalIsCode DEF Typed, Ends, Govern, May, Needs
<1>3. Gated(p)
  BY <1>1 DEF Gated, Changes, Ends, Govern, May, Needs
<1>4. Telling(p)
  BY <1>1 DEF Telling, Registers, Changes, Ends, Govern, May, Needs
<1>5. Quiet(p)
  BY <1>1 DEF Quiet, Changes, Ends, Govern, May, Needs
<1> QED BY <1>2, <1>3, <1>4, <1>5 DEF Good

LEMMA MayProgram ==
    \A a \in SUBSET Codes : 
            Good(<< May(a) >>) /\ Quiet(<< May(a) >>)
<1> SUFFICES ASSUME NEW a \in SUBSET Codes,
                    NEW p, p = << May(a) >>
             PROVE  Good(p) /\ Quiet(p)
  OBVIOUS
<1>1. Len(p) = 1 /\ p[1] = May(a)
  OBVIOUS
<1>2. Typed(p)
  BY <1>1 DEF Typed, May
<1>3. Gated(p)
  BY <1>1 DEF Gated, Changes, May
<1>4. Telling(p)
  BY <1>1 DEF Telling, Registers, Changes, May
<1>5. Quiet(p)
  BY <1>1 DEF Quiet, Changes, May
<1> QED BY <1>2, <1>3, <1>4, <1>5 DEF Good

LEMMA RegisterProgram ==
    \A a, b \in SUBSET Codes : \A o1 : 
            Good(<< May(a), Change(o1, b), Save, Invalidate >>)
<1> SUFFICES ASSUME NEW a \in SUBSET Codes,
                    NEW b \in SUBSET Codes,
                    NEW o1,
                    NEW p, p = << May(a), Change(o1, b), Save, Invalidate >>
             PROVE  Good(p)
  OBVIOUS
<1>1. Len(p) = 4 /\ p[1] = May(a) /\ p[2] = Change(o1, b) /\ p[3] = Save /\ p[4] = Invalidate
  OBVIOUS
<1>2. Typed(p)
  BY <1>1 DEF Typed, Change, Invalidate, May, Save, Try
<1>3. Gated(p)
  BY <1>1 DEF Gated, Changes, Change, Invalidate, May, Save, Try
<1>4. InvalidatesFrom(p, 3)
  BY <1>1 DEF InvalidatesFrom, Save, Try, Invalidate
<1>5. Telling(p)
  BY <1>1, <1>4 DEF Telling, Registers, Changes, Change, Invalidate, May, Save, Try
<1> QED BY <1>2, <1>3, <1>5 DEF Good

LEMMA InstancesProgram ==
    \A a, b \in SUBSET Codes : \A o1 : 
        o1 \notin Registers =>
            Good(<< May(a), Change(o1, b), Invalidate >>)
<1> SUFFICES ASSUME NEW a \in SUBSET Codes,
                    NEW b \in SUBSET Codes,
                    NEW o1,
                    o1 \notin Registers,
                    NEW p, p = << May(a), Change(o1, b), Invalidate >>
             PROVE  Good(p)
  OBVIOUS
<1>1. Len(p) = 3 /\ p[1] = May(a) /\ p[2] = Change(o1, b) /\ p[3] = Invalidate
  OBVIOUS
<1>2. Typed(p)
  BY <1>1 DEF Typed, Change, Invalidate, May
<1>3. Gated(p)
  BY <1>1 DEF Gated, Changes, Change, Invalidate, May
<1>4. Telling(p)
  BY <1>1 DEF Telling, Registers, Changes, Change, Invalidate, May
<1> QED BY <1>2, <1>3, <1>4 DEF Good

LEMMA RestartProgram ==
    \A a, b, c \in SUBSET Codes : \A o1, o2, o3 : 
        c \cap Refusals = {} =>
            Typed(<< May(a), Change(o1, b), Change(o2, c), Try(o3), Save, Invalidate >>) /\ Gated(<< May(a), Change(o1, b), Change(o2, c), Try(o3), Save, Invalidate >>)
<1> SUFFICES ASSUME NEW a \in SUBSET Codes,
                    NEW b \in SUBSET Codes,
                    NEW c \in SUBSET Codes,
                    NEW o1,
                    NEW o2,
                    NEW o3,
                    c \cap Refusals = {},
                    NEW p, p = << May(a), Change(o1, b), Change(o2, c), Try(o3), Save, Invalidate >>
             PROVE  Typed(p) /\ Gated(p)
  OBVIOUS
<1>1. Len(p) = 6 /\ p[1] = May(a) /\ p[2] = Change(o1, b) /\ p[3] = Change(o2, c) /\ p[4] = Try(o3) /\ p[5] = Save /\ p[6] = Invalidate
  OBVIOUS
<1>2. Typed(p)
  BY <1>1 DEF Typed, Change, Invalidate, May, Save, Try
<1>3. Gated(p)
  BY <1>1 DEF Gated, Changes, Change, Invalidate, May, Save, Try
<1> QED BY <1>2, <1>3

LEMMA LifecycleProgram ==
    \A o1 : 
        o1 \notin Registers =>
            Good(<< Try(o1), Event >>) /\ Eventful(<< Try(o1), Event >>)
<1> SUFFICES ASSUME NEW o1,
                    o1 \notin Registers,
                    NEW p, p = << Try(o1), Event >>
             PROVE  Good(p) /\ Eventful(p)
  OBVIOUS
<1>1. Len(p) = 2 /\ p[1] = Try(o1) /\ p[2] = Event
  OBVIOUS
<1>2. Typed(p)
  BY <1>1 DEF Typed, Event, Try
<1>3. Gated(p)
  BY <1>1 DEF Gated, Changes, Event, Try
<1>4. Telling(p)
  BY <1>1 DEF Telling, Registers, Changes, Event, Try
<1>5. Eventful(p)
  BY <1>1 DEF Eventful, Changes, Event, Try
<1> QED BY <1>2, <1>3, <1>4, <1>5 DEF Good

LEMMA GatewayRestartProgram ==
    \A a \in SUBSET Codes : \A o1, o2 : 
        o1 \notin Registers /\ o2 \notin Registers =>
            Good(<< May(a), Try(o1), Try(o2), Event >>)
<1> SUFFICES ASSUME NEW a \in SUBSET Codes,
                    NEW o1,
                    NEW o2,
                    o1 \notin Registers,
                    o2 \notin Registers,
                    NEW p, p = << May(a), Try(o1), Try(o2), Event >>
             PROVE  Good(p)
  OBVIOUS
<1>1. Len(p) = 4 /\ p[1] = May(a) /\ p[2] = Try(o1) /\ p[3] = Try(o2) /\ p[4] = Event
  OBVIOUS
<1>2. Typed(p)
  BY <1>1 DEF Typed, Event, May, Try
<1>3. Gated(p)
  BY <1>1 DEF Gated, Changes, Event, May, Try
<1>4. Telling(p)
  BY <1>1 DEF Telling, Registers, Changes, Event, May, Try
<1> QED BY <1>2, <1>3, <1>4 DEF Good

LEMMA TryProgram ==
    \A o1 : 
        o1 \notin Registers =>
            Good(<< Try(o1) >>)
<1> SUFFICES ASSUME NEW o1,
                    o1 \notin Registers,
                    NEW p, p = << Try(o1) >>
             PROVE  Good(p)
  OBVIOUS
<1>1. Len(p) = 1 /\ p[1] = Try(o1)
  OBVIOUS
<1>2. Typed(p)
  BY <1>1 DEF Typed, Try
<1>3. Gated(p)
  BY <1>1 DEF Gated, Changes, Try
<1>4. Telling(p)
  BY <1>1 DEF Telling, Registers, Changes, Try
<1> QED BY <1>2, <1>3, <1>4 DEF Good

LEMMA SetupProgram ==
    \A a, b \in SUBSET Codes : \A o1 : 
        o1 \notin Registers =>
            Good(<< May(a), Change(o1, b), Event >>)
<1> SUFFICES ASSUME NEW a \in SUBSET Codes,
                    NEW b \in SUBSET Codes,
                    NEW o1,
                    o1 \notin Registers,
                    NEW p, p = << May(a), Change(o1, b), Event >>
             PROVE  Good(p)
  OBVIOUS
<1>1. Len(p) = 3 /\ p[1] = May(a) /\ p[2] = Change(o1, b) /\ p[3] = Event
  OBVIOUS
<1>2. Typed(p)
  BY <1>1 DEF Typed, Change, Event, May
<1>3. Gated(p)
  BY <1>1 DEF Gated, Changes, Change, Event, May
<1>4. Telling(p)
  BY <1>1 DEF Telling, Registers, Changes, Change, Event, May
<1> QED BY <1>2, <1>3, <1>4 DEF Good

LEMMA InstallProgram ==
    \A a, b, c \in SUBSET Codes : \A o1, o2, o3 : 
        o1 \notin Registers /\ o2 \notin Registers /\ o3 \notin Registers /\ b \cap Refusals = {} /\ c \cap Refusals = {} =>
            Good(<< May(a), Try(o1), May(b), Try(o2), Try(o3), May(c) >>)
<1> SUFFICES ASSUME NEW a \in SUBSET Codes,
                    NEW b \in SUBSET Codes,
                    NEW c \in SUBSET Codes,
                    NEW o1,
                    NEW o2,
                    NEW o3,
                    o1 \notin Registers,
                    o2 \notin Registers,
                    o3 \notin Registers,
                    b \cap Refusals = {},
                    c \cap Refusals = {},
                    NEW p, p = << May(a), Try(o1), May(b), Try(o2), Try(o3), May(c) >>
             PROVE  Good(p)
  OBVIOUS
<1>1. Len(p) = 6 /\ p[1] = May(a) /\ p[2] = Try(o1) /\ p[3] = May(b) /\ p[4] = Try(o2) /\ p[5] = Try(o3) /\ p[6] = May(c)
  OBVIOUS
<1>2. Typed(p)
  BY <1>1 DEF Typed, May, Try
<1>3. Gated(p)
  BY <1>1 DEF Gated, Changes, May, Try
<1>4. Telling(p)
  BY <1>1 DEF Telling, Registers, Changes, May, Try
<1> QED BY <1>2, <1>3, <1>4 DEF Good

LEMMA ServerProgram ==
    \A a, b, c \in SUBSET Codes : \A o1 : 
        o1 \notin Registers =>
            Good(<< May(a), Needs, Govern, May(b), Change(o1, c) >>)
<1> SUFFICES ASSUME NEW a \in SUBSET Codes,
                    NEW b \in SUBSET Codes,
                    NEW c \in SUBSET Codes,
                    NEW o1,
                    o1 \notin Registers,
                    NEW p, p = << May(a), Needs, Govern, May(b), Change(o1, c) >>
             PROVE  Good(p)
  OBVIOUS
<1>1. Len(p) = 5 /\ p[1] = May(a) /\ p[2] = Needs /\ p[3] = Govern /\ p[4] = May(b) /\ p[5] = Change(o1, c)
  OBVIOUS
<1>2. Typed(p)
  BY <1>1, RefusalIsCode DEF Typed, Change, Govern, May, Needs
<1>3. Gated(p)
  BY <1>1 DEF Gated, Changes, Change, Govern, May, Needs
<1>4. Telling(p)
  BY <1>1 DEF Telling, Registers, Changes, Change, Govern, May, Needs
<1> QED BY <1>2, <1>3, <1>4 DEF Good

LEMMA GovernedProgram ==
    \A a \in SUBSET Codes : \A o1 : 
        o1 \notin Registers =>
            Good(<< Needs, Govern, Change(o1, a) >>)
<1> SUFFICES ASSUME NEW a \in SUBSET Codes,
                    NEW o1,
                    o1 \notin Registers,
                    NEW p, p = << Needs, Govern, Change(o1, a) >>
             PROVE  Good(p)
  OBVIOUS
<1>1. Len(p) = 3 /\ p[1] = Needs /\ p[2] = Govern /\ p[3] = Change(o1, a)
  OBVIOUS
<1>2. Typed(p)
  BY <1>1, RefusalIsCode DEF Typed, Change, Govern, Needs
<1>3. Gated(p)
  BY <1>1 DEF Gated, Changes, Change, Govern, Needs
<1>4. Telling(p)
  BY <1>1 DEF Telling, Registers, Changes, Change, Govern, Needs
<1> QED BY <1>2, <1>3, <1>4 DEF Good

LEMMA AgentProgram ==
    \A a, b, c \in SUBSET Codes : \A o1, o2 : 
            Typed(<< May(a), Needs, Govern, May(b), Change(o1, c), Try(o2) >>) /\ Gated(<< May(a), Needs, Govern, May(b), Change(o1, c), Try(o2) >>)
<1> SUFFICES ASSUME NEW a \in SUBSET Codes,
                    NEW b \in SUBSET Codes,
                    NEW c \in SUBSET Codes,
                    NEW o1,
                    NEW o2,
                    NEW p, p = << May(a), Needs, Govern, May(b), Change(o1, c), Try(o2) >>
             PROVE  Typed(p) /\ Gated(p)
  OBVIOUS
<1>1. Len(p) = 6 /\ p[1] = May(a) /\ p[2] = Needs /\ p[3] = Govern /\ p[4] = May(b) /\ p[5] = Change(o1, c) /\ p[6] = Try(o2)
  OBVIOUS
<1>2. Typed(p)
  BY <1>1, RefusalIsCode DEF Typed, Change, Govern, May, Needs, Try
<1>3. Gated(p)
  BY <1>1 DEF Gated, Changes, Change, Govern, May, Needs, Try
<1> QED BY <1>2, <1>3

LEMMA AgentRemoveProgram ==
    \A a \in SUBSET Codes : \A o1, o2 : 
            Typed(<< Needs, Govern, Change(o1, a), Try(o2) >>) /\ Gated(<< Needs, Govern, Change(o1, a), Try(o2) >>)
<1> SUFFICES ASSUME NEW a \in SUBSET Codes,
                    NEW o1,
                    NEW o2,
                    NEW p, p = << Needs, Govern, Change(o1, a), Try(o2) >>
             PROVE  Typed(p) /\ Gated(p)
  OBVIOUS
<1>1. Len(p) = 4 /\ p[1] = Needs /\ p[2] = Govern /\ p[3] = Change(o1, a) /\ p[4] = Try(o2)
  OBVIOUS
<1>2. Typed(p)
  BY <1>1, RefusalIsCode DEF Typed, Change, Govern, Needs, Try
<1>3. Gated(p)
  BY <1>1 DEF Gated, Changes, Change, Govern, Needs, Try
<1> QED BY <1>2, <1>3

LEMMA GroupProgram ==
    \A a, b \in SUBSET Codes : \A o1 : 
        o1 \notin Registers =>
            Good(<< Needs, May(a), Change(o1, b) >>)
<1> SUFFICES ASSUME NEW a \in SUBSET Codes,
                    NEW b \in SUBSET Codes,
                    NEW o1,
                    o1 \notin Registers,
                    NEW p, p = << Needs, May(a), Change(o1, b) >>
             PROVE  Good(p)
  OBVIOUS
<1>1. Len(p) = 3 /\ p[1] = Needs /\ p[2] = May(a) /\ p[3] = Change(o1, b)
  OBVIOUS
<1>2. Typed(p)
  BY <1>1, RefusalIsCode DEF Typed, Change, May, Needs
<1>3. Gated(p)
  BY <1>1 DEF Gated, Changes, Change, May, Needs
<1>4. Telling(p)
  BY <1>1 DEF Telling, Registers, Changes, Change, May, Needs
<1> QED BY <1>2, <1>3, <1>4 DEF Good

LEMMA GroupRemoveProgram ==
    \A a \in SUBSET Codes : \A o1 : 
        o1 \notin Registers =>
            Good(<< Needs, Change(o1, a) >>)
<1> SUFFICES ASSUME NEW a \in SUBSET Codes,
                    NEW o1,
                    o1 \notin Registers,
                    NEW p, p = << Needs, Change(o1, a) >>
             PROVE  Good(p)
  OBVIOUS
<1>1. Len(p) = 2 /\ p[1] = Needs /\ p[2] = Change(o1, a)
  OBVIOUS
<1>2. Typed(p)
  BY <1>1, RefusalIsCode DEF Typed, Change, Needs
<1>3. Gated(p)
  BY <1>1 DEF Gated, Changes, Change, Needs
<1>4. Telling(p)
  BY <1>1 DEF Telling, Registers, Changes, Change, Needs
<1> QED BY <1>2, <1>3, <1>4 DEF Good

LEMMA ClientProgram ==
    \A a, b \in SUBSET Codes : \A o1 : 
        o1 \notin Registers =>
            Good(<< Needs, Govern, May(a), Change(o1, b) >>)
<1> SUFFICES ASSUME NEW a \in SUBSET Codes,
                    NEW b \in SUBSET Codes,
                    NEW o1,
                    o1 \notin Registers,
                    NEW p, p = << Needs, Govern, May(a), Change(o1, b) >>
             PROVE  Good(p)
  OBVIOUS
<1>1. Len(p) = 4 /\ p[1] = Needs /\ p[2] = Govern /\ p[3] = May(a) /\ p[4] = Change(o1, b)
  OBVIOUS
<1>2. Typed(p)
  BY <1>1, RefusalIsCode DEF Typed, Change, Govern, May, Needs
<1>3. Gated(p)
  BY <1>1 DEF Gated, Changes, Change, Govern, May, Needs
<1>4. Telling(p)
  BY <1>1 DEF Telling, Registers, Changes, Change, Govern, May, Needs
<1> QED BY <1>2, <1>3, <1>4 DEF Good

LEMMA AutonomousProgram ==
    \A a, b \in SUBSET Codes : \A o1 : 
        o1 \notin Registers =>
            Good(<< Needs, May(a), Govern, Change(o1, b) >>)
<1> SUFFICES ASSUME NEW a \in SUBSET Codes,
                    NEW b \in SUBSET Codes,
                    NEW o1,
                    o1 \notin Registers,
                    NEW p, p = << Needs, May(a), Govern, Change(o1, b) >>
             PROVE  Good(p)
  OBVIOUS
<1>1. Len(p) = 4 /\ p[1] = Needs /\ p[2] = May(a) /\ p[3] = Govern /\ p[4] = Change(o1, b)
  OBVIOUS
<1>2. Typed(p)
  BY <1>1, RefusalIsCode DEF Typed, Change, Govern, May, Needs
<1>3. Gated(p)
  BY <1>1 DEF Gated, Changes, Change, Govern, May, Needs
<1>4. Telling(p)
  BY <1>1 DEF Telling, Registers, Changes, Change, Govern, May, Needs
<1> QED BY <1>2, <1>3, <1>4 DEF Good

LEMMA NeedsEndsProgram ==
    \A a \in SUBSET Codes : 
            Good(<< Needs, Ends(a) >>) /\ Quiet(<< Needs, Ends(a) >>)
<1> SUFFICES ASSUME NEW a \in SUBSET Codes,
                    NEW p, p = << Needs, Ends(a) >>
             PROVE  Good(p) /\ Quiet(p)
  OBVIOUS
<1>1. Len(p) = 2 /\ p[1] = Needs /\ p[2] = Ends(a)
  OBVIOUS
<1>2. Typed(p)
  BY <1>1, RefusalIsCode DEF Typed, Ends, Needs
<1>3. Gated(p)
  BY <1>1 DEF Gated, Changes, Ends, Needs
<1>4. Telling(p)
  BY <1>1 DEF Telling, Registers, Changes, Ends, Needs
<1>5. Quiet(p)
  BY <1>1 DEF Quiet, Changes, Ends, Needs
<1> QED BY <1>2, <1>3, <1>4, <1>5 DEF Good

LEMMA EventStreamOK == RowsOK(EventStream)
    BY ReadProgram DEF EventStream, Get, Route, Codes, Refusals, Registers, RowsOK, RowOK, Good

LEMMA AgenticManifestOK == RowsOK(AgenticManifest)
    BY MayProgram DEF AgenticManifest, GetMay, Route, Codes, Refusals, Registers, RowsOK, RowOK,
     Good

LEMMA AgenticDocumentOK == RowsOK(AgenticDocument)
    BY MayProgram DEF AgenticDocument, GetMay, Route, Codes, Refusals, Registers, RowsOK, RowOK,
     Good

LEMMA SupervisorReadsOK == RowsOK(SupervisorReads)
    BY MayProgram DEF SupervisorReads, GetMay, Route, Codes, Refusals, Registers, RowsOK, RowOK,
     Good

LEMMA SupervisorSelectOK == RowsOK(SupervisorSelect)
    BY ConfirmProgram DEF SupervisorSelect, Post, Route, Codes, Refusals, Registers, RowsOK,
     RowOK, Good

LEMMA SupervisorGenerateOK == RowsOK(SupervisorGenerate)
    BY ConfirmProgram DEF SupervisorGenerate, Post, Route, Codes, Refusals, Registers, RowsOK,
     RowOK, Good

LEMMA SupervisorRevokeOK == RowsOK(SupervisorRevoke)
    BY RevokeProgram DEF SupervisorRevoke, Post, Route, Codes, Refusals, Registers, RowsOK, RowOK,
     Good

LEMMA SupervisorHeartbeatOK == RowsOK(SupervisorHeartbeat)
    BY MayTryProgram DEF SupervisorHeartbeat, Post, Route, Codes, Refusals, Registers, RowsOK,
     RowOK, Good

LEMMA SupervisorConfirmOK == RowsOK(SupervisorConfirm)
    BY ConfirmProgram DEF SupervisorConfirm, Post, Route, LateRefusals, Codes, Refusals,
     Registers, RowsOK, RowOK, Good

LEMMA SelfTestsOK == RowsOK(SelfTests)
    BY ReadProgram, ChangeProgram DEF SelfTests, Get, Post, Route, Codes, Refusals, Registers,
     RowsOK, RowOK, Good

LEMMA ActivityReadsOK == RowsOK(ActivityReads)
    BY ReadProgram DEF ActivityReads, Get, Route, Codes, Refusals, Registers, RowsOK, RowOK, Good

LEMMA HealthReadsOK == RowsOK(HealthReads)
    BY ReadProgram DEF HealthReads, Get, Route, Codes, Refusals, Registers, RowsOK, RowOK, Good

LEMMA HealthSummaryOK == RowsOK(HealthSummary)
    BY ReadProgram DEF HealthSummary, Get, Route, Codes, Refusals, Registers, RowsOK, RowOK, Good

LEMMA DiagnosticsReadsOK == RowsOK(DiagnosticsReads)
    BY ReadProgram DEF DiagnosticsReads, Get, Route, Codes, Refusals, Registers, RowsOK, RowOK,
     Good

LEMMA DiagnosticsClearOK == RowsOK(DiagnosticsClear)
    BY MayChangeProgram DEF DiagnosticsClear, Post, Route, Codes, Refusals, Registers, RowsOK,
     RowOK, Good

LEMMA HostReadsOK == RowsOK(HostReads)
    BY ReadProgram DEF HostReads, Get, Route, Codes, Refusals, Registers, RowsOK, RowOK, Good

LEMMA ClaudeStatusOK == RowsOK(ClaudeStatus)
    BY ReadProgram DEF ClaudeStatus, Get, Route, Codes, Refusals, Registers, RowsOK, RowOK, Good

LEMMA ClaudeToggleOK == RowsOK(ClaudeToggle)
    BY ToggleProgram DEF ClaudeToggle, Post, Route, Codes, Refusals, Registers, RowsOK, RowOK,
     Good

LEMMA ProviderRoutesOK == RowsOK(ProviderRoutes)
    BY ReadProgram, ProviderProgram DEF ProviderRoutes, Get, Post, Route, Codes, Refusals,
     Registers, RowsOK, RowOK, Good

LEMMA DashboardReadsOK == RowsOK(DashboardReads)
    BY ReadProgram DEF DashboardReads, Get, Route, Codes, Refusals, Registers, RowsOK, RowOK, Good

LEMMA WorkflowPostOK == RowsOK(WorkflowPost)
    BY MayChangeProgram DEF WorkflowPost, Post, Route, Codes, Refusals, Registers, RowsOK, RowOK,
     Good

LEMMA WorkflowRoutesOK == RowsOK(WorkflowRoutes)
    BY MayProgram, MayChangeProgram, EndsProgram DEF WorkflowRoutes, GetMay, Post, Route, Routes,
     Codes, Refusals, Registers, RowsOK, RowOK, Good

LEMMA DocumentReadsOK == RowsOK(DocumentReads)
    BY ReadProgram DEF DocumentReads, Get, Route, Codes, Refusals, Registers, RowsOK, RowOK, Good

LEMMA OnboardingReadsOK == RowsOK(OnboardingReads)
    BY MayProgram, ReadProgram DEF OnboardingReads, Get, GetMay, Route, Codes, Refusals,
     Registers, RowsOK, RowOK, Good

LEMMA GovernanceReadsOK == RowsOK(GovernanceReads)
    BY MayProgram, ReadProgram DEF GovernanceReads, Get, GetMay, Route, Codes, Refusals,
     Registers, RowsOK, RowOK, Good

LEMMA ProfilePostOK == RowsOK(ProfilePost)
    BY ProfileProgram DEF ProfilePost, Post, Route, Codes, Refusals, Registers, RowsOK, RowOK,
     Good

LEMMA DecisionsGetOK == RowsOK(DecisionsGet)
    BY ReadProgram DEF DecisionsGet, Get, Route, Codes, Refusals, Registers, RowsOK, RowOK, Good

LEMMA DecisionsPostOK == RowsOK(DecisionsPost)
    BY MayProgram DEF DecisionsPost, Post, Route, Codes, Refusals, Registers, RowsOK, RowOK, Good

LEMMA PoolReadsOK == RowsOK(PoolReads)
    BY MayProgram, ReadProgram, EndsProgram DEF PoolReads, Get, GetMay, Routes, Route, Codes,
     Refusals, Registers, RowsOK, RowOK, Good

LEMMA PoolPostOK == RowsOK(PoolPost)
    BY RegisterProgram DEF PoolPost, Post, Route, Codes, Refusals, Registers, RowsOK, RowOK, Good

LEMMA PoolActionsOK == RowsOK(PoolActions)
    BY EndsProgram, RegisterProgram, InstancesProgram DEF PoolActions, Post, Routes, Route, Codes,
     Refusals, Registers, RowsOK, RowOK, Good

LEMMA PoolRestartOK == RowsOK(PoolRestart)
    BY RestartProgram DEF PoolRestart, Post, Route, UntoldRoutes, Codes, Refusals, Registers,
     RowsOK, RowOK, Good

LEMMA PoolLeaseOK == RowsOK(PoolLease)
    BY MayChangeProgram DEF PoolLease, Post, Route, Codes, Refusals, Registers, RowsOK, RowOK,
     Good

LEMMA TelemetryReadsOK == RowsOK(TelemetryReads)
    BY ReadProgram DEF TelemetryReads, Get, Route, Codes, Refusals, Registers, RowsOK, RowOK, Good

LEMMA TelemetryHeartbeatOK == RowsOK(TelemetryHeartbeat)
    BY MayChangeProgram DEF TelemetryHeartbeat, Post, Route, Codes, Refusals, Registers, RowsOK,
     RowOK, Good

LEMMA LeaseReleaseOK == RowsOK(LeaseRelease)
    BY MayChangeProgram, EndsProgram DEF LeaseRelease, Post, Route, Codes, Refusals, Registers,
     RowsOK, RowOK, Good

LEMMA GatewayReadsOK == RowsOK(GatewayReads)
    BY ReadProgram DEF GatewayReads, Get, Route, Codes, Refusals, Registers, RowsOK, RowOK, Good

LEMMA GatewayLifecycleOK == RowsOK(GatewayLifecycle)
    BY LifecycleProgram, GatewayRestartProgram DEF GatewayLifecycle, Post, Route, Codes, Refusals,
     Registers, RowsOK, RowOK, Good

LEMMA ClientReadsOK == RowsOK(ClientReads)
    BY ReadProgram DEF ClientReads, Get, Route, Codes, Refusals, Registers, RowsOK, RowOK, Good

LEMMA ClientRoutesOK == RowsOK(ClientRoutes)
    BY ReadProgram, MayProgram, TryProgram DEF ClientRoutes, Get, Post, Route, Codes, Refusals,
     Registers, RowsOK, RowOK, Good

LEMMA SetupStartOK == RowsOK(SetupStart)
    BY MayChangeProgram DEF SetupStart, Post, Route, Codes, Refusals, Registers, RowsOK, RowOK,
     Good

LEMMA SetupCompleteOK == RowsOK(SetupComplete)
    BY SetupProgram DEF SetupComplete, Post, Route, Codes, Refusals, Registers, RowsOK, RowOK,
     Good

LEMMA SetupDismissOK == RowsOK(SetupDismiss)
    BY ChangeProgram DEF SetupDismiss, Post, Route, Codes, Refusals, Registers, RowsOK, RowOK,
     Good

LEMMA DependencyReadsOK == RowsOK(DependencyReads)
    BY ReadProgram DEF DependencyReads, Get, Route, Codes, Refusals, Registers, RowsOK, RowOK,
     Good

LEMMA DependencyInstallOK == RowsOK(DependencyInstall)
    BY InstallProgram DEF DependencyInstall, Post, Route, Codes, Refusals, Registers, RowsOK,
     RowOK, Good

LEMMA DependencyOtherOK == RowsOK(DependencyOther)
    BY EndsProgram DEF DependencyOther, Routes, Codes, Refusals, Registers, RowsOK, RowOK, Good

LEMMA TemplateRoutesOK == RowsOK(TemplateRoutes)
    BY ReadProgram, MayChangeProgram DEF TemplateRoutes, Get, Post, Route, Codes, Refusals,
     Registers, RowsOK, RowOK, Good

LEMMA PlatformReadsOK == RowsOK(PlatformReads)
    BY MayProgram, ReadProgram DEF PlatformReads, Get, GetMay, Route, PlatformConfig, Codes,
     Refusals, Registers, RowsOK, RowOK, Good

LEMMA AdvancedModeOK == RowsOK(AdvancedMode)
    BY MayChangeProgram DEF AdvancedMode, Post, Route, Codes, Refusals, Registers, RowsOK, RowOK,
     Good

LEMMA ConfigWritesOK == RowsOK(ConfigWrites)
    BY MayChangeProgram DEF ConfigWrites, Post, Route, Codes, Refusals, Registers, RowsOK, RowOK,
     Good

LEMMA AppleHostsOK == RowsOK(AppleHosts)
    BY MayChangeProgram DEF AppleHosts, Post, Route, Codes, Refusals, Registers, RowsOK, RowOK,
     Good

LEMMA ServerPostOK == RowsOK(ServerPost)
    BY ServerProgram DEF ServerPost, Post, Route, Codes, Refusals, Registers, RowsOK, RowOK, Good

LEMMA ServerRemoveOK == RowsOK(ServerRemove)
    BY GovernedProgram DEF ServerRemove, Post, Route, Codes, Refusals, Registers, RowsOK, RowOK,
     Good

LEMMA AgentPostOK == RowsOK(AgentPost)
    BY AgentProgram DEF AgentPost, Post, Route, UntoldRoutes, Codes, Refusals, Registers, RowsOK,
     RowOK, Good

LEMMA AgentRemoveOK == RowsOK(AgentRemove)
    BY AgentRemoveProgram DEF AgentRemove, Post, Route, UntoldRoutes, Codes, Refusals, Registers,
     RowsOK, RowOK, Good

LEMMA GroupRoutesOK == RowsOK(GroupRoutes)
    BY GroupProgram, GroupRemoveProgram DEF GroupRoutes, Post, Route, Codes, Refusals, Registers,
     RowsOK, RowOK, Good

LEMMA ClientRosterOK == RowsOK(ClientRoster)
    BY MayProgram, ReadProgram, EndsProgram DEF ClientRoster, Get, GetMay, Routes, Route, Codes,
     Refusals, Registers, RowsOK, RowOK, Good

LEMMA ClientPostOK == RowsOK(ClientPost)
    BY ClientProgram DEF ClientPost, Post, Route, Codes, Refusals, Registers, RowsOK, RowOK, Good

LEMMA ClientSwitchesOK == RowsOK(ClientSwitches)
    BY GovernedProgram DEF ClientSwitches, Post, Route, Codes, Refusals, Registers, RowsOK, RowOK,
     Good

LEMMA ClientPrivilegesOK == RowsOK(ClientPrivileges)
    BY ClientProgram DEF ClientPrivileges, Post, Route, Codes, Refusals, Registers, RowsOK, RowOK,
     Good

LEMMA ClientAutonomousOK == RowsOK(ClientAutonomous)
    BY AutonomousProgram DEF ClientAutonomous, Post, Route, Codes, Refusals, Registers, RowsOK,
     RowOK, Good

LEMMA ClientDeleteOK == RowsOK(ClientDelete)
    BY GovernedProgram, NeedsEndsProgram DEF ClientDelete, Route, Routes, Codes, Refusals,
     Registers, RowsOK, RowOK, Good

LEMMA ModuleStateOK == RowsOK(ModuleState)
    BY AutonomousProgram DEF ModuleState, Post, Route, Codes, Refusals, Registers, RowsOK, RowOK,
     Good

LEMMA ApprovalRoutesOK == RowsOK(ApprovalRoutes)
    BY ReadProgram, GroupProgram, EndsProgram DEF ApprovalRoutes, Get, Post, Routes, Route, Codes,
     Refusals, Registers, RowsOK, RowOK, Good

LEMMA CluRoutesOK == RowsOK(CluRoutes)
    BY MayChangeProgram DEF CluRoutes, Post, Route, Codes, Refusals, Registers, RowsOK, RowOK,
     Good

LEMMA InstallRoutesOK == RowsOK(InstallRoutes)
    BY MayChangeProgram DEF InstallRoutes, Post, Route, Codes, Refusals, Registers, RowsOK, RowOK,
     Good

LEMMA GovernancePostOK == RowsOK(GovernancePost)
    BY MayChangeProgram DEF GovernancePost, Post, Route, Codes, Refusals, Registers, RowsOK,
     RowOK, Good

LEMMA EventStreamEarly == EarlyRowsOK(EventStream)
  BY QuietIsEventful, ReadProgram DEF EventStream, Get, Route, Codes, Refusals, Registers,
     EarlyRowsOK, Good

LEMMA AgenticManifestEarly == EarlyRowsOK(AgenticManifest)
  BY QuietIsEventful, MayProgram DEF AgenticManifest, GetMay, Route, Codes, Refusals, Registers,
     EarlyRowsOK, Good

LEMMA AgenticDocumentEarly == EarlyRowsOK(AgenticDocument)
  BY QuietIsEventful, MayProgram DEF AgenticDocument, GetMay, Route, Codes, Refusals, Registers,
     EarlyRowsOK, Good

LEMMA SupervisorReadsEarly == EarlyRowsOK(SupervisorReads)
  BY QuietIsEventful, MayProgram DEF SupervisorReads, GetMay, Route, Codes, Refusals, Registers,
     EarlyRowsOK, Good

LEMMA SupervisorSelectEarly == EarlyRowsOK(SupervisorSelect)
  BY QuietIsEventful, ConfirmProgram DEF SupervisorSelect, Post, Route, Codes, Refusals,
     Registers, EarlyRowsOK, Good

LEMMA SupervisorGenerateEarly == EarlyRowsOK(SupervisorGenerate)
  BY QuietIsEventful, ConfirmProgram DEF SupervisorGenerate, Post, Route, Codes, Refusals,
     Registers, EarlyRowsOK, Good

LEMMA SupervisorRevokeEarly == EarlyRowsOK(SupervisorRevoke)
  BY QuietIsEventful, RevokeProgram DEF SupervisorRevoke, Post, Route, Codes, Refusals, Registers,
     EarlyRowsOK, Good

LEMMA SupervisorHeartbeatEarly == EarlyRowsOK(SupervisorHeartbeat)
  BY QuietIsEventful, MayTryProgram DEF SupervisorHeartbeat, Post, Route, UntracedRoutes, Codes,
     Refusals, Registers, EarlyRowsOK, Good

LEMMA SupervisorConfirmEarly == EarlyRowsOK(SupervisorConfirm)
  BY QuietIsEventful, ConfirmProgram DEF SupervisorConfirm, Post, Route, Codes, Refusals,
     Registers, EarlyRowsOK, Good

LEMMA SelfTestsEarly == EarlyRowsOK(SelfTests)
  BY QuietIsEventful, ReadProgram, ChangeProgram DEF SelfTests, Get, Post, Route, UntracedRoutes,
     Codes, Refusals, Registers, EarlyRowsOK, Good

LEMMA ActivityReadsEarly == EarlyRowsOK(ActivityReads)
  BY QuietIsEventful, ReadProgram DEF ActivityReads, Get, Route, Codes, Refusals, Registers,
     EarlyRowsOK, Good

LEMMA EveryRowOK == RowsOK(AllRoutes) /\ EarlyRowsOK(EarlyRoutes)
<1>1. RowsOK(EarlyRoutes)
  BY EventStreamOK, AgenticManifestOK, AgenticDocumentOK, SupervisorReadsOK, SupervisorSelectOK,
     SupervisorGenerateOK, SupervisorRevokeOK, SupervisorHeartbeatOK, SupervisorConfirmOK,
     SelfTestsOK, ActivityReadsOK DEF EarlyRoutes, RowsOK
<1>2. RowsOK(MainRoutes)
  BY HealthReadsOK, HealthSummaryOK, DiagnosticsReadsOK, DiagnosticsClearOK, HostReadsOK,
     ClaudeStatusOK, ClaudeToggleOK, ProviderRoutesOK, DashboardReadsOK, WorkflowPostOK,
     WorkflowRoutesOK, DocumentReadsOK, OnboardingReadsOK, GovernanceReadsOK, ProfilePostOK,
     DecisionsGetOK, DecisionsPostOK, PoolReadsOK, PoolPostOK, PoolActionsOK, PoolRestartOK,
     PoolLeaseOK, TelemetryReadsOK, TelemetryHeartbeatOK, LeaseReleaseOK, GatewayReadsOK,
     GatewayLifecycleOK, ClientReadsOK, ClientRoutesOK, SetupStartOK, SetupCompleteOK,
     SetupDismissOK, DependencyReadsOK, DependencyInstallOK, DependencyOtherOK, TemplateRoutesOK,
     PlatformReadsOK, AdvancedModeOK, ConfigWritesOK, AppleHostsOK, ServerPostOK, ServerRemoveOK,
     AgentPostOK, AgentRemoveOK, GroupRoutesOK, ClientRosterOK, ClientPostOK, ClientSwitchesOK,
     ClientPrivilegesOK, ClientAutonomousOK, ClientDeleteOK, ModuleStateOK, ApprovalRoutesOK,
     CluRoutesOK, InstallRoutesOK, GovernancePostOK DEF MainRoutes, RowsOK
<1>3. EarlyRowsOK(EarlyRoutes)
  BY EventStreamEarly, AgenticManifestEarly, AgenticDocumentEarly, SupervisorReadsEarly,
     SupervisorSelectEarly, SupervisorGenerateEarly, SupervisorRevokeEarly,
     SupervisorHeartbeatEarly, SupervisorConfirmEarly, SelfTestsEarly, ActivityReadsEarly DEF EarlyRoutes, EarlyRowsOK
<1> QED BY <1>1, <1>2, <1>3 DEF AllRoutes, RowsOK

\* What holds of the program that a request runs.
LEMMA ProgramsOK ==
    ASSUME NEW c
    PROVE  /\ Typed(Program(c))
           /\ RouteOf(c) \notin LateRefusals => Gated(Program(c))
           /\ RouteOf(c) \notin UntoldRoutes => Telling(Program(c))
           /\ c.method = "GET" => Quiet(Program(c))
           /\ IsEarly(c) /\ RouteOf(c) \notin UntracedRoutes => Eventful(Program(c))
           /\ ~IsDispatched(c) => Quiet(Program(c))
<1> DEFINE r == RouteOf(c)
           rows == IF r \in RoutesIn(EarlyRoutes) THEN EarlyRoutes ELSE MainRoutes
<1>1. CASE IsDispatched(c)
  <2>1. \E row \in rows : row.route = r
    BY <1>1 DEF IsDispatched, RoutesIn, AllRoutes
  <2>2. PICK row \in rows : row.route = r /\ row.program = ProgramIn(rows, r)
    BY <2>1 DEF ProgramIn
  <2>3. Program(c) = ProgramIn(rows, r)
    BY <1>1 DEF Program, Dispatched, IsDispatched
  <2>4. Program(c) = row.program /\ row \in AllRoutes /\ row.route = r
    BY <2>2, <2>3 DEF AllRoutes
  <2>5. IsEarly(c) => row \in EarlyRoutes
    BY <2>2 DEF IsEarly
  <2>6. r[1] = c.method
    BY DEF RouteOf
  <2> HIDE DEF r, rows
  <2>7. RowOK(row)
    BY <2>4, EveryRowOK DEF RowsOK
  <2>8. IsEarly(c) /\ r \notin UntracedRoutes => Eventful(Program(c))
    BY <2>4, <2>5, EveryRowOK DEF EarlyRowsOK
  <2> QED BY <1>1, <2>4, <2>6, <2>7, <2>8 DEF RowOK, r
<1>2. CASE ~IsDispatched(c)
  <2>1. Program(c) = Read
    BY <1>2 DEF Program
  <2> QED BY <2>1, ReadProgram, QuietIsEventful DEF Good
<1> QED BY <1>1, <1>2

-----------------------------------------------------------------------------
(* The requests *)

Programs == {Program(c) : c \in [method : Method, path : Paths \cup {<< "x" >>, << >>}]}
CallRecord ==
    [pc : {"idle", "authorize", "run", "answered"}, method : Method,
     path : Paths \cup {<< "x" >>, << >>}, caller : AllCallers, steps : Programs \cup {Read},
     at : 0 .. 10, changed : BOOLEAN, code : Codes \cup {0}, ok : BOOLEAN, told : 0 .. 1]

\* Where a request is in its program, and what it has done so far.
Placed(c) ==
    /\ c.pc # "answered" => c.told = 0
    /\ c.pc \in {"idle", "authorize"} => ~c.changed /\ c.steps = Read /\ c.at = 0
    /\ c.pc = "run" => c.steps = Program(c) /\ c.at \in 1 .. Len(c.steps) + 1
    /\ c.pc = "answered" => c.steps \in {Read, Program(c)} /\ c.at <= Len(c.steps) + 1

\* A request that changed something has a change behind it; an early one has an
\* event behind it or before it.
Traced(c) ==
    c.pc = "run" /\ c.changed =>
        /\ \E i \in 1 .. c.at - 1 : Changes(c.steps[i])
        /\ IsEarly(c) /\ RouteOf(c) \notin UntracedRoutes =>
            \E i \in 1 .. Len(c.steps) : i <= c.at /\ c.steps[i].does = "event"

\* The answers, as the properties want them.
Refusal(c) ==
    c.pc = "answered" /\ c.code \in Refusals /\ RouteOf(c) \notin LateRefusals => ~c.changed
OnTheTrail(c) ==
    c.pc = "answered" /\ c.changed /\ RouteOf(c) \notin UntracedRoutes =>
        c.told = 1 \/ \E i \in 1 .. Len(c.steps) : i <= c.at /\ c.steps[i].does = "event"

CallOK(c) == c \in CallRecord /\ Placed(c) /\ Traced(c) /\ Refusal(c) /\ OnTheTrail(c)

CallsOK == call \in [AdminWorker -> CallRecord] /\ \A w \in AdminWorker : CallOK(call[w])

\* Whoever changed the pools and has not told the gateway is about to.
Invalidating(c) == c.pc = "run" /\ InvalidatesFrom(c.steps, c.at)
OwingOK ==
    /\ owing \subseteq Requests
    /\ \A r \in owing \ UntoldRoutes :
        \E w \in AdminWorker : RouteOf(call[w]) = r /\ Invalidating(call[w])

AdmInv ==
    CallsOK /\ OwingOK /\ poolRegistered \in BOOLEAN /\ staged \subseteq AdminWorker

LEMMA ProgramLengths ==
    /\ \A c : Len(Program(c)) \in 0 .. 9 /\ \A i \in 1 .. Len(Program(c)) : Program(c)[i].codes \subseteq Codes
    /\ Len(Read) = 0
  BY ProgramsOK DEF Typed, Read

LEMMA AdmInvProperties ==
    AdmInv => AdminTypeOK /\ GatesComeFirst /\ ToolsFollowPools /\ ChangesAreOnTheTrail
<1> SUFFICES ASSUME AdmInv PROVE AdminTypeOK /\ GatesComeFirst /\ ToolsFollowPools /\ ChangesAreOnTheTrail
  OBVIOUS
<1>1. AdminTypeOK
  <2> SUFFICES ASSUME NEW w \in AdminWorker
               PROVE  /\ call[w] \in CallRecord
                      /\ Len(call[w].steps) <= 10
    BY DEF AdminTypeOK, AdmInv, OwingOK, CallRecord
  <2>1. call[w] \in CallRecord
    BY DEF AdmInv, CallsOK
  <2>2. PICK c : call[w].steps \in {Program(c), Read}
    BY <2>1 DEF CallRecord, Programs
  <2>3. Len(Program(c)) <= 10 /\ Len(Read) <= 10
    <3>1. Len(Program(c)) \in 0 .. 9 /\ Len(Read) \in 0 .. 9
      BY ProgramLengths
    <3>2. \A n \in 0 .. 9 : n <= 10
      OBVIOUS
    <3> QED BY ONLY <3>1, <3>2, Zenon
  <2>4. CASE call[w].steps = Program(c)
    BY <2>1, <2>3, <2>4
  <2>5. CASE call[w].steps = Read
    BY <2>1, <2>3, <2>5
  <2> QED BY <2>2, <2>4, <2>5
<1>2. GatesComeFirst
  BY DEF AdmInv, CallsOK, CallOK, Refusal, Refusals, GatesComeFirst, Answered, Running
<1>3. ToolsFollowPools
  BY DEF AdmInv, OwingOK, Invalidating, ToolsFollowPools
<1>4. ChangesAreOnTheTrail
  BY DEF AdmInv, CallsOK, CallOK, OnTheTrail, ChangesAreOnTheTrail, Running
<1> QED BY <1>1, <1>2, <1>3, <1>4

LEMMA IdleCall == CallOK(NoRequest)
<1>1. NoRequest \in CallRecord
  BY DEF NoRequest, CallRecord, Method, AllCallers, Codes
<1> QED BY <1>1 DEF CallOK, NoRequest, Placed, Traced, Refusal, OnTheTrail

LEMMA AdmInvInitially == AdminInit => AdmInv
<1> SUFFICES ASSUME AdminInit PROVE AdmInv
  OBVIOUS
<1>1. CallsOK
  BY IdleCall DEF AdminInit, CallsOK, CallOK
<1>2. OwingOK /\ poolRegistered \in BOOLEAN /\ staged \subseteq AdminWorker
  BY DEF AdminInit, OwingOK
<1> QED BY <1>1, <1>2 DEF AdmInv

\* One request moves.
LEMMA CallMoves ==
    ASSUME CallsOK, NEW w \in AdminWorker, NEW c, CallOK(c), call' = [call EXCEPT ![w] = c]
    PROVE  CallsOK' /\ call'[w] = c /\ \A v \in AdminWorker : v # w => call'[v] = call[v]
<1>1. call' \in [AdminWorker -> CallRecord]
  BY DEF CallsOK, CallOK
<1>2. call'[w] = c /\ \A v \in AdminWorker : v # w => call'[v] = call[v]
  BY DEF CallsOK
<1>3. \A v \in AdminWorker : CallOK(call'[v])
  BY <1>2 DEF CallsOK
<1> QED BY <1>1, <1>2, <1>3 DEF CallsOK, CallOK, Placed, Traced, Refusal, OnTheTrail


LEMMA AnswersOK ==
    ASSUME CallsOK, NEW w \in AdminWorker, Running(w, "run"), NEW code \in Codes, NEW ok \in BOOLEAN,
           AnswerRequest(w, code, ok),
           code \in Refusals /\ RouteOf(call[w]) \notin LateRefusals => ~call[w].changed
    PROVE  CallsOK' /\ RouteOf(call'[w]) = RouteOf(call[w])
           /\ \A v \in AdminWorker : v # w => call'[v] = call[v]
<1> DEFINE told == IF IsEarly(call[w]) THEN call[w].told ELSE Told(call[w])
           c == [call[w] EXCEPT !.pc = "answered", !.code = code, !.ok = ok, !.told = told]
<1>1. call[w] \in CallRecord /\ CallOK(call[w]) /\ call[w].pc = "run" /\ call[w].told = 0
  BY DEF CallsOK, CallOK, Running, Placed
<1>2. told \in 0 .. 1 /\ (~IsEarly(call[w]) /\ ~skipActivity(call[w]) => told = 1)
  BY <1>1 DEF Told
<1>3. call' = [call EXCEPT ![w] = c]
  BY <1>1 DEF AnswerRequest, CallsOK, CallRecord
<1> HIDE DEF told
<1>4. c \in CallRecord
  BY <1>1, <1>2 DEF CallRecord
<1>5. /\ c.pc = "answered" /\ c.code = code /\ c.told = told /\ c.changed = call[w].changed
      /\ c.method = call[w].method /\ c.path = call[w].path /\ c.steps = call[w].steps
      /\ c.at = call[w].at
  BY <1>1 DEF CallRecord
<1> HIDE DEF c
<1>6. RouteOf(c) = RouteOf(call[w]) /\ Program(c) = Program(call[w])
  BY <1>5 DEF RouteOf, Program, IsDispatched
<1>7. Placed(c) /\ Traced(c) /\ Refusal(c)
  <2>1. Placed(c)
    BY <1>1, <1>5, <1>6, ProgramLengths DEF CallOK, Placed
  <2>2. Traced(c) /\ Refusal(c)
    BY <1>5, <1>6 DEF Traced, Refusal
  <2> QED BY <2>1, <2>2
<1>8. OnTheTrail(c)
  <2> SUFFICES ASSUME call[w].changed, RouteOf(call[w]) \notin UntracedRoutes
               PROVE  told = 1 \/ \E i \in 1 .. Len(c.steps) : i <= c.at /\ c.steps[i].does = "event"
    BY <1>5, <1>6 DEF OnTheTrail
  <2>1. CASE IsEarly(call[w])
    BY <1>1, <1>5, <2>1 DEF CallOK, Traced
  <2>2. CASE ~IsEarly(call[w])
    <3>1. ~Quiet(Program(call[w]))
      <4>1. PICK i \in 1 .. call[w].at - 1 : Changes(call[w].steps[i])
        BY <1>1 DEF CallOK, Traced
      <4>2. i \in 1 .. Len(Program(call[w]))
        BY <1>1, <4>1, ProgramLengths DEF CallOK, Placed
      <4> QED BY <1>1, <4>1, <4>2 DEF CallOK, Placed, Quiet
    <3>2. call[w].method # "GET"
      BY <3>1, ProgramsOK
    <3> QED BY <1>2, <2>2, <3>2 DEF skipActivity
  <2> QED BY <2>1, <2>2
<1>9. CallOK(c)
  BY <1>4, <1>7, <1>8 DEF CallOK
<1> QED BY <1>3, <1>6, <1>9, CallMoves

LEMMA AdvancesOK ==
    ASSUME CallsOK, NEW w \in AdminWorker, Running(w, "run"), NEW changed \in BOOLEAN,
           call[w].at <= Len(call[w].steps), Advance(w, changed),
           changed => Changes(call[w].steps[call[w].at])
    PROVE  /\ CallsOK' /\ RouteOf(call'[w]) = RouteOf(call[w])
           /\ call'[w].pc = "run" /\ call'[w].steps = call[w].steps /\ call'[w].at = call[w].at + 1
           /\ \A v \in AdminWorker : v # w => call'[v] = call[v]
<1> DEFINE c == [call[w] EXCEPT !.at = call[w].at + 1, !.changed = call[w].changed \/ changed]
<1>1. /\ call[w] \in CallRecord /\ CallOK(call[w]) /\ call[w].pc = "run"
      /\ call[w].steps = Program(call[w]) /\ call[w].at \in 1 .. Len(call[w].steps)
  BY ProgramLengths DEF CallsOK, CallOK, Running, Placed
<1>2. Len(call[w].steps) \in 0 .. 9 /\ call[w].at + 1 \in 0 .. 10
  <2>1. Len(call[w].steps) \in 0 .. 9
    BY <1>1, ProgramLengths
  <2>2. ASSUME NEW n \in 0 .. 9, NEW k \in 1 .. n PROVE k + 1 \in 0 .. 10
    OBVIOUS
  <2>3. call[w].at \in 1 .. Len(call[w].steps)
    BY <1>1
  <2>4. call[w].at + 1 \in 0 .. 10
    BY ONLY <2>1, <2>2, <2>3
  <2> QED BY <2>1, <2>4
<1>3. call' = [call EXCEPT ![w] = c]
  BY <1>1 DEF Advance, CallsOK, CallRecord
<1>4. c \in CallRecord
  BY <1>1, <1>2 DEF CallRecord
<1>5. /\ c.pc = "run" /\ c.told = call[w].told /\ c.at = call[w].at + 1
      /\ c.method = call[w].method /\ c.path = call[w].path /\ c.steps = call[w].steps
  BY <1>1 DEF CallRecord
<1>6. c.changed <=> call[w].changed \/ changed
  BY <1>1 DEF CallRecord
<1> HIDE DEF c
<1>7. RouteOf(c) = RouteOf(call[w]) /\ Program(c) = Program(call[w]) /\ (IsEarly(c) <=> IsEarly(call[w]))
  BY <1>5 DEF RouteOf, Program, IsDispatched, IsEarly
<1>8. Placed(c) /\ Refusal(c) /\ OnTheTrail(c)
  <2>1. Placed(c)
    BY <1>1, <1>2, <1>5, <1>7 DEF CallOK, Placed
  <2> QED BY <1>5, <2>1 DEF Refusal, OnTheTrail
<1>9. Traced(c)
  <2> SUFFICES ASSUME c.changed
               PROVE  /\ \E i \in 1 .. call[w].at : Changes(call[w].steps[i])
                      /\ IsEarly(call[w]) /\ RouteOf(call[w]) \notin UntracedRoutes =>
                            \E i \in 1 .. Len(call[w].steps) : i <= call[w].at + 1 /\ call[w].steps[i].does = "event"
    BY <1>1, <1>2, <1>5, <1>7 DEF Traced
  <2>1. CASE call[w].changed
    BY <1>1, <1>2, <2>1 DEF CallOK, Traced
  <2>2. CASE changed
    <3>1. Changes(call[w].steps[call[w].at])
      BY <2>2
    <3>2. IsEarly(call[w]) /\ RouteOf(call[w]) \notin UntracedRoutes => Eventful(call[w].steps)
      BY <1>1, ProgramsOK
    <3>3. Eventful(call[w].steps) =>
             call[w].at + 1 \in 1 .. Len(call[w].steps) /\ call[w].steps[call[w].at + 1].does = "event"
      BY <1>1, <3>1 DEF Eventful
    <3> QED BY <1>1, <1>2, <3>1, <3>2, <3>3
  <2> QED BY <1>6, <2>1, <2>2
<1>10. CallOK(c)
  BY <1>4, <1>8, <1>9 DEF CallOK
<1> QED BY <1>3, <1>5, <1>7, <1>10, CallMoves

\* Who was about to invalidate the catalog still is.
LEMMA OwingRests ==
    ASSUME OwingOK, owing' = owing, NEW w \in AdminWorker,
           \A v \in AdminWorker : v # w => call'[v] = call[v],
           Invalidating(call[w]) => Invalidating(call'[w]) /\ RouteOf(call'[w]) = RouteOf(call[w])
    PROVE  OwingOK'
<1>1. ASSUME NEW r \in owing' \ UntoldRoutes
      PROVE  \E v \in AdminWorker : RouteOf(call'[v]) = r /\ Invalidating(call'[v])
  <2>1. PICK v \in AdminWorker : RouteOf(call[v]) = r /\ Invalidating(call[v])
    BY DEF OwingOK
  <2>2. CASE v = w
    BY <2>1, <2>2
  <2>3. CASE v # w
    <3>1. call'[v] = call[v]
      BY <2>3
    <3> QED BY <2>1, <3>1
  <2> QED BY <2>2, <2>3
<1> QED BY <1>1 DEF OwingOK, Invalidating, InvalidatesFrom, RouteOf

LEMMA AtOtherSteps ==
    ASSUME NEW w \in AdminWorker, NEW does, AtStep(w, does), CallsOK,
           does \notin {"try", "event", "invalidate"}
    PROVE  ~Invalidating(call[w])
<1>1. call[w].steps[call[w].at].does = does /\ call[w].at \in Nat /\ call[w].at <= Len(call[w].steps)
  BY DEF AtStep, CallsOK, CallRecord
<1>2. call[w].steps = Program(call[w]) /\ Len(Program(call[w])) \in Nat
  BY ProgramLengths DEF AtStep, CallsOK, CallOK, Placed, Running
<1> QED BY <1>1, <1>2 DEF Invalidating, InvalidatesFrom

LEMMA AtTries ==
    ASSUME NEW w \in AdminWorker, AtStep(w, "try") \/ AtStep(w, "event"), CallsOK, Invalidating(call[w])
    PROVE  InvalidatesFrom(call[w].steps, call[w].at + 1)
<1>1. /\ call[w].steps[call[w].at].does \in {"try", "event"} /\ call[w].at \in Nat
      /\ call[w].at <= Len(call[w].steps)
  BY DEF AtStep, CallsOK, CallRecord
<1>2. call[w].steps = Program(call[w]) /\ Len(Program(call[w])) \in Nat
  BY ProgramLengths DEF AtStep, CallsOK, CallOK, Placed, Running
<1> QED BY <1>1, <1>2 DEF Invalidating, InvalidatesFrom

\* Where a running request is.
LEMMA StepsAt ==
    ASSUME NEW w \in AdminWorker, NEW does, AtStep(w, does), CallsOK
    PROVE  /\ Running(w, "run") /\ call[w].at \in 1 .. Len(call[w].steps) /\ Now(w).does = does
           /\ Now(w).codes \subseteq Codes
           /\ call[w].steps = Program(call[w]) /\ RouteOf(call[w]) \in Requests
<1>1. Running(w, "run") /\ call[w].at \in 1 .. Len(call[w].steps) + 1 /\ call[w].at <= Len(call[w].steps)
      /\ Now(w).does = does /\ call[w].steps = Program(call[w])
  BY DEF AtStep, CallsOK, CallOK, Placed, Running, Now
<1>2. Len(call[w].steps) \in 0 .. 9
  BY <1>1, ProgramLengths
<1>3. call[w].at \in 1 .. Len(call[w].steps)
  BY <1>1, <1>2
<1>4. Now(w).codes \subseteq Codes
  BY <1>1, <1>3, ProgramLengths DEF Now
<1>5. IsDispatched(call[w])
  <2>1. CASE ~IsDispatched(call[w])
    <3>1. call[w].steps = Read /\ Len(Read) = 0
      BY <1>1, <2>1, ProgramLengths DEF Program
    <3> QED BY <1>3, <3>1
  <2> QED BY <2>1
<1>6. call[w].path \in Paths
  BY <1>5 DEF IsDispatched, RouteOf, Paths
<1> QED BY <1>1, <1>3, <1>4, <1>6 DEF Requests, RouteOf, CallsOK, CallRecord

\* A refusal of a step comes before any change.
LEMMA RefusalsFirst ==
    ASSUME NEW w \in AdminWorker, NEW does, AtStep(w, does), CallsOK, NEW code,
           code \in Refusals, RouteOf(call[w]) \notin LateRefusals,
           code \in Now(w).codes \/ does \in {"needs", "govern"}
    PROVE  ~call[w].changed
<1> SUFFICES ASSUME call[w].changed PROVE FALSE
  OBVIOUS
<1>1. PICK i \in 1 .. call[w].at - 1 : Changes(call[w].steps[i])
  BY DEF AtStep, Running, CallsOK, CallOK, Traced
<1>2. call[w].at \in 1 .. Len(call[w].steps) /\ Now(w).does = does /\ call[w].steps = Program(call[w])
  BY StepsAt
<1>3. Gated(call[w].steps)
  BY <1>2, ProgramsOK
<1>4. Len(call[w].steps) \in Nat
  BY <1>2, ProgramLengths
<1>5. i \in 1 .. Len(call[w].steps) /\ i < call[w].at
  BY <1>1, <1>2, <1>4
<1>6. Now(w).does \notin {"needs", "govern"} /\ Now(w).codes \cap Refusals = {}
  BY <1>1, <1>2, <1>3, <1>5 DEF Gated, Now
<1> QED BY <1>2, <1>6

\* What follows an effect on the pools.
LEMMA EffectsOwe ==
    ASSUME NEW w \in AdminWorker, AtStep(w, "change") \/ AtStep(w, "try"), CallsOK, poolRegistered \in BOOLEAN,
           Effect(w, Now(w).op)
    PROVE  /\ poolRegistered' \in BOOLEAN
           /\ \/ owing' = owing
              \/ /\ owing' = owing \cup {RouteOf(call[w])}
                 /\ RouteOf(call[w]) \notin UntoldRoutes => InvalidatesFrom(call[w].steps, call[w].at + 1)
<1>1. CASE Now(w).op \in Registers
  <2>1. poolRegistered' \in BOOLEAN /\ owing' = owing \cup {RouteOf(call[w])}
    BY <1>1 DEF Effect, Registers
  <2>2. Changes(call[w].steps[call[w].at]) /\ call[w].at \in 1 .. Len(call[w].steps)
        /\ call[w].steps = Program(call[w])
    BY StepsAt DEF Changes, Now
  <2>3. RouteOf(call[w]) \notin UntoldRoutes => Telling(call[w].steps)
    BY <2>2, ProgramsOK
  <2>4. Telling(call[w].steps) => InvalidatesFrom(call[w].steps, call[w].at + 1)
    BY <1>1, <2>2 DEF Telling, Now
  <2> QED BY <2>1, <2>3, <2>4
<1>2. CASE Now(w).op \notin Registers
  BY <1>2 DEF Effect, Registers
<1> QED BY <1>1, <1>2

LEMMA OwingGrows ==
    ASSUME OwingOK, NEW w \in AdminWorker, RouteOf(call[w]) \in Requests,
           owing' = owing \cup {RouteOf(call[w])}, RouteOf(call'[w]) = RouteOf(call[w]),
           \A v \in AdminWorker : v # w => call'[v] = call[v],
           RouteOf(call[w]) \notin UntoldRoutes => Invalidating(call'[w]),
           Invalidating(call[w]) => Invalidating(call'[w])
    PROVE  OwingOK'
<1>1. ASSUME NEW r \in owing' \ UntoldRoutes
      PROVE  \E v \in AdminWorker : RouteOf(call'[v]) = r /\ Invalidating(call'[v])
  <2>1. CASE r = RouteOf(call[w])
    BY <2>1
  <2>2. CASE r \in owing
    <3>1. PICK v \in AdminWorker : RouteOf(call[v]) = r /\ Invalidating(call[v])
      BY <2>2 DEF OwingOK
    <3>2. CASE v = w
      BY <3>1, <3>2
    <3>3. CASE v # w
      <4>1. call'[v] = call[v]
        BY <3>3
      <4> QED BY <3>1, <4>1
    <3> QED BY <3>2, <3>3
  <2> QED BY <2>1, <2>2
<1> QED BY <1>1 DEF OwingOK, Invalidating, InvalidatesFrom, RouteOf

\* A move of a request that was not about to invalidate the catalog.
LEMMA MovesKeep ==
    ASSUME AdmInv, NEW w \in AdminWorker, NEW c, CallOK(c), call' = [call EXCEPT ![w] = c],
           ~Invalidating(call[w]), poolRegistered' = poolRegistered, owing' = owing,
           staged' \subseteq AdminWorker
    PROVE  AdmInv'
<1>1. CallsOK' /\ \A v \in AdminWorker : v # w => call'[v] = call[v]
  BY CallMoves DEF AdmInv
<1>2. OwingOK'
  BY <1>1, OwingRests DEF AdmInv
<1> QED BY <1>1, <1>2 DEF AdmInv

LEMMA BeginKeeps ==
    ASSUME AdmInv, NEW w \in AdminWorker, Running(w, "idle"), NEW route \in Startable(w),
           NEW caller \in Caller, Begin(w, route[1], route[2], caller)
    PROVE  AdmInv'
<1> DEFINE c == [NoRequest EXCEPT !.pc = "authorize", !.method = route[1], !.path = route[2],
                                  !.caller = caller]
<1>1. route[1] \in Method /\ route[2] \in Paths \cup {<< "x" >>}
  BY AdminAssumption DEF Startable, Requests
<1>2. NoRequest \in CallRecord
  BY IdleCall DEF CallOK
<1>3. c \in CallRecord
  BY <1>1, <1>2, AdminAssumption DEF CallRecord
<1>4. c.pc = "authorize" /\ ~c.changed /\ c.told = 0 /\ c.steps = Read /\ c.at = 0
  BY DEF NoRequest
<1> HIDE DEF c
<1>5. CallOK(c)
  BY <1>3, <1>4 DEF CallOK, Placed, Traced, Refusal, OnTheTrail
<1>6. ~Invalidating(call[w])
  BY DEF Running, Invalidating
<1>7. call' = [call EXCEPT ![w] = c]
  BY DEF Begin, c
<1> QED BY <1>5, <1>6, <1>7, MovesKeep DEF Begin, OthersUnchanged, AdmInv

LEMMA AuthorizeKeeps ==
    ASSUME AdmInv, NEW w \in AdminWorker, Authorize(w) PROVE AdmInv'
<1>1. call[w] \in CallRecord /\ call[w].pc = "authorize" /\ call[w].told = 0 /\ ~call[w].changed
      /\ call[w].steps = Read /\ call[w].at = 0
  BY DEF AdmInv, CallsOK, CallOK, Authorize, Running, Placed
<1>2. ~Invalidating(call[w]) /\ OthersUnchanged
  BY <1>1 DEF Invalidating, Authorize
<1>3. \A c : CallOK(c) /\ call' = [call EXCEPT ![w] = c] => AdmInv'
  BY <1>2, MovesKeep DEF OthersUnchanged, AdmInv
<1>4. CASE Denial(call[w]) # 0
  <2> DEFINE c == [call[w] EXCEPT !.pc = "answered", !.code = Denial(call[w]), !.told = Told(call[w])]
  <2>1. call' = [call EXCEPT ![w] = c]
    BY <1>1, <1>4 DEF Authorize
  <2>2. Denial(call[w]) \in Codes /\ Told(call[w]) \in 0 .. 1
    BY <1>1, <1>4 DEF Denial, Codes, Told
  <2>3. c \in CallRecord
    BY <1>1, <2>2 DEF CallRecord
  <2>4. c.pc = "answered" /\ ~c.changed /\ c.steps = Read /\ c.at = 0
    BY <1>1 DEF CallRecord
  <2> HIDE DEF c
  <2>5. CallOK(c)
    BY <2>3, <2>4, ProgramLengths DEF CallOK, Placed, Traced, Refusal, OnTheTrail
  <2> QED BY <1>3, <2>1, <2>5
<1>5. CASE Denial(call[w]) = 0
  <2> DEFINE p == Program(call[w])
             c == [call[w] EXCEPT !.pc = "run", !.steps = p, !.at = 1]
  <2>1. call' = [call EXCEPT ![w] = c]
    BY <1>5 DEF Authorize
  <2>2. p \in Programs /\ Len(p) \in Nat
    <3>1. p = Program([method |-> call[w].method, path |-> call[w].path])
      BY DEF Program, IsDispatched, RouteOf
    <3> QED BY <1>1, <3>1, ProgramLengths DEF Programs, CallRecord
  <2> HIDE DEF p
  <2>3. c \in CallRecord
    <3>1. call[w] \in CallRecord /\ p \in Programs /\ 1 \in 0 .. 10
      BY <1>1, <2>2
    <3> QED BY ONLY <3>1 DEF c, CallRecord
  <2>4. /\ c.pc = "run" /\ ~c.changed /\ c.steps = p /\ c.at = 1 /\ c.told = 0
        /\ c.method = call[w].method /\ c.path = call[w].path
    BY <1>1 DEF CallRecord
  <2> HIDE DEF c
  <2>5. Program(c) = p
    BY <2>4 DEF p, Program, IsDispatched, RouteOf
  <2>6. CallOK(c)
    BY <2>2, <2>3, <2>4, <2>5 DEF CallOK, Placed, Traced, Refusal, OnTheTrail
  <2> QED BY <1>3, <2>1, <2>6
<1> QED BY <1>4, <1>5

\* A request that is answered in place of a step that invalidates nothing by itself.
LEMMA AnswersKeep ==
    ASSUME AdmInv, NEW w \in AdminWorker, Running(w, "run"), NEW code \in Codes, NEW ok \in BOOLEAN,
           AnswerRequest(w, code, ok), ~Invalidating(call[w]),
           code \in Refusals /\ RouteOf(call[w]) \notin LateRefusals => ~call[w].changed,
           poolRegistered' = poolRegistered, owing' = owing, staged' \subseteq AdminWorker
    PROVE  AdmInv'
<1>1. CallsOK' /\ \A v \in AdminWorker : v # w => call'[v] = call[v]
  BY AnswersOK DEF AdmInv
<1>2. OwingOK'
  BY <1>1, OwingRests DEF AdmInv
<1> QED BY <1>1, <1>2 DEF AdmInv

\* A request that goes on to the next step without an effect.
LEMMA AdvancesKeep ==
    ASSUME AdmInv, NEW w \in AdminWorker, NEW does, AtStep(w, does), does # "invalidate",
           NEW changed \in BOOLEAN, changed => does \in {"change", "try"}, Advance(w, changed),
           poolRegistered' = poolRegistered, owing' = owing, staged' = staged
    PROVE  AdmInv'
<1>1. /\ CallsOK' /\ RouteOf(call'[w]) = RouteOf(call[w])
      /\ call'[w].pc = "run" /\ call'[w].steps = call[w].steps /\ call'[w].at = call[w].at + 1
      /\ \A v \in AdminWorker : v # w => call'[v] = call[v]
  <2>1. changed => Changes(call[w].steps[call[w].at])
    BY DEF AtStep, Changes
  <2> QED BY <2>1, AdvancesOK DEF AdmInv, AtStep
<1>2. Invalidating(call[w]) => Invalidating(call'[w])
  <2>1. CASE does \in {"try", "event"}
    BY <1>1, <2>1, AtTries DEF Invalidating, AdmInv
  <2>2. CASE does \notin {"try", "event"}
    BY <2>2, AtOtherSteps DEF AdmInv
  <2> QED BY <2>1, <2>2
<1>3. OwingOK'
  BY <1>1, <1>2, OwingRests DEF AdmInv
<1> QED BY <1>1, <1>3 DEF AdmInv

\* A step with an effect on the pools.
LEMMA EffectsKeep ==
    ASSUME AdmInv, NEW w \in AdminWorker, AtStep(w, "change") \/ AtStep(w, "try"),
           Effect(w, Now(w).op), Advance(w, TRUE), staged' = staged
    PROVE  AdmInv'
<1>1. /\ Running(w, "run") /\ RouteOf(call[w]) \in Requests
      /\ call[w].at <= Len(call[w].steps) /\ Changes(call[w].steps[call[w].at])
  BY StepsAt DEF AdmInv, AtStep, Changes
<1>2. /\ CallsOK' /\ RouteOf(call'[w]) = RouteOf(call[w])
      /\ call'[w].pc = "run" /\ call'[w].steps = call[w].steps /\ call'[w].at = call[w].at + 1
      /\ \A v \in AdminWorker : v # w => call'[v] = call[v]
  BY <1>1, AdvancesOK DEF AdmInv
<1>3. Invalidating(call[w]) => Invalidating(call'[w])
  <2>1. CASE AtStep(w, "try")
    BY <1>2, <2>1, AtTries DEF Invalidating, AdmInv
  <2>2. CASE AtStep(w, "change")
    BY <2>2, AtOtherSteps DEF AdmInv
  <2> QED BY <2>1, <2>2
<1>4. /\ poolRegistered' \in BOOLEAN
      /\ \/ owing' = owing
         \/ /\ owing' = owing \cup {RouteOf(call[w])}
            /\ RouteOf(call[w]) \notin UntoldRoutes => Invalidating(call'[w])
  BY <1>2, EffectsOwe DEF AdmInv, Invalidating
<1>5. CASE owing' = owing
  <2>1. OwingOK'
    BY <1>2, <1>3, <1>5, OwingRests DEF AdmInv
  <2> QED BY <1>2, <1>4, <2>1 DEF AdmInv
<1>6. CASE /\ owing' = owing \cup {RouteOf(call[w])}
           /\ RouteOf(call[w]) \notin UntoldRoutes => Invalidating(call'[w])
  <2>1. OwingOK'
    BY <1>1, <1>2, <1>3, <1>6, OwingGrows DEF AdmInv
  <2> QED BY <1>2, <1>4, <2>1 DEF AdmInv
<1> QED BY <1>4, <1>5, <1>6

LEMMA TestsKeep ==
    ASSUME AdmInv, NEW w \in AdminWorker, TestRequest(w) \/ EndRequest(w) PROVE AdmInv'
<1>1. PICK does : does \in {"may", "ends"} /\ AtStep(w, does)
  BY DEF TestRequest, EndRequest
<1>2. CASE Advance(w, FALSE)
  BY <1>1, <1>2, AdvancesKeep DEF TestRequest, EndRequest, OthersUnchanged
<1>3. CASE \E code \in Now(w).codes : AnswerRequest(w, code, FALSE)
  <2>1. PICK code \in Now(w).codes : AnswerRequest(w, code, FALSE)
    BY <1>3
  <2>2. code \in Codes /\ Running(w, "run") /\ ~Invalidating(call[w])
    BY <1>1, StepsAt, AtOtherSteps DEF AdmInv
  <2>3. code \in Refusals /\ RouteOf(call[w]) \notin LateRefusals => ~call[w].changed
    BY <1>1, RefusalsFirst DEF AdmInv
  <2> QED BY <2>1, <2>2, <2>3, AnswersKeep DEF TestRequest, EndRequest, OthersUnchanged, AdmInv
<1> QED BY <1>2, <1>3 DEF TestRequest, EndRequest

LEMMA PrivilegeKeeps ==
    ASSUME AdmInv, NEW w \in AdminWorker, RequirePrivilege(w) PROVE AdmInv'
<1>1. AtStep(w, "needs") /\ OthersUnchanged
  BY DEF RequirePrivilege
<1>2. CASE Advance(w, FALSE)
  BY <1>1, <1>2, AdvancesKeep DEF OthersUnchanged
<1>3. CASE AnswerRequest(w, 403, FALSE)
  <2>1. Running(w, "run") /\ ~Invalidating(call[w])
    BY <1>1, StepsAt, AtOtherSteps DEF AdmInv
  <2>2. 403 \in Codes /\ 403 \in Refusals
    BY DEF Codes, Refusals
  <2>3. RouteOf(call[w]) \notin LateRefusals => ~call[w].changed
    BY <1>1, <2>2, RefusalsFirst DEF AdmInv
  <2> QED BY <1>1, <1>3, <2>1, <2>2, <2>3, AnswersKeep DEF OthersUnchanged, AdmInv
<1> QED BY <1>2, <1>3 DEF RequirePrivilege

LEMMA GovernanceKeeps ==
    ASSUME AdmInv, NEW w \in AdminWorker, EnforceGovernance(w) PROVE AdmInv'
<1>1. AtStep(w, "govern") /\ poolRegistered' = poolRegistered /\ owing' = owing
      /\ staged' \subseteq AdminWorker
  BY DEF EnforceGovernance, AdmInv
<1>2. CASE Advance(w, FALSE) /\ UNCHANGED staged
  BY <1>1, <1>2, AdvancesKeep
<1>3. CASE \E code \in {202, 403}, ok \in BOOLEAN : AnswerRequest(w, code, ok)
  <2>1. PICK code, ok : code \in {202, 403} /\ ok \in BOOLEAN /\ AnswerRequest(w, code, ok)
    BY <1>3
  <2>2. Running(w, "run") /\ ~Invalidating(call[w])
    BY <1>1, StepsAt, AtOtherSteps DEF AdmInv
  <2>3. code \in Codes /\ code \in Refusals
    BY <2>1 DEF Codes, Refusals
  <2>4. RouteOf(call[w]) \notin LateRefusals => ~call[w].changed
    BY <1>1, <2>3, RefusalsFirst DEF AdmInv
  <2> QED BY <1>1, <2>1, <2>2, <2>3, <2>4, AnswersKeep
<1> QED BY <1>2, <1>3 DEF EnforceGovernance

LEMMA ServicesKeep ==
    ASSUME AdmInv, NEW w \in AdminWorker, CallService(w) PROVE AdmInv'
<1>1. AtStep(w, "change") /\ staged' = staged
  BY DEF CallService
<1>2. CASE Effect(w, Now(w).op) /\ Advance(w, TRUE)
  BY <1>1, <1>2, EffectsKeep
<1>3. CASE \E code \in Now(w).codes :
              AnswerRequest(w, code, FALSE) /\ UNCHANGED << poolRegistered, owing >>
  <2>1. PICK code \in Now(w).codes : AnswerRequest(w, code, FALSE)
    BY <1>3
  <2>2. code \in Codes /\ Running(w, "run") /\ ~Invalidating(call[w])
    BY <1>1, StepsAt, AtOtherSteps DEF AdmInv
  <2>3. code \in Refusals /\ RouteOf(call[w]) \notin LateRefusals => ~call[w].changed
    BY <1>1, RefusalsFirst DEF AdmInv
  <2> QED BY <1>1, <1>3, <2>1, <2>2, <2>3, AnswersKeep DEF AdmInv
<1> QED BY <1>2, <1>3 DEF CallService

LEMMA TriesKeep ==
    ASSUME AdmInv, NEW w \in AdminWorker, TryService(w) \/ EmitEvent(w) PROVE AdmInv'
<1>1. CASE TryService(w)
  <2>1. AtStep(w, "try") /\ staged' = staged
    BY <1>1 DEF TryService
  <2>2. CASE Effect(w, Now(w).op) /\ Advance(w, TRUE)
    BY <2>1, <2>2, EffectsKeep
  <2>3. CASE Advance(w, FALSE) /\ UNCHANGED << poolRegistered, owing >>
    BY <2>1, <2>3, AdvancesKeep
  <2> QED BY <1>1, <2>2, <2>3 DEF TryService
<1>2. CASE EmitEvent(w)
  BY <1>2, AdvancesKeep DEF EmitEvent, OthersUnchanged
<1> QED BY <1>1, <1>2

LEMMA InvalidationKeeps ==
    ASSUME AdmInv, NEW w \in AdminWorker, InvalidateCatalog(w) PROVE AdmInv'
<1>1. AtStep(w, "invalidate") /\ Advance(w, FALSE) /\ owing' = {}
      /\ UNCHANGED << poolRegistered, staged >>
  BY DEF InvalidateCatalog
<1>2. CallsOK'
  BY <1>1, AdvancesOK DEF AdmInv, AtStep
<1>3. OwingOK'
  BY <1>1 DEF OwingOK
<1> QED BY <1>1, <1>2, <1>3 DEF AdmInv

LEMMA FinishKeeps ==
    ASSUME AdmInv, NEW w \in AdminWorker, Finish(w) PROVE AdmInv'
<1>1. Running(w, "run") /\ call[w].at > Len(call[w].steps) /\ OthersUnchanged
  BY DEF Finish
<1>2. call[w].steps = Program(call[w]) /\ call[w].at \in 1 .. Len(call[w].steps) + 1
      /\ Len(call[w].steps) \in Nat /\ Traced(call[w])
  BY <1>1, ProgramLengths DEF AdmInv, CallsOK, CallOK, Placed, Running
<1>3. ~Invalidating(call[w])
  BY <1>1, <1>2 DEF Invalidating, InvalidatesFrom
<1>4. ASSUME NEW code \in {200, 404, 405}, NEW ok \in BOOLEAN, AnswerRequest(w, code, ok),
             code = 405 => ~IsDispatched(call[w])
      PROVE  AdmInv'
  <2>1. code \in Codes
    BY DEF Codes
  <2>2. code \in Refusals => ~call[w].changed
    <3> SUFFICES ASSUME code \in Refusals, call[w].changed PROVE FALSE
      OBVIOUS
    <3>1. Quiet(call[w].steps)
      BY <1>2, <1>4, ProgramsOK DEF Refusals
    <3>2. PICK i \in 1 .. call[w].at - 1 : Changes(call[w].steps[i])
      BY <1>1, <1>2 DEF Traced, Running
    <3>3. i \in 1 .. Len(call[w].steps)
      BY <1>2, <3>2
    <3> QED BY <3>1, <3>2, <3>3 DEF Quiet
  <2> QED BY <1>1, <1>3, <1>4, <2>1, <2>2, AnswersKeep DEF OthersUnchanged, AdmInv
<1>5. CASE AnswerRequest(w, 200, TRUE)
  <2>1. 200 # 405
    OBVIOUS
  <2> QED BY <1>4, <1>5, <2>1, Zenon
<1>6. CASE ~IsDispatched(call[w]) /\ AnswerRequest(w, 405, FALSE)
  BY <1>4, <1>6
<1>7. CASE AnswerRequest(w, 404, FALSE)
  <2>1. 404 # 405
    OBVIOUS
  <2> QED BY <1>4, <1>7, <2>1, Zenon
<1> QED BY <1>5, <1>6, <1>7 DEF Finish

LEMMA LeaveKeeps ==
    ASSUME AdmInv, NEW w \in AdminWorker, Leave(w) PROVE AdmInv'
<1>1. ~Invalidating(call[w])
  BY DEF Leave, Running, Invalidating
<1> QED BY <1>1, IdleCall, MovesKeep DEF Leave, AdmInv

LEMMA AdmInvKept == AdmInv /\ [AdminNext]_adminVars => AdmInv'
<1> SUFFICES ASSUME AdmInv, [AdminNext]_adminVars PROVE AdmInv'
  OBVIOUS
<1>1. CASE UNCHANGED adminVars
  BY <1>1 DEF adminVars, AdmInv, CallsOK, CallOK, Placed, Traced, Refusal, OnTheTrail, OwingOK,
     Invalidating, InvalidatesFrom, RouteOf
<1>2. ASSUME NEW w \in AdminWorker, Running(w, "idle"),
             \E route \in Startable(w), caller \in Caller : Begin(w, route[1], route[2], caller)
      PROVE  AdmInv'
  BY <1>2, BeginKeeps
<1>3. ASSUME NEW w \in AdminWorker,
             \/ Authorize(w) \/ TestRequest(w) \/ EndRequest(w) \/ RequirePrivilege(w)
             \/ EnforceGovernance(w) \/ CallService(w) \/ TryService(w) \/ EmitEvent(w)
             \/ InvalidateCatalog(w) \/ Finish(w) \/ Leave(w)
      PROVE  AdmInv'
  BY <1>3, AuthorizeKeeps, TestsKeep, PrivilegeKeeps, GovernanceKeeps, ServicesKeep, TriesKeep,
     InvalidationKeeps, FinishKeeps, LeaveKeeps
<1> QED BY <1>1, <1>2, <1>3 DEF AdminNext

-----------------------------------------------------------------------------
(* The composition *)

\* Each step of the composition is one of the catalog's, or leaves the catalog alone.
LEMMA CatalogSteps == [AdministrationNext]_administrationVars => [CatNext]_catVars
  BY DEF AdministrationNext, RoutesStep, CatalogStep, ToolsStep, administrationVars

\* A catalog that is served from a valid cache, or that the caller collected, is at most one time
\* to live and one collection old: for every number of threads, pools and tools, whatever the time
\* to live and the time-out of a request (currentToolCatalog).
THEOREM ServedCatalogsAreFresh == AdministrationSpec => FreshnessIsBounded
<1>1. AdministrationInit => CatInv
  BY CatInvInitially DEF AdministrationInit
<1>2. CatInv /\ [AdministrationNext]_administrationVars => CatInv'
  BY CatalogSteps, CatInvKept
<1>3. CatInv /\ [AdministrationNext]_administrationVars
        => [\A c \in Client : ServedFrom(c, {"hit", "own"}) =>
                TrueWithin(client'[c].got, Ttl + CollectTime)]_catVars
  BY CatalogSteps, ServedSteps
<1> QED
  BY <1>1, <1>2, <1>3, PTL DEF AdministrationSpec, FreshnessIsBounded

\* Steps of the whole as steps of the workers' tools.
LEMMA ToolSteps ==
    /\ AdministrationInit => WkInit
    /\ [AdministrationNext]_administrationVars => [WkNext]_wkVars
  BY DEF AdministrationInit, AdministrationNext, administrationVars, RoutesStep, CatalogStep, ToolsStep

LEMMA WorkersKeepTypes == AdministrationSpec => []WkInv
  BY WkInvInitially, WkInvKept, ToolSteps, PTL DEF AdministrationSpec

LEMMA TruthInitially == WkInit => ListedToolsAreServed /\ StoreInv /\ WatchInv
<1> SUFFICES ASSUME WkInit PROVE ListedToolsAreServed /\ StoreInv /\ WatchInv
  OBVIOUS
<1>1. ListedToolsAreServed
  BY DEF WkInit, ListedToolsAreServed
<1>2. StoreInv
  BY DEF WkInit, StoreInv, InTruth, Uses, IdleTool
<1>3. WatchInv
  BY DEF WkInit, WatchInv, WatchersAreUpToDate, NoWatch
<1> QED BY <1>1, <1>2, <1>3

\* Of workers of which no two use the same store or watch, with one client that
\* watches, and without the faults of AllWkFaults: every tool that is listed is
\* served, a store holds what the acknowledged calls made of it, and the client
\* knows the file as of its last poll.  With two users of one store, two clients
\* or one of the faults the code does not keep this.
THEOREM WorkersAreTrue ==
    ASSUME WorkersApart PROVE AdministrationSpec => []WorkersAnswerTruly
<1> DEFINE Truth == ListedToolsAreServed /\ StoreInv /\ WatchInv
<1>1. WkInit => Truth
  BY TruthInitially
<1>2. WkInv /\ WkInv' /\ Truth /\ [WkNext]_wkVars => Truth'
  <2>1. WkFaults = {}
    BY DEF WorkersApart
  <2> QED BY <2>1, AnswersStayTrue, StoresStayTrue, WatchesStayTrue
<1>3. Truth => WorkersAnswerTruly
  BY StoreInvSerial DEF WorkersAnswerTruly, WatchInv
<1> HIDE DEF Truth
<1> QED BY <1>1, <1>2, <1>3, ToolSteps, WorkersKeepTypes, PTL DEF AdministrationSpec

-----------------------------------------------------------------------------
(* The whole *)

\* Steps of the whole as steps of the requests.
LEMMA RouteSteps ==
    /\ AdministrationInit => AdminInit
    /\ [AdministrationNext]_administrationVars => [AdminNext]_adminVars
  BY DEF AdministrationInit, AdministrationNext, administrationVars, RoutesStep, CatalogStep, ToolsStep

LEMMA RequestsKeepOrder == AdministrationSpec => []AdmInv
  BY AdmInvInitially, AdmInvKept, RouteSteps, PTL DEF AdministrationSpec

\* On every route that handleHttpRequest dispatches, for every number of workers,
\* every caller and whatever requests are served at the same time: an answer
\* 202, 401, 403 or 405 is given before anything was changed.
THEOREM RoutesAreGatedAlways == AdministrationSpec => []RoutesAreGated
<1>1. AdmInv => RoutesAreGated
  BY AdmInvProperties DEF RoutesAreGated
<1> QED BY <1>1, RequestsKeepOrder, PTL

\* When every request is answered, InvalidateToolCatalog has followed every
\* change of the pools that came from a route other than UntoldRoutes, and every
\* answer to a request that changed something is on the activity trail but for
\* UntracedRoutes: for every number of workers and every order of their steps.
THEOREM ChangesAreToldAlways == AdministrationSpec => []ChangesAreTold
<1>1. AdmInv => ChangesAreTold
  BY AdmInvProperties DEF ChangesAreTold
<1> QED BY <1>1, RequestsKeepOrder, PTL

\* The requests, the catalog and the workers keep their types.
THEOREM AdministrationKeepsTypes == AdministrationSpec => []AdministrationTypes
<1>1. AdministrationInit => CatInv
  BY CatInvInitially DEF AdministrationInit
<1>2. CatInv /\ [AdministrationNext]_administrationVars => CatInv'
  BY CatalogSteps, CatInvKept
<1>3. AdmInv /\ CatInv /\ WkInv => AdministrationTypes
  BY AdmInvProperties, WkInvTypes DEF AdministrationTypes, CatInv
<1> QED BY <1>1, <1>2, <1>3, RequestsKeepOrder, WorkersKeepTypes, PTL DEF AdministrationSpec
==============================================================================
