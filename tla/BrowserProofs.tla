--------------------------- MODULE BrowserProofs ----------------------------
(***************************************************************************)
(* What runs in the browser: the service worker (ShellCache) and the       *)
(* device lists (DevicesTable), two specifications with nothing in common, *)
(* proved here one after the other.                                        *)
(*                                                                         *)
(* ShellCache, for any number of versions, assets and requests: the active *)
(* version is answered from its own cache, a request of a version it       *)
(* replaced still finds what both shells list, and the active cache is     *)
(* behind what the pages were shown only after a race.                     *)
(*                                                                         *)
(* The argument for the first two is about the order of the caches.  When  *)
(* a version reads the names to delete, every cache older than its own is  *)
(* among them; a cache that a late put creates again, at whatever moment,  *)
(* is younger; so when the deletions are done no cache is older.  What the *)
(* cache holds only grows, since no step removes an entry.                 *)
(*                                                                         *)
(* For the third, an asset of the active version that no race has touched  *)
(* has at most one request or put under way; a put carries the newest      *)
(* answer, and when there is none the cache has it already.                *)
(*                                                                         *)
(* DevicesTable, for any lists, columns, filters, sort keys and tabs: a    *)
(* bulk action reaches only rows that are shown, and a page shows what was *)
(* last chosen on it.  Every handler ends in apply, which settles a page   *)
(* whatever it finds, given two facts that hold between the handlers: the  *)
(* selection is counted and shown, and the page's own column choice is the *)
(* one last made on it even when localStorage refused it.                  *)
(***************************************************************************)
EXTENDS ShellCache, DevicesTable, FiniteSetTheorems, TLAPS

-----------------------------------------------------------------------------
(* ShellCache: the invariant *)

Stage == {"unknown", "failed", "installing", "activating", "activated", "redundant"}

\* On its way to becoming active; ruling, from the moment the pages change
\* hands; serving, once pages may have asked it.
Pending == {"installing", "activating"}
Ruling == {"activating", "activated"}
Served == {"activated", "redundant"}

Cache == [body : [Assets -> Nat], older : SUBSET Versions]
Request == [v : Versions \cup {0}, p : Assets \cup {Offline}, mode : {"idle", "shell", "navigate"}]
Put == [v : Versions, p : Assets, c : Nat \ {0}]

\* The values the variables take.
TypeOK ==
    /\ server \in [Assets -> Nat \ {0}]
    /\ worker \in [Versions -> Stage]
    /\ req \in [Requests -> Request]
    /\ puts \subseteq Put
    /\ newest \in [Assets -> Nat]
    /\ raced \subseteq Assets

\* The order of creation is a strict order of all the caches.
OrderedIn(s) ==
    /\ \A n \in DOMAIN s : n \notin s[n].older
    /\ \A n \in DOMAIN s : s[n].older \subseteq DOMAIN s
    /\ \A m, n \in DOMAIN s : m = n \/ m \in s[n].older \/ n \in s[m].older

Storage(s) == DOMAIN s \subseteq Versions /\ s \in [DOMAIN s -> Cache] /\ OrderedIn(s)

\* One version at a time is on its way, one at a time rules, and a newer one
\* rules as long as requests of an older one can exist.
Succession ==
    /\ \A u, v \in Versions : worker[u] \in Pending /\ worker[v] \in Pending => u = v
    /\ \A u, v \in Versions : worker[u] \in Ruling /\ worker[v] \in Ruling => u = v
    /\ \A u, v \in Versions : worker[u] \in Served /\ worker[v] \in Pending => u < v
    /\ \A u, v \in Versions : worker[u] = "redundant" /\ worker[v] = "activated" => u < v
    /\ \A u \in Versions : worker[u] \in Served => \E a \in Versions : worker[a] \in Ruling

\* The cache of a version on its way or active is there; once it rules it holds
\* the shell, and what is older than it is being deleted, or has been.
OwnCache ==
    \A v \in Versions :
        /\ worker[v] \in Pending \cup Ruling => v \in DOMAIN stored
        /\ worker[v] \in Ruling => \A p \in SHELL[v] : stored[v].body[p] # 0
        /\ worker[v] = "activating" => v \notin doomed /\ stored[v].older \subseteq doomed
        /\ worker[v] = "activated" => stored[v].older = {}

\* Requests and puts are those of versions that have been active.
Callers ==
    /\ \A r \in Requests :
          IF req[r].mode = "idle" THEN req[r].v = 0
          ELSE req[r].v \in Versions /\ worker[req[r].v] \in Served /\ req[r].p \in SHELL[req[r].v]
    /\ \A w \in puts : worker[w.v] \in Served

Asks(r, v, p) == req[r] = [v |-> v, p |-> p, mode |-> "shell"]
Writes(w, v, p) == w.v = v /\ w.p = p

\* An asset no race has touched: one request or one put under way, not both; the
\* put has the newest answer, and without a put the cache has it.
Unraced(v, p) ==
    /\ \A q, r \in Requests : Asks(q, v, p) /\ Asks(r, v, p) => q = r
    /\ \A r \in Requests, w \in puts : ~ (Asks(r, v, p) /\ Writes(w, v, p))
    /\ \A w, x \in puts : Writes(w, v, p) /\ Writes(x, v, p) => w = x
    /\ \A w \in puts : Writes(w, v, p) => w.c = newest[p]
    /\ (\A w \in puts : ~ Writes(w, v, p)) => newest[p] <= stored[v].body[p]

InStep ==
    \A v \in Versions : worker[v] = "activated" => \A p \in Assets \ raced : Unraced(v, p)

\* The inductive invariant.
ShellInv == TypeOK /\ Storage(stored) /\ Succession /\ OwnCache /\ Callers /\ InStep

-----------------------------------------------------------------------------
(* Cache Storage *)

\* caches.open leaves every cache as it is, and puts a missing one behind them.
LEMMA OpenKeeps ==
    ASSUME NEW s, Storage(s), NEW n \in Versions
    PROVE  /\ Storage(Open(s, n))
           /\ DOMAIN Open(s, n) = DOMAIN s \cup {n}
           /\ \A m \in DOMAIN s : Open(s, n)[m] = s[m]
<1>1. CASE n \in DOMAIN s
  <2>1. Open(s, n) = s
    BY <1>1 DEF Open
  <2> QED
    BY <1>1, <2>1
<1>2. CASE n \notin DOMAIN s
  <2> DEFINE new == [body |-> NoEntries, older |-> DOMAIN s]
             t == [m \in DOMAIN s \cup {n} |-> IF m = n THEN new ELSE s[m]]
  <2>1. Open(s, n) = t
    BY <1>2 DEF Open
  <2>2. new \in Cache
    BY DEF Storage, Cache, NoEntries
  <2>3. new.older = DOMAIN s
    OBVIOUS
  <2>4. /\ DOMAIN t = DOMAIN s \cup {n}
        /\ t[n] = new
        /\ \A m \in DOMAIN s : t[m] = s[m]
    BY <1>2
  <2> HIDE DEF new, t
  <2>5. \A m \in DOMAIN t : t[m] \in Cache
    BY <2>2, <2>4 DEF Storage
  <2>6. t \in [DOMAIN t -> Cache]
    <3>1. t = [m \in DOMAIN t |-> t[m]]
      BY <2>4 DEF t
    <3> QED
      BY <2>5, <3>1
  <2>7. OrderedIn(t)
    BY <1>2, <2>3, <2>4 DEF Storage, OrderedIn
  <2> QED
    BY <2>1, <2>4, <2>6, <2>7 DEF Storage
<1> QED
  BY <1>1, <1>2

\* cache.put changes the one entry of the one cache, and the order not at all.
LEMMA PutInStores ==
    ASSUME NEW s, Storage(s), NEW n \in Versions, NEW p \in Assets, NEW c \in Nat
    PROVE  /\ Storage(PutIn(s, n, p, c))
           /\ DOMAIN PutIn(s, n, p, c) = DOMAIN s \cup {n}
           /\ PutIn(s, n, p, c)[n].body[p] = c
           /\ \A m \in DOMAIN s : PutIn(s, n, p, c)[m].older = s[m].older
           /\ \A m \in DOMAIN s, a \in Assets :
                 m # n \/ a # p => PutIn(s, n, p, c)[m].body[a] = s[m].body[a]
<1> DEFINE o == Open(s, n)
           t == [o EXCEPT ![n].body[p] = c]
<1>1. /\ Storage(o)
      /\ DOMAIN o = DOMAIN s \cup {n}
      /\ \A m \in DOMAIN s : o[m] = s[m]
  BY OpenKeeps
<1>2. PutIn(s, n, p, c) = t
  BY DEF PutIn
<1> HIDE DEF o
<1>3. o[n] \in Cache
  BY <1>1 DEF Storage
<1>4. t = [o EXCEPT ![n] = [o[n] EXCEPT !.body = [o[n].body EXCEPT ![p] = c]]]
  OBVIOUS
<1> DEFINE body == [o[n].body EXCEPT ![p] = c]
           own == [o[n] EXCEPT !.body = body]
<1>5. /\ body \in [Assets -> Nat]
      /\ body[p] = c
      /\ \A a \in Assets \ {p} : body[a] = o[n].body[a]
  BY <1>3 DEF Cache
<1>6. own.body = body /\ own.older = o[n].older /\ own \in Cache
  <2> HIDE DEF body
  <2> QED
    BY <1>3, <1>5 DEF Cache
<1>7. /\ DOMAIN t = DOMAIN o
      /\ t[n] = own
      /\ \A m \in DOMAIN o \ {n} : t[m] = o[m]
      /\ t \in [DOMAIN o -> Cache]
  <2> HIDE DEF own, t
  <2>1. t = [o EXCEPT ![n] = own]
    BY <1>4 DEF own
  <2> QED
    BY <1>1, <1>6, <2>1 DEF Storage
<1> HIDE DEF own, t, body
<1>8. \A m \in DOMAIN t : t[m].older = o[m].older
  BY <1>6, <1>7
<1>9. OrderedIn(t)
  BY <1>1, <1>7, <1>8 DEF Storage, OrderedIn
<1>10. \A m \in DOMAIN s, a \in Assets : m # n \/ a # p => t[m].body[a] = s[m].body[a]
  <2> SUFFICES ASSUME NEW m \in DOMAIN s, NEW a \in Assets, m # n \/ a # p
               PROVE  t[m].body[a] = s[m].body[a]
    OBVIOUS
  <2>1. CASE m = n
    BY <1>1, <1>5, <1>6, <1>7, <2>1
  <2>2. CASE m # n
    BY <1>1, <1>7, <2>2
  <2> QED
    BY <2>1, <2>2
<1> QED
  BY <1>1, <1>2, <1>5, <1>6, <1>7, <1>8, <1>9, <1>10 DEF Storage

-----------------------------------------------------------------------------
(* Life cycle *)

\* A version on its way or active is never on its way again: a start leaves what
\* is said of the active one, and only adds a cache behind the others.
LEMMA InstallStep ==
    ASSUME ShellInv, NEW v \in Versions, Install(v)
    PROVE  ShellInv'
<1> USE ShellAssumption DEF ShellInv
<1>1. /\ Storage(stored)'
      /\ DOMAIN stored' = DOMAIN stored \cup {v}
      /\ \A m \in DOMAIN stored : stored'[m] = stored[m]
  <2>1. stored' = Open(stored, v)
    BY DEF Install
  <2> QED
    BY <2>1, OpenKeeps DEF Storage
<1>2. /\ worker[v] \in {"unknown", "failed"}
      /\ worker' = [worker EXCEPT ![v] = "installing"]
      /\ \A u \in Versions : u > v => worker[u] = "unknown"
      /\ \A u \in Versions : worker[u] \notin Pending
      /\ UNCHANGED <<server, doomed, req, puts, newest, raced>>
  BY DEF Install, Pending
<1>3. TypeOK'
  BY <1>2 DEF TypeOK, Stage
<1>4. /\ worker'[v] = "installing"
      /\ \A u \in Versions : u # v => worker'[u] = worker[u]
  BY <1>2 DEF TypeOK
<1>5. Succession'
  <2>1. \A u \in Versions : worker'[u] \in Pending => u = v
    BY <1>2, <1>4
  <2>2. \A u \in Versions : worker'[u] \in Ruling \cup Served <=> worker[u] \in Ruling \cup Served
    BY <1>2, <1>4 DEF Ruling, Served
  <2>3. \A u \in Versions : worker'[u] \in Ruling \cup Served => worker'[u] = worker[u]
    BY <1>2, <1>4 DEF Ruling, Served
  <2>4. \A u \in Versions : worker[u] \in Served => u < v
    BY <1>2 DEF Served
  <2> QED
    BY <1>2, <1>4, <2>1, <2>2, <2>3, <2>4 DEF Succession, Ruling, Served
<1>6. OwnCache'
  BY <1>1, <1>2, <1>4 DEF OwnCache, Pending, Ruling
<1>7. Callers'
  BY <1>2, <1>4 DEF Callers, Served
<1>8. InStep'
  <2> SUFFICES ASSUME NEW u \in Versions, worker'[u] = "activated", NEW p \in Assets \ raced'
               PROVE  Unraced(u, p)'
    BY DEF InStep
  <2>1. worker[u] = "activated"
    BY <1>2, <1>4
  <2>2. u \in DOMAIN stored
    BY <2>1 DEF OwnCache, Ruling
  <2>3. stored'[u] = stored[u]
    BY <1>1, <2>2
  <2>4. Unraced(u, p)
    BY <1>2, <2>1 DEF InStep
  <2> QED
    BY <1>2, <2>3, <2>4 DEF Unraced, Asks, Writes
<1> QED
  BY <1>1, <1>3, <1>5, <1>6, <1>7, <1>8

\* What addAll leaves: the shell is in the cache, its place among the caches is
\* what it was, and the other caches are untouched.
LEMMA FilledCache ==
    ASSUME TypeOK, Storage(stored), NEW v \in DOMAIN stored, InstallDone(v)
    PROVE  /\ Storage(stored)'
           /\ DOMAIN stored' = DOMAIN stored
           /\ stored'[v].older = stored[v].older
           /\ \A p \in SHELL[v] : stored'[v].body[p] # 0
<1> USE ShellAssumption
<1> DEFINE body == [p \in Assets |-> IF p \in SHELL[v] THEN server[p] ELSE stored[v].body[p]]
           own == [stored[v] EXCEPT !.body = body]
<1>1. stored[v] \in Cache
  BY DEF Storage
<1>2. /\ body \in [Assets -> Nat]
      /\ \A p \in SHELL[v] : body[p] # 0
  BY <1>1 DEF TypeOK, Cache, Storage
<1>3. stored' = [stored EXCEPT ![v] = own]
  BY DEF InstallDone
<1> HIDE DEF body
<1>4. own.body = body /\ own.older = stored[v].older /\ own \in Cache
  BY <1>1, <1>2 DEF Cache
<1> HIDE DEF own
<1>5. /\ DOMAIN stored' = DOMAIN stored
      /\ stored'[v] = own
      /\ \A m \in DOMAIN stored \ {v} : stored'[m] = stored[m]
      /\ stored' \in [DOMAIN stored -> Cache]
  BY <1>3, <1>4 DEF Storage
<1>6. \A m \in DOMAIN stored' : stored'[m].older = stored[m].older
  BY <1>4, <1>5
<1>7. OrderedIn(stored')
  BY <1>5, <1>6 DEF Storage, OrderedIn
<1> QED
  BY <1>2, <1>4, <1>5, <1>7 DEF Storage

\* The version takes over: the older caches, all of them, are the ones it will
\* delete, and no version is active any more.
LEMMA InstallDoneStep ==
    ASSUME ShellInv, NEW v \in Versions, InstallDone(v)
    PROVE  ShellInv'
<1> USE ShellAssumption DEF ShellInv
<1>1. /\ worker[v] = "installing"
      /\ worker' = [u \in Versions |-> IF u = v THEN "activating"
                                       ELSE IF worker[u] = "activated" THEN "redundant" ELSE worker[u]]
      /\ doomed' = DOMAIN stored \ {v}
      /\ UNCHANGED <<server, req, puts, newest, raced>>
  BY DEF InstallDone
<1>2. v \in DOMAIN stored
  BY <1>1 DEF OwnCache, Pending
<1>3. /\ Storage(stored)'
      /\ DOMAIN stored' = DOMAIN stored
      /\ stored'[v].older = stored[v].older
      /\ \A p \in SHELL[v] : stored'[v].body[p] # 0
  BY <1>2, FilledCache
<1>4. TypeOK'
  BY <1>1 DEF TypeOK, Stage
<1>5. /\ worker'[v] = "activating"
      /\ \A u \in Versions : u # v => worker'[u] \notin {"installing", "activating", "activated"}
      /\ \A u \in Versions : u # v => (worker'[u] \in Served <=> worker[u] \in Served)
  BY <1>1 DEF Succession, Pending, Served
<1>6. Succession'
  BY <1>1, <1>5 DEF Succession, Pending, Ruling, Served
<1>7. OwnCache'
  <2>1. \A u \in Versions : worker'[u] \in Pending \cup Ruling => u = v
    BY <1>5 DEF Pending, Ruling
  <2>2. stored[v].older \subseteq doomed'
    BY <1>1, <1>2 DEF Storage, OrderedIn
  <2>3. v \notin doomed' /\ v \in DOMAIN stored'
    BY <1>1, <1>2, <1>3
  <2> QED
    BY <1>3, <1>5, <2>1, <2>2, <2>3 DEF OwnCache, Ruling, Pending
<1>8. Callers'
  <2>1. \A u \in Versions : worker[u] \in Served => worker'[u] \in Served
    BY <1>1, <1>5 DEF Served
  <2>2. \A w \in puts : w.v \in Versions
    BY DEF TypeOK, Put
  <2> QED
    BY <1>1, <2>1, <2>2 DEF Callers
<1>9. InStep'
  BY <1>5 DEF InStep
<1> QED
  BY <1>3, <1>4, <1>6, <1>7, <1>8, <1>9

\* A failed install leaves everything but the state of the version.
LEMMA InstallFailedStep ==
    ASSUME ShellInv, NEW v \in Versions, InstallFailed(v)
    PROVE  ShellInv'
<1> USE ShellAssumption DEF ShellInv
<1>1. /\ worker[v] = "installing"
      /\ worker' = [worker EXCEPT ![v] = "failed"]
      /\ UNCHANGED <<server, stored, doomed, req, puts, newest, raced>>
  BY DEF InstallFailed
<1>2. TypeOK'
  BY <1>1 DEF TypeOK, Stage
<1>3. /\ worker'[v] = "failed"
      /\ \A u \in Versions : u # v => worker'[u] = worker[u]
  BY <1>1 DEF TypeOK
<1>4. Succession'
  BY <1>1, <1>3 DEF Succession, Pending, Ruling, Served
<1>5. OwnCache'
  BY <1>1, <1>3 DEF OwnCache, Pending, Ruling
<1>6. Callers'
  BY <1>1, <1>3 DEF Callers, Served
<1>7. InStep'
  BY <1>1, <1>3 DEF InStep, Unraced, Asks, Writes
<1> QED
  BY <1>1, <1>2, <1>4, <1>5, <1>6, <1>7

\* The deletions are done: what was older is gone, so nothing is; and no request
\* or put of the version can be under way before it was active.
LEMMA ActivateDoneStep ==
    ASSUME ShellInv, NEW v \in Versions, ActivateDone(v)
    PROVE  ShellInv'
<1> USE ShellAssumption DEF ShellInv
<1>1. /\ worker[v] = "activating"
      /\ worker' = [worker EXCEPT ![v] = "activated"]
      /\ stored' = [n \in DOMAIN stored \ doomed |-> [stored[n] EXCEPT !.older = @ \ doomed]]
      /\ newest' = NoEntries
      /\ raced' = {}
      /\ UNCHANGED <<server, req, puts>>
  BY DEF ActivateDone
<1>2. /\ worker'[v] = "activated"
      /\ \A u \in Versions : u # v => worker'[u] = worker[u]
      /\ \A u \in Versions : u # v => worker[u] \notin Pending \cup Ruling
  BY <1>1 DEF TypeOK, Succession, Pending, Ruling
<1>3. v \in DOMAIN stored \ doomed /\ stored[v].older \subseteq doomed
  BY <1>1 DEF OwnCache, Pending
<1>4. \A n \in DOMAIN stored \ doomed :
         /\ [stored[n] EXCEPT !.older = @ \ doomed].older = stored[n].older \ doomed
         /\ [stored[n] EXCEPT !.older = @ \ doomed].body = stored[n].body
         /\ [stored[n] EXCEPT !.older = @ \ doomed] \in Cache
  BY DEF Storage, Cache
<1>5. /\ DOMAIN stored' = DOMAIN stored \ doomed
      /\ stored' \in [DOMAIN stored \ doomed -> Cache]
      /\ \A n \in DOMAIN stored' : stored'[n].older = stored[n].older \ doomed
      /\ \A n \in DOMAIN stored' : stored'[n].body = stored[n].body
  BY <1>1, <1>4
<1>6. Storage(stored)'
  <2>1. OrderedIn(stored')
    BY <1>5 DEF Storage, OrderedIn
  <2> QED
    BY <1>5, <2>1 DEF Storage
<1>7. TypeOK'
  BY <1>1 DEF TypeOK, Stage, NoEntries
<1>8. Succession'
  BY <1>1, <1>2 DEF Succession, Pending, Ruling, Served
<1>9. OwnCache'
  <2>1. \A u \in Versions : worker'[u] \in Pending \cup Ruling => u = v
    BY <1>2
  <2>2. stored'[v].older = {} /\ v \in DOMAIN stored'
    BY <1>3, <1>5
  <2>3. \A p \in SHELL[v] : stored'[v].body[p] # 0
    BY <1>1, <1>5, <2>2 DEF OwnCache, Ruling
  <2> QED
    BY <1>2, <2>1, <2>2, <2>3 DEF OwnCache, Ruling
<1>10. Callers'
  BY <1>1, <1>2 DEF Callers, Served
<1>11. InStep'
  <2> SUFFICES ASSUME NEW u \in Versions, worker'[u] = "activated", NEW p \in Assets
               PROVE  Unraced(u, p)'
    BY DEF InStep
  <2>1. u = v
    BY <1>2 DEF Ruling
  <2>2. \A r \in Requests : ~ Asks(r, u, p)
    BY <1>1, <2>1 DEF Callers, Asks, Served
  <2>3. \A w \in puts : ~ Writes(w, u, p)
    BY <1>1, <2>1 DEF Callers, Writes, Served
  <2>4. newest'[p] = 0
    BY <1>1 DEF NoEntries
  <2>5. stored'[v].body[p] \in Nat
    BY <1>3, <1>5 DEF Cache
  <2> QED
    BY <1>1, <2>1, <2>2, <2>3, <2>4, <2>5 DEF Unraced, Asks, Writes
<1> QED
  BY <1>6, <1>7, <1>8, <1>9, <1>10, <1>11

\* The browser stops a worker: the assets whose puts are lost count as raced.
LEMMA StoppedStep ==
    ASSUME ShellInv, NEW v \in Versions, Stopped(v)
    PROVE  ShellInv'
<1> USE ShellAssumption DEF ShellInv
<1>1. /\ puts' = {w \in puts : w.v # v}
      /\ raced' = IF worker[v] = "activated" THEN raced \cup {w.p : w \in {x \in puts : x.v = v}} ELSE raced
      /\ UNCHANGED <<server, worker, stored, doomed, req, newest>>
  BY DEF Stopped
<1>2. raced \subseteq raced' /\ puts' \subseteq puts
  BY <1>1
<1>3. TypeOK'
  <2>1. \A w \in puts : w.p \in Assets
    BY DEF TypeOK, Put
  <2>2. raced' \subseteq Assets
    BY <1>1, <2>1 DEF TypeOK
  <2> QED
    BY <1>1, <1>2, <2>2 DEF TypeOK
<1>4. InStep'
  <2> SUFFICES ASSUME NEW u \in Versions, worker[u] = "activated", NEW p \in Assets \ raced'
               PROVE  Unraced(u, p)'
    BY <1>1 DEF InStep
  <2>1. Unraced(u, p)
    BY <1>2 DEF InStep
  <2>2. \A w \in puts : Writes(w, u, p) => w \in puts'
    <3> SUFFICES ASSUME NEW w \in puts, Writes(w, u, p), w.v = v
                 PROVE  FALSE
      BY <1>1
    <3>1. w \in {x \in puts : x.v = v} /\ u = v /\ w.p = p
      BY DEF Writes
    <3> QED
      BY <1>1, <3>1
  <2> QED
    BY <1>1, <1>2, <2>1, <2>2 DEF Unraced, Asks, Writes
<1> QED
  BY <1>1, <1>2, <1>3, <1>4 DEF Succession, OwnCache, Callers, Storage

-----------------------------------------------------------------------------
(* The fetch handler *)

\* A request enters: when it is the second for its asset, or a put is under way,
\* the asset counts as raced from here on.
LEMMA FetchStep ==
    ASSUME ShellInv, NEW r \in Requests, NEW v \in Versions, NEW p \in Assets,
           NEW mode \in {"shell", "navigate"}, Fetch(r, v, p, mode)
    PROVE  ShellInv'
<1> USE ShellAssumption DEF ShellInv
<1> DEFINE q == [v |-> v, p |-> p, mode |-> mode]
<1>1. /\ worker[v] = "activated"
      /\ p \in SHELL[v]
      /\ req' = [req EXCEPT ![r] = q]
      /\ raced' = IF /\ mode = "shell"
                     /\ \/ \E x \in Requests : Asks(x, v, p)
                        \/ \E w \in puts : Writes(w, v, p)
                  THEN raced \cup {p} ELSE raced
      /\ UNCHANGED <<server, worker, stored, doomed, puts, newest>>
  BY DEF Fetch, Asks, Writes
<1>2. /\ req'[r] = q
      /\ \A x \in Requests : x # r => req'[x] = req[x]
      /\ req' \in [Requests -> Request]
      /\ raced \subseteq raced' /\ raced' \subseteq Assets
  BY <1>1 DEF TypeOK, Request
<1>3. TypeOK'
  BY <1>1, <1>2 DEF TypeOK
<1>4. Callers'
  BY <1>1, <1>2 DEF Callers, Served
<1>5. InStep'
  <2> SUFFICES ASSUME NEW u \in Versions, worker[u] = "activated", NEW a \in Assets \ raced'
               PROVE  Unraced(u, a)'
    BY <1>1 DEF InStep
  <2>1. Unraced(u, a)
    BY <1>2 DEF InStep
  <2>2. \A x \in Requests : x # r => (Asks(x, u, a)' <=> Asks(x, u, a))
    BY <1>2 DEF Asks
  <2>3. Asks(r, u, a)' => /\ \A x \in Requests : ~ Asks(x, u, a)
                          /\ \A w \in puts : ~ Writes(w, u, a)
    <3> SUFFICES ASSUME q = [v |-> u, p |-> a, mode |-> "shell"]
                 PROVE  /\ \A x \in Requests : ~ Asks(x, u, a)
                        /\ \A w \in puts : ~ Writes(w, u, a)
      BY <1>2 DEF Asks
    <3>1. v = u /\ p = a /\ mode = "shell"
      OBVIOUS
    <3> QED
      BY <1>1, <3>1
  <2> QED
    BY <1>1, <2>1, <2>2, <2>3 DEF Unraced, Writes
<1> QED
  BY <1>1, <1>3, <1>4, <1>5 DEF Succession, OwnCache, Storage

\* The end of a request, whatever becomes of its answer.
LEMMA RequestEnds ==
    ASSUME ShellInv, NEW r \in Requests, req' = [req EXCEPT ![r] = Idle],
           UNCHANGED worker, puts' \subseteq Put, \A w \in puts' : worker[w.v] \in Served
    PROVE  /\ req' \in [Requests -> Request]
           /\ Callers'
           /\ \A v \in Versions, p \in Assets : ~ Asks(r, v, p)'
           /\ \A x \in Requests, v \in Versions, p \in Assets :
                 x # r => (Asks(x, v, p)' <=> Asks(x, v, p))
<1> USE ShellAssumption DEF ShellInv
<1>1. /\ req'[r] = Idle
      /\ \A x \in Requests : x # r => req'[x] = req[x]
      /\ req' \in [Requests -> Request]
  BY DEF TypeOK, Request, Idle
<1>2. Idle.mode = "idle" /\ Idle.v = 0
  BY DEF Idle
<1>3. Callers'
  BY <1>1, <1>2 DEF Callers
<1>4. \A v \in Versions, p \in Assets : Idle # [v |-> v, p |-> p, mode |-> "shell"]
  BY DEF Idle
<1> QED
  BY <1>1, <1>3, <1>4 DEF Asks

\* An answer: the put it starts has what is now the newest, and is the only
\* thing under way for an asset no race has touched.
LEMMA AnsweredStep ==
    ASSUME ShellInv, NEW r \in Requests, NEW ok \in BOOLEAN, Answered(r, ok)
    PROVE  ShellInv'
<1> USE ShellAssumption DEF ShellInv
<1>1. /\ req[r].mode # "idle"
      /\ req' = [req EXCEPT ![r] = Idle]
      /\ UNCHANGED <<server, worker, stored, doomed, raced>>
  BY DEF Answered
<1>2. /\ req[r] \in Request
      /\ req[r].v \in Versions /\ worker[req[r].v] \in Served
      /\ req[r].p \in SHELL[req[r].v] /\ req[r].p \in Assets
  BY <1>1 DEF TypeOK, Callers
<1> DEFINE put == [v |-> req[r].v, p |-> req[r].p, c |-> server[req[r].p]]
<1>3. CASE ok /\ req[r].mode = "shell"
  <2>1. /\ puts' = puts \cup {put}
        /\ newest' = IF worker[req[r].v] = "activated"
                     THEN [newest EXCEPT ![req[r].p] = server[req[r].p]] ELSE newest
    BY <1>3 DEF Answered
  <2>2. /\ put \in Put
        /\ put.v = req[r].v /\ put.p = req[r].p /\ put.c = server[req[r].p]
    BY <1>2 DEF TypeOK, Put
  <2>3. Asks(r, req[r].v, req[r].p)
    BY <1>2, <1>3 DEF Asks, Request
  <2> HIDE DEF put
  <2>4. /\ puts' \subseteq Put
        /\ \A w \in puts' : worker[w.v] \in Served
    BY <1>2, <2>1, <2>2 DEF TypeOK, Callers
  <2>5. /\ req' \in [Requests -> Request]
        /\ Callers'
        /\ \A v \in Versions, p \in Assets : ~ Asks(r, v, p)'
        /\ \A x \in Requests, v \in Versions, p \in Assets :
              x # r => (Asks(x, v, p)' <=> Asks(x, v, p))
    BY <1>1, <2>4, RequestEnds
  <2>6. newest' \in [Assets -> Nat]
    BY <1>2, <2>1 DEF TypeOK
  <2>7. TypeOK'
    BY <1>1, <2>4, <2>5, <2>6 DEF TypeOK
  <2>8. InStep'
    <3> SUFFICES ASSUME NEW v \in Versions, worker[v] = "activated", NEW p \in Assets \ raced
                 PROVE  Unraced(v, p)'
      BY <1>1 DEF InStep
    <3>1. Unraced(v, p)
      BY DEF InStep
    <3>2. CASE v = req[r].v /\ p = req[r].p
      <4>1. \A w \in puts : ~ Writes(w, v, p)
        BY <2>3, <3>1, <3>2 DEF Unraced
      <4>2. \A x \in Requests : ~ Asks(x, v, p)'
        BY <2>3, <2>5, <3>1, <3>2 DEF Unraced
      <4>3. newest'[p] = put.c
        BY <1>2, <2>1, <2>2, <3>2 DEF TypeOK
      <4>4. Writes(put, v, p)
        BY <2>2, <3>2 DEF Writes
      <4> QED
        BY <2>1, <4>1, <4>2, <4>3, <4>4 DEF Unraced, Writes
    <3>3. CASE ~ (v = req[r].v /\ p = req[r].p)
      <4>1. ~ Writes(put, v, p)
        BY <2>2, <3>3 DEF Writes
      <4>2. newest'[p] = newest[p]
        <5>1. CASE worker[req[r].v] = "activated"
          <6>1. v = req[r].v
            BY <1>2, <5>1 DEF Succession, Ruling
          <6> QED
            BY <2>1, <3>3, <6>1 DEF TypeOK
        <5>2. CASE worker[req[r].v] # "activated"
          BY <2>1, <5>2
        <5> QED
          BY <5>1, <5>2
      <4> QED
        BY <1>1, <2>1, <2>5, <3>1, <4>1, <4>2 DEF Unraced, Writes
    <3> QED
      BY <3>2, <3>3
  <2> QED
    BY <1>1, <2>5, <2>7, <2>8 DEF Succession, OwnCache, Storage
<1>4. CASE ~ (ok /\ req[r].mode = "shell")
  <2>1. UNCHANGED <<puts, newest>>
    BY <1>4 DEF Answered
  <2>2. /\ req' \in [Requests -> Request]
        /\ Callers'
        /\ \A v \in Versions, p \in Assets : ~ Asks(r, v, p)'
        /\ \A x \in Requests, v \in Versions, p \in Assets :
              x # r => (Asks(x, v, p)' <=> Asks(x, v, p))
    BY <1>1, <2>1, RequestEnds DEF TypeOK, Callers
  <2>3. InStep'
    BY <1>1, <2>1, <2>2 DEF InStep, Unraced, Writes
  <2> QED
    BY <1>1, <2>1, <2>2, <2>3 DEF TypeOK, Succession, OwnCache, Storage
<1> QED
  BY <1>3, <1>4

\* No answer: the request ends and nothing is stored.
LEMMA UnansweredStep ==
    ASSUME ShellInv, NEW r \in Requests, Unanswered(r)
    PROVE  ShellInv'
<1> USE ShellAssumption DEF ShellInv
<1>1. /\ req' = [req EXCEPT ![r] = Idle]
      /\ UNCHANGED <<server, worker, stored, doomed, puts, newest, raced>>
  BY DEF Unanswered
<1>2. /\ req' \in [Requests -> Request]
      /\ Callers'
      /\ \A v \in Versions, p \in Assets : ~ Asks(r, v, p)'
      /\ \A x \in Requests, v \in Versions, p \in Assets :
            x # r => (Asks(x, v, p)' <=> Asks(x, v, p))
  BY <1>1, RequestEnds DEF TypeOK, Callers
<1>3. InStep'
  BY <1>1, <1>2 DEF InStep, Unraced, Writes
<1> QED
  BY <1>1, <1>2, <1>3 DEF TypeOK, Succession, OwnCache, Storage

\* A put lands: in the active cache it is the newest answer, in any other it
\* may create the cache again, behind the others.
LEMMA PutLandsStep ==
    ASSUME ShellInv, NEW w \in puts, PutLands(w)
    PROVE  ShellInv'
<1> USE ShellAssumption DEF ShellInv
<1>1. /\ puts' = puts \ {w}
      /\ stored' = PutIn(stored, w.v, w.p, w.c)
      /\ UNCHANGED <<server, worker, doomed, req, newest, raced>>
  BY DEF PutLands
<1>2. w.v \in Versions /\ w.p \in Assets /\ w.c \in Nat \ {0}
  BY DEF TypeOK, Put
<1>3. /\ Storage(stored)'
      /\ DOMAIN stored' = DOMAIN stored \cup {w.v}
      /\ stored'[w.v].body[w.p] = w.c
      /\ \A m \in DOMAIN stored : stored'[m].older = stored[m].older
      /\ \A m \in DOMAIN stored, a \in Assets :
            m # w.v \/ a # w.p => stored'[m].body[a] = stored[m].body[a]
  <2> DEFINE t == PutIn(stored, w.v, w.p, w.c)
  <2>1. /\ Storage(t)
        /\ DOMAIN t = DOMAIN stored \cup {w.v}
        /\ t[w.v].body[w.p] = w.c
        /\ \A m \in DOMAIN stored : t[m].older = stored[m].older
        /\ \A m \in DOMAIN stored, a \in Assets :
              m # w.v \/ a # w.p => t[m].body[a] = stored[m].body[a]
    <3>1. Storage(stored) /\ w.v \in Versions /\ w.p \in Assets /\ w.c \in Nat
      BY <1>2
    <3>2. PICK n \in Versions, p \in Assets, c \in Nat : n = w.v /\ p = w.p /\ c = w.c
      BY <3>1
    <3>3. /\ Storage(PutIn(stored, n, p, c))
          /\ DOMAIN PutIn(stored, n, p, c) = DOMAIN stored \cup {n}
          /\ PutIn(stored, n, p, c)[n].body[p] = c
          /\ \A m \in DOMAIN stored : PutIn(stored, n, p, c)[m].older = stored[m].older
          /\ \A m \in DOMAIN stored, a \in Assets :
                m # n \/ a # p => PutIn(stored, n, p, c)[m].body[a] = stored[m].body[a]
      BY <3>1, PutInStores
    <3> QED
      BY <3>2, <3>3
  <2> HIDE DEF t
  <2>2. stored' = t
    BY <1>1 DEF t
  <2>3. Storage(stored)'
    BY <2>1, <2>2 DEF Storage
  <2> QED
    BY <2>1, <2>2, <2>3
<1>4. OwnCache'
  <2>1. \A v \in DOMAIN stored, p \in Assets :
           stored[v].body[p] # 0 => stored'[v].body[p] # 0
    BY <1>2, <1>3
  <2>2. \A v \in Versions : \A p \in SHELL[v] : p \in Assets
    OBVIOUS
  <2>3. \A v \in Versions : worker[v] \in Ruling => v \in DOMAIN stored
    BY DEF OwnCache
  <2>4. \A v \in Versions : worker[v] \in Ruling => \A p \in SHELL[v] : stored'[v].body[p] # 0
    BY <2>1, <2>2, <2>3 DEF OwnCache
  <2> QED
    BY <1>1, <1>3, <2>3, <2>4 DEF OwnCache, Ruling
<1>5. InStep'
  <2> SUFFICES ASSUME NEW v \in Versions, worker[v] = "activated", NEW p \in Assets \ raced
               PROVE  Unraced(v, p)'
    BY <1>1 DEF InStep
  <2>1. Unraced(v, p)
    BY DEF InStep
  <2>2. v \in DOMAIN stored
    BY DEF OwnCache, Ruling
  <2>3. CASE Writes(w, v, p)
    <3>1. stored'[v].body[p] = newest[p]
      BY <1>3, <2>1, <2>3 DEF Unraced, Writes
    <3>2. newest[p] <= newest[p]
      BY DEF TypeOK
    <3> QED
      BY <1>1, <2>1, <3>1, <3>2 DEF Unraced, Asks, Writes
  <2>4. CASE ~ Writes(w, v, p)
    <3>1. stored'[v].body[p] = stored[v].body[p]
      BY <1>3, <2>2, <2>4 DEF Writes
    <3>2. \A x \in puts : Writes(x, v, p) => x \in puts'
      BY <1>1, <2>4
    <3> QED
      BY <1>1, <2>1, <3>1, <3>2 DEF Unraced, Asks, Writes
  <2> QED
    BY <2>3, <2>4
<1> QED
  BY <1>1, <1>3, <1>4, <1>5 DEF TypeOK, Succession, Callers

-----------------------------------------------------------------------------
(* Environment *)

\* Deployments and the network change nothing the invariant is about.
LEMMA EnvironmentStep ==
    ASSUME ShellInv, (\E p \in Assets : Deploy(p)) \/ Network \/ UNCHANGED vars
    PROVE  ShellInv'
<1>1. /\ server' \in [Assets -> Nat \ {0}]
      /\ UNCHANGED <<worker, stored, doomed, req, puts, newest, raced>>
  BY DEF ShellInv, TypeOK, Deploy, Network, vars
<1> QED
  BY <1>1 DEF ShellInv, TypeOK, Storage, Succession, OwnCache, Callers, InStep, Unraced, Asks, Writes

-----------------------------------------------------------------------------
(* The theorems *)

\* The invariant of the takeover: types, order of the caches, life cycle, and
\* what is said above of the cache, the requests and the puts of each version.
THEOREM ShellInvariant == Spec => []ShellInv
<1>1. Init => ShellInv
  <2> SUFFICES ASSUME Init
               PROVE  ShellInv
    OBVIOUS
  <2>1. TypeOK
    BY DEF Init, TypeOK, Stage, Request, Put, Idle, NoEntries
  <2>2. DOMAIN stored = {} /\ Storage(stored)
    BY DEF Init, Storage, OrderedIn
  <2>3. \A v \in Versions : worker[v] = "unknown"
    BY DEF Init
  <2>4. Callers
    BY DEF Init, Callers, Idle
  <2> QED
    BY <2>1, <2>2, <2>3, <2>4 DEF ShellInv, Succession, OwnCache, InStep, Pending, Ruling, Served
<1>2. ShellInv /\ [Next]_vars => ShellInv'
  <2> SUFFICES ASSUME ShellInv, [Next]_vars
               PROVE  ShellInv'
    OBVIOUS
  <2>1. CASE \E v \in Versions : Install(v) \/ InstallDone(v) \/ InstallFailed(v) \/ ActivateDone(v) \/ Stopped(v)
    BY <2>1, InstallStep, InstallDoneStep, InstallFailedStep, ActivateDoneStep, StoppedStep
  <2>2. CASE \E r \in Requests, v \in Versions, p \in Assets, m \in {"shell", "navigate"} : Fetch(r, v, p, m)
    BY <2>2, FetchStep
  <2>3. CASE \E r \in Requests : Unanswered(r) \/ \E ok \in BOOLEAN : Answered(r, ok)
    BY <2>3, UnansweredStep, AnsweredStep
  <2>4. CASE \E w \in puts : PutLands(w)
    BY <2>4, PutLandsStep
  <2>5. CASE (\E p \in Assets : Deploy(p)) \/ Network \/ UNCHANGED vars
    BY <2>5, EnvironmentStep
  <2> QED
    BY <2>1, <2>2, <2>3, <2>4, <2>5 DEF Next
<1> QED
  BY <1>1, <1>2, PTL DEF Spec

\* What an activated worker is answered from is its own cache, and a request of a
\* version it replaced still finds every asset the newer shells have too: the
\* catch of the fetch handler (caches.match) never comes back with nothing.
THEOREM OwnShell == Spec => []AnsweredFromOwnShell
<1>1. ShellInv => AnsweredFromOwnShell
  <2> USE ShellAssumption DEF ShellInv
  <2> SUFFICES ASSUME ShellInv, NEW v \in Versions
               PROVE  /\ worker[v] = "activated" => \A p \in SHELL[v] : Match(p) = v
                      /\ \A r \in Requests :
                            req[r].v = v /\ (\A u \in Versions : u > v => req[r].p \in SHELL[u])
                                => Hits(req[r].p) # {}
    BY DEF AnsweredFromOwnShell
  <2>1. ASSUME NEW u \in Versions, worker[u] \in Ruling, NEW p \in SHELL[u]
        PROVE  u \in Hits(p)
    BY <2>1 DEF OwnCache, Hits
  <2>2. ASSUME worker[v] = "activated", NEW p \in SHELL[v]
        PROVE  Match(p) = v
    <3>1. v \in Hits(p)
      BY <2>1, <2>2 DEF Ruling
    <3>2. stored[v].older = {}
      BY <2>2 DEF OwnCache
    <3>3. \A n \in Hits(p) : n = v \/ v \in stored[n].older
      BY <3>1, <3>2 DEF Storage, OrderedIn, Hits
    <3>4. \A n \in Hits(p) : stored[n].older \cap Hits(p) = {} <=> n = v
      BY <3>1, <3>2, <3>3
    <3>5. (CHOOSE n \in Hits(p) : stored[n].older \cap Hits(p) = {}) = v
      BY <3>1, <3>4
    <3> QED
      BY <3>1, <3>5 DEF Match
  <2>3. ASSUME NEW r \in Requests, req[r].v = v, \A u \in Versions : u > v => req[r].p \in SHELL[u]
        PROVE  Hits(req[r].p) # {}
    <3>1. worker[v] \in Served /\ req[r].p \in SHELL[v]
      BY <2>3 DEF Callers
    <3>2. PICK a \in Versions : worker[a] \in Ruling
      BY <3>1 DEF Succession
    <3>3. a = v \/ a > v
      <4>1. CASE worker[v] = "activated"
        BY <3>2, <4>1 DEF Succession, Ruling
      <4>2. CASE worker[v] = "redundant"
        BY <3>1, <3>2, <4>2 DEF Succession, Ruling, Pending
      <4> QED
        BY <3>1, <4>1, <4>2 DEF Served
    <3>4. req[r].p \in SHELL[a]
      BY <2>3, <3>1, <3>3
    <3> QED
      BY <2>1, <3>2, <3>4
  <2> QED
    BY <2>2, <2>3
<1> QED
  BY <1>1, ShellInvariant, PTL

\* What the active worker would show offline is behind what it last showed online
\* only while the put of that answer is under way, or after a race: the put that
\* sw.js does not wait for was lost, or overtaken by an overlapping request.
THEOREM BehindNeedsRace == Spec => []StaleNeedsRace
<1>1. ShellInv => StaleNeedsRace
  <2> SUFFICES ASSUME ShellInv, NEW v \in Versions, NEW p \in Assets,
                      worker[v] = "activated", v \in DOMAIN stored,
                      stored[v].body[p] < newest[p], p \notin raced
               PROVE  \E w \in puts : w.v = v /\ w.p = p
    BY DEF StaleNeedsRace
  <2>1. Unraced(v, p)
    BY DEF ShellInv, InStep
  <2>2. stored[v].body[p] \in Nat /\ newest[p] \in Nat
    BY DEF ShellInv, TypeOK, Storage, Cache
  <2> QED
    BY <2>1, <2>2 DEF Unraced, Writes
<1> QED
  BY <1>1, ShellInvariant, PTL
-----------------------------------------------------------------------------
(* DevicesTable: the invariant *)

Key == [num : Nat, txt : Nat]
Heading == [col : Cols, dir : {"asc", "desc"}]
Choice == (SUBSET Cols) \cup {None}

\* A loaded page: each place of the table holds a device of the list.
Page == [present : BOOLEAN, order : [DOMAIN Rows[name] -> Ids], keys : [Ids -> Key],
         off : SUBSET Cols, hidden : SUBSET Ids, checked : SUBSET Ids,
         counter : {Cardinality(s) : s \in SUBSET Ids}, query : DOMAIN Queries \cup {None},
         sort : Heading \cup {None}, mem : Choice, boxes : Choice, chosen : Choice]

\* The selection and its counter, of a table or of what is left of one.
Selected(p) == p.checked \cap p.hidden = {} /\ p.counter = Cardinality(p.checked)

\* No two rows are the wrong way round for the heading last clicked.
Sorted(p) ==
    p.sort # None /\ Consistent(p.keys, p.sort) =>
        \A i, j \in DOMAIN p.order : i < j => ~Before(p.keys, p.sort, p.order[j], p.order[i])

\* The columns are those last chosen, in the table and in the menu.
Chosen(p) == (p.chosen # None => p.off = p.chosen) /\ p.boxes = Cols \ p.off

\* The page's own choice is the one last made on it, whether it was stored or not.
Settled(p) ==
    /\ Selected(p)
    /\ p.mem = p.chosen
    /\ p.present => Chosen(p) /\ Sorted(p)

TableInv ==
    /\ name \in Names
    /\ storage \in Choice
    /\ page \in [AllTabs -> Page \cup {None}]
    /\ \A t \in AllTabs : page[t] # None => Settled(page[t])

-----------------------------------------------------------------------------

\* The comparator of applySort never puts each of two rows before the other.
LEMMA BeforeIsAsymmetric ==
    ASSUME name \in Names, NEW k \in [Ids -> Key], NEW s \in Heading, NEW d \in Ids, NEW e \in Ids
    PROVE  Before(k, s, d, e) => ~Before(k, s, e, d)
<1>1. \A x \in Ids : cellKey(k, x, s.col) \in Key
  <2> SUFFICES ASSUME NEW x \in Ids
               PROVE  cellKey(k, x, s.col) \in Key
    OBVIOUS
  <2>1. k[x] \in Key
    OBVIOUS
  <2>2. (CHOOSE i \in DOMAIN Rows[name] : Rows[name][i] = x) \in Nat
    <3>1. \E i \in DOMAIN Rows[name] : Rows[name][i] = x
      BY DEF Ids, Range
    <3>2. DOMAIN Rows[name] \subseteq Nat
      BY TableAssumption
    <3> QED
      BY <3>1, <3>2
  <2> QED
    BY <2>1, <2>2 DEF cellKey, Key, NotNumeric
<1>2. \A a, b \in Key : compare(a, b, s.dir) = "lt" => compare(b, a, s.dir) # "lt"
  <2> SUFFICES ASSUME NEW a \in Key, NEW b \in Key, compare(a, b, s.dir) = "lt"
               PROVE  compare(b, a, s.dir) # "lt"
    OBVIOUS
  <2>1. a.num \in Nat /\ b.num \in Nat /\ a.txt \in Nat /\ b.txt \in Nat
    BY DEF Key
  <2>2. \A x, y \in Nat : (Sign(x, y) = "lt" <=> x < y) /\ (Sign(x, y) = "gt" <=> y < x)
    BY DEF Sign
  <2>3. CASE a = NoKey \/ b = NoKey
    BY <2>3 DEF compare
  <2>4. CASE ~(a = NoKey \/ b = NoKey)
    <3> DEFINE c(x, y) == IF numeric(x, y) THEN Sign(x.num, y.num) ELSE Sign(x.txt, y.txt)
    <3>1. compare(a, b, s.dir) = (IF s.dir = "desc" THEN Reverse3(c(a, b)) ELSE c(a, b))
      BY <2>4 DEF compare
    <3>2. compare(b, a, s.dir) = (IF s.dir = "desc" THEN Reverse3(c(b, a)) ELSE c(b, a))
      BY <2>4 DEF compare
    <3>3. numeric(a, b) <=> numeric(b, a)
      BY DEF numeric
    <3>4. /\ c(a, b) = "lt" => c(b, a) # "lt"
          /\ c(a, b) = "gt" => c(b, a) # "gt"
      BY <2>1, <2>2, <3>3
    <3> HIDE DEF c
    <3> QED
      BY <3>1, <3>2, <3>4 DEF Reverse3
  <2> QED
    BY <2>3, <2>4
<1> QED
  BY <1>1, <1>2 DEF Before

\* A row without a key is behind every row with one (compare).
LEMMA EmptyKeysLast ==
    ASSUME NEW k, NEW s, NEW d, NEW e,
           ~Before(k, s, e, d), cellKey(k, d, s.col) = NoKey
    PROVE  cellKey(k, e, s.col) = NoKey
  BY DEF Before, compare

\* What applySort may leave of a page: the rows it had, in an order that suits
\* the heading, and nothing else changed.
LEMMA SortKeeps ==
    ASSUME name \in Names, NEW p \in Page, NEW q \in applySort(p)
    PROVE  /\ q \in Page
           /\ q = [p EXCEPT !.order = q.order]
           /\ Sorted(q)
<1>1. CASE p.sort = None
  <2>1. q = p
    BY <1>1 DEF applySort
  <2>2. p = [p EXCEPT !.order = p.order]
    BY DEF Page
  <2> QED
    BY <1>1, <2>1, <2>2 DEF Sorted
<1>2. CASE p.sort # None
  <2>1. PICK r \in Bijection(DOMAIN p.order, Range(p.order)) :
              /\ q = [p EXCEPT !.order = r]
              /\ Consistent(p.keys, p.sort) =>
                    \A i, j \in DOMAIN r : i < j =>
                       \/ Before(p.keys, p.sort, r[i], r[j])
                       \/ ~Before(p.keys, p.sort, r[j], r[i]) /\ Pos(p.order, r[i]) < Pos(p.order, r[j])
    BY <1>2 DEF applySort
  <2>2. p.order \in [DOMAIN Rows[name] -> Ids]
    BY DEF Page
  <2>3. r \in [DOMAIN Rows[name] -> Ids]
    BY <2>1, <2>2 DEF Bijection, Injection, Range
  <2>4. q \in Page /\ q.order = r /\ q.keys = p.keys /\ q.sort = p.sort
    BY ONLY p \in Page, <2>1, <2>3 DEF Page
  <2>5. Sorted(q)
    <3> SUFFICES ASSUME Consistent(p.keys, p.sort), NEW i \in DOMAIN r, NEW j \in DOMAIN r, i < j
                 PROVE  ~Before(p.keys, p.sort, r[j], r[i])
      BY <2>4 DEF Sorted
    <3>1. p.keys \in [Ids -> Key] /\ p.sort \in Heading /\ r[i] \in Ids /\ r[j] \in Ids
      BY <1>2, <2>3 DEF Page
    <3> QED
      BY <2>1, <3>1, BeforeIsAsymmetric
  <2> QED
    BY <2>1, <2>4, <2>5
<1> QED
  BY <1>1, <1>2

\* apply(name) settles a page whose selection is counted, whatever the columns,
\* the filter and the heading it finds.
LEMMA ApplySettles ==
    ASSUME name \in Names, storage \in Choice, NEW p \in Page, Selected(p), p.mem = p.chosen,
           NEW q \in apply(p)
    PROVE  q \in Page /\ Settled(q)
<1>1. CASE ~p.present
  <2>1. q = p
    BY <1>1 DEF apply
  <2> QED
    BY <1>1, <2>1 DEF Settled
<1>2. CASE p.present
  <2> DEFINE a == applyColumns(p)
             b == syncMenu(a)
             c == applyFilter(b)
  <2>1. /\ a \in Page
        /\ a.checked = p.checked /\ a.hidden = p.hidden /\ a.counter = p.counter
        /\ a.mem = p.mem /\ a.chosen = p.chosen
        /\ a.chosen # None => a.off = a.chosen
    <3>1. storedOff(p.mem) \in Choice
      BY DEF storedOff, Page, Choice
    <3>2. p.chosen # None => storedOff(p.mem) = p.chosen
      BY DEF storedOff
    <3>3. a = [p EXCEPT !.off = IF storedOff(p.mem) = None THEN p.off ELSE storedOff(p.mem)]
      BY DEF applyColumns
    <3>4. (IF storedOff(p.mem) = None THEN p.off ELSE storedOff(p.mem)) \in SUBSET Cols
      <4>1. p.off \in SUBSET Cols
        BY DEF Page
      <4> QED
        BY <3>1, <4>1 DEF Choice
    <3> HIDE DEF a
    <3> QED
      BY ONLY p \in Page, p.mem = p.chosen, <3>2, <3>3, <3>4 DEF Page
  <2> HIDE DEF a
  <2>2. /\ b \in Page
        /\ b.checked = p.checked /\ b.hidden = p.hidden /\ b.counter = p.counter
        /\ b.mem = p.mem /\ b.chosen = p.chosen
        /\ Chosen(b)
    <3>1. b = [a EXCEPT !.boxes = Cols \ a.off]
      BY DEF syncMenu
    <3>2. Cols \ a.off \in Choice
      BY DEF Choice
    <3> HIDE DEF b
    <3> QED
      BY ONLY <2>1, <3>1, <3>2 DEF Page, Chosen
  <2> HIDE DEF b
  <2>3. /\ c \in Page
        /\ Selected(c)
        /\ c.mem = c.chosen
        /\ Chosen(c)
    <3> DEFINE out == IF b.query = None THEN {} ELSE Ids \ Queries[b.query]
               n == IF b.checked \cap out = {} THEN b.counter ELSE Cardinality(b.checked \ out)
    <3>1. c = [b EXCEPT !.hidden = out, !.checked = b.checked \ out, !.counter = n]
      BY DEF applyFilter
    <3>2. out \in SUBSET Ids /\ b.checked \in SUBSET Ids
      BY <2>2 DEF Page
    <3>3. n = Cardinality(b.checked \ out)
      <4>1. b.counter = Cardinality(b.checked)
        BY <2>2 DEF Selected
      <4>2. CASE b.checked \cap out = {}
        <5>1. b.checked \ out = b.checked
          BY <4>2
        <5> QED
          BY <4>1, <4>2, <5>1
      <4>3. CASE b.checked \cap out # {}
        BY <4>3
      <4> QED
        BY <4>2, <4>3
    <3>4. n \in {Cardinality(s) : s \in SUBSET Ids}
      BY <3>2, <3>3
    <3> HIDE DEF c, out, n
    <3>5. /\ c \in Page
          /\ c.checked = b.checked \ out /\ c.hidden = out /\ c.counter = n
          /\ c.mem = b.mem /\ c.chosen = b.chosen /\ c.off = b.off /\ c.boxes = b.boxes
      BY ONLY <2>2, <3>1, <3>2, <3>4 DEF Page
    <3> QED
      BY <2>2, <3>3, <3>5 DEF Selected, Chosen
  <2>4. q \in applySort(c)
    BY <1>2 DEF apply, a, b
  <2> HIDE DEF c
  <2>5. q \in Page /\ q = [c EXCEPT !.order = q.order] /\ Sorted(q)
    BY <2>3, <2>4, SortKeeps
  <2>6. /\ q.checked = c.checked /\ q.hidden = c.hidden /\ q.counter = c.counter
        /\ q.mem = c.mem /\ q.chosen = c.chosen /\ q.off = c.off /\ q.boxes = c.boxes
    BY ONLY <2>3, <2>5 DEF Page
  <2> QED
    BY <2>3, <2>5, <2>6 DEF Settled, Selected, Chosen
<1> QED
  BY <1>1, <1>2 DEF Page

\* A tab that shows the table is a tab.
LEMMA TabsAreTabs == name \in Names => Tabs[name] \subseteq AllTabs
  BY DEF AllTabs

\* One tab moves on to a settled page and the others stay as they are.
LEMMA TabStep ==
    ASSUME TableInv, NEW t \in AllTabs, NEW p \in Page, Settled(p), page' = [page EXCEPT ![t] = p],
           name' = name, storage' \in Choice
    PROVE  TableInv'
<1>1. Ids' = Ids /\ Page' = Page /\ AllTabs' = AllTabs
  BY DEF Ids, Page, AllTabs
<1>2. \A r : Settled(r)' <=> Settled(r)
  BY DEF Settled, Selected, Sorted, Chosen, Consistent, Before, cellKey, Ids
<1>3. page' \in [AllTabs -> Page \cup {None}]
  BY DEF TableInv
<1>4. \A u \in AllTabs : page'[u] # None => Settled(page'[u])
  BY DEF TableInv
<1> QED
  BY <1>1, <1>2, <1>3, <1>4 DEF TableInv

\* What the server renders settles, into a new page or one with the user's choices.
LEMMA RenderSettles ==
    ASSUME TableInv, NEW k \in Renders[name], NEW any \in BOOLEAN, NEW t \in AllTabs, NEW p,
           \/ p = Blank
           \/ p = page[t] /\ page[t] # None,
           NEW q \in apply(Rendered(p, k, any))
    PROVE  q \in Page /\ Settled(q)
<1> DEFINE r == Rendered(p, k, any)
<1>1. k \in [Ids -> Key] /\ Rows[name] \in [DOMAIN Rows[name] -> Ids]
  <2>1. Rows[name] \in Seq(Ids)
    BY TableAssumption DEF TableInv, Ids
  <2>2. Rows[name] \in [1..Len(Rows[name]) -> Ids] /\ DOMAIN Rows[name] = 1..Len(Rows[name])
    BY <2>1
  <2> QED
    BY <2>2, TableAssumption DEF TableInv, Ids, Key
<1>2. /\ r.order = Rows[name] /\ r.keys = k /\ r.off = DefaultOff
      /\ r.hidden = {} /\ r.checked = {} /\ r.counter = 0
      /\ r.mem = p.mem /\ r.chosen = p.chosen
  <2>1. CASE p = Blank
    BY ONLY <2>1 DEF Rendered, Blank
  <2>2. CASE p \in Page
    BY ONLY <2>2 DEF Rendered, Page
  <2> QED
    BY <2>1, <2>2 DEF TableInv
<1>3. /\ p.query \in DOMAIN Queries \cup {None} /\ p.sort \in Heading \cup {None}
      /\ p.mem \in Choice /\ p.boxes \in Choice /\ p.chosen \in Choice
      /\ p.mem = p.chosen
  <2>1. CASE p = Blank
    BY <2>1 DEF Blank, Choice
  <2>2. CASE p \in Page /\ Settled(p)
    BY <2>2 DEF Page, Settled
  <2> QED
    BY <2>1, <2>2 DEF TableInv
<1>4. Cardinality({}) = 0
  BY FS_EmptySet
<1>5. 0 \in {Cardinality(s) : s \in SUBSET Ids} /\ DefaultOff \in SUBSET Cols /\ {} \in SUBSET Ids
  BY <1>4, TableAssumption
<1> HIDE DEF r
<1>6. r \in Page
  <2>1. CASE p = Blank
    BY ONLY <1>1, <1>3, <1>5, <2>1, any \in BOOLEAN DEF Rendered, Blank, Page, r
  <2>2. CASE p \in Page
    BY ONLY <1>1, <1>5, <2>2, any \in BOOLEAN DEF Rendered, Page, r
  <2> QED
    BY <2>1, <2>2 DEF TableInv
<1>7. Selected(r) /\ r.mem = r.chosen
  BY ONLY <1>2, <1>3, <1>4 DEF Selected
<1> QED
  BY <1>6, <1>7, ApplySettles DEF TableInv, r

\* Every handler leaves every page settled.
LEMMA TableStep == TableInv /\ [TableNext]_tableVars => TableInv'
<1> SUFFICES ASSUME TableInv, [TableNext]_tableVars
             PROVE  TableInv'
  OBVIOUS
<1>a. name \in Names /\ Tabs[name] \subseteq AllTabs /\ storage \in Choice
  BY TabsAreTabs DEF TableInv
<1>b. \A t \in AllTabs : page[t] # None => page[t] \in Page /\ Settled(page[t])
  BY DEF TableInv
<1>1. ASSUME NEW t \in Tabs[name], NEW k \in Renders[name], NEW any \in BOOLEAN, Boot(t, k, any)
      PROVE  TableInv'
  <2>1. PICK q \in apply(Rendered(Blank, k, any)) : page' = [page EXCEPT ![t] = q]
    BY <1>1 DEF Boot
  <2>2. q \in Page /\ Settled(q)
    BY <1>a, RenderSettles
  <2> QED
    BY <1>1, <1>a, <2>1, <2>2, TabStep DEF Boot
<1>2. ASSUME NEW t \in Tabs[name], NEW k \in Renders[name], NEW any \in BOOLEAN, Swap(t, k, any)
      PROVE  TableInv'
  <2>1. PICK q \in apply(Rendered(page[t], k, any)) : page' = [page EXCEPT ![t] = q]
    BY <1>2 DEF Swap
  <2>2. q \in Page /\ Settled(q)
    BY <1>2, <1>a, RenderSettles DEF Swap
  <2> QED
    BY <1>2, <1>a, <2>1, <2>2, TabStep DEF Swap
<1>3. ASSUME NEW t \in Tabs[name], NEW c \in Cols, Click(t, c)
      PROVE  TableInv'
  <2> DEFINE h == [col |-> c, dir |-> IF page[t].sort = [col |-> c, dir |-> "asc"] THEN "desc" ELSE "asc"]
             p == [page[t] EXCEPT !.sort = h]
  <2>1. page[t] \in Page /\ Settled(page[t])
    BY <1>3, <1>a, <1>b DEF Click
  <2>2. h \in Heading
    BY DEF Heading
  <2>3. PICK q \in apply(p) : page' = [page EXCEPT ![t] = q]
    BY <1>3 DEF Click
  <2> HIDE DEF h
  <2>4. p \in Page /\ p.checked = page[t].checked /\ p.hidden = page[t].hidden
        /\ p.counter = page[t].counter /\ p.mem = page[t].mem /\ p.chosen = page[t].chosen
    BY ONLY <2>1, <2>2 DEF Page
  <2> HIDE DEF p
  <2>5. q \in Page /\ Settled(q)
    BY <1>a, <2>1, <2>4, ApplySettles DEF Settled, Selected
  <2> QED
    BY <1>3, <1>a, <2>3, <2>5, TabStep DEF Click
<1>4. ASSUME NEW t \in Tabs[name], NEW c \in Cols, Toggle(t, c)
      PROVE  TableInv'
  <2> DEFINE ticked == IF c \in page[t].boxes THEN page[t].boxes \ {c} ELSE page[t].boxes \cup {c}
             off == Cols \ ticked
  <2>1. page[t] \in Page /\ Settled(page[t]) /\ page[t].boxes # None
    BY <1>4, <1>a, <1>b DEF Toggle
  <2>2. ticked \in Choice /\ off \in Choice
    <3>1. page[t].boxes \in SUBSET Cols
      BY <2>1 DEF Page, Choice
    <3> QED
      BY <3>1 DEF Choice
  <2> HIDE DEF off, ticked
  <2>3. CASE page[t].present
    <3> DEFINE p == [page[t] EXCEPT !.boxes = ticked, !.mem = off, !.chosen = off]
    <3>1. /\ storage' = saveOff(off) /\ name' = name
          /\ \E q \in apply(p) : page' = [page EXCEPT ![t] = q]
      BY <1>4, <2>3 DEF Toggle, off, ticked
    <3>2. PICK q \in apply(p) : page' = [page EXCEPT ![t] = q]
      BY <3>1
    <3>3. p \in Page /\ p.checked = page[t].checked /\ p.hidden = page[t].hidden
          /\ p.counter = page[t].counter /\ p.mem = p.chosen
      BY ONLY <2>1, <2>2 DEF Page
    <3> HIDE DEF p
    <3>4. q \in Page /\ Settled(q)
      BY <1>a, <2>1, <3>3, ApplySettles DEF Settled, Selected
    <3>5. storage' \in Choice
      BY <1>a, <2>2, <3>1 DEF saveOff
    <3> QED
      BY <1>a, <3>1, <3>2, <3>4, <3>5, TabStep
  <2>4. CASE ~page[t].present
    <3> DEFINE p == [page[t] EXCEPT !.boxes = ticked]
    <3>1. page' = [page EXCEPT ![t] = p] /\ storage' = storage /\ name' = name
      BY <1>4, <2>4 DEF Toggle, ticked
    <3>2. /\ p \in Page /\ p.checked = page[t].checked /\ p.hidden = page[t].hidden
          /\ p.counter = page[t].counter /\ p.mem = page[t].mem /\ p.chosen = page[t].chosen
          /\ p.present = page[t].present
      BY ONLY <2>1, <2>2 DEF Page
    <3> HIDE DEF p
    <3>3. Settled(p)
      BY <2>1, <2>4, <3>2 DEF Settled, Selected
    <3> QED
      BY <1>a, <3>1, <3>2, <3>3, TabStep
  <2> QED
    BY <2>1, <2>3, <2>4 DEF Page
<1>5. ASSUME NEW t \in Tabs[name], NEW f \in DOMAIN Queries \cup {None}, Input(t, f)
      PROVE  TableInv'
  <2> DEFINE p == [page[t] EXCEPT !.query = f]
  <2>1. page[t] \in Page /\ Settled(page[t])
    BY <1>5, <1>a, <1>b DEF Input
  <2>2. PICK q \in apply(p) : page' = [page EXCEPT ![t] = q]
    BY <1>5 DEF Input
  <2>3. /\ p \in Page /\ p.checked = page[t].checked /\ p.hidden = page[t].hidden
        /\ p.counter = page[t].counter /\ p.mem = page[t].mem /\ p.chosen = page[t].chosen
    BY ONLY <2>1, f \in DOMAIN Queries \cup {None} DEF Page
  <2> HIDE DEF p
  <2>4. q \in Page /\ Settled(q)
    BY <1>a, <2>1, <2>3, ApplySettles DEF Settled, Selected
  <2> QED
    BY <1>5, <1>a, <2>2, <2>4, TabStep DEF Input
<1>6. ASSUME NEW t \in Tabs[name], page[t] # None,
             NEW rows \in SUBSET Ids, rows \cap page[t].hidden = {}, Select(t, rows)
      PROVE  TableInv'
  <2> DEFINE p == [page[t] EXCEPT !.checked = rows, !.counter = Cardinality(rows)]
  <2>1. page[t] \in Page /\ Settled(page[t])
    BY <1>6, <1>a, <1>b
  <2>2. page' = [page EXCEPT ![t] = p]
    BY <1>6 DEF Select
  <2>3. Cardinality(rows) \in {Cardinality(s) : s \in SUBSET Ids}
    OBVIOUS
  <2>4. /\ p \in Page /\ p.checked = rows /\ p.counter = Cardinality(rows) /\ p.hidden = page[t].hidden
        /\ p = [page[t] EXCEPT !.checked = p.checked, !.counter = p.counter]
    BY ONLY <2>1, <2>3, rows \in SUBSET Ids DEF Page
  <2> HIDE DEF p
  <2>5. /\ p.mem = page[t].mem /\ p.chosen = page[t].chosen /\ p.off = page[t].off
        /\ p.boxes = page[t].boxes /\ p.sort = page[t].sort /\ p.keys = page[t].keys
        /\ p.order = page[t].order /\ p.present = page[t].present
    BY ONLY <2>1, <2>4 DEF Page
  <2>6. Settled(p)
    BY <1>6, <2>1, <2>4, <2>5 DEF Settled, Selected, Chosen, Sorted
  <2> QED
    BY <1>6, <1>a, <2>2, <2>4, <2>6, TabStep DEF Select
<1>7. ASSUME NEW t \in Tabs[name], NEW d \in Ids, CheckRow(t, d)
      PROVE  TableInv'
  <2> DEFINE rows == IF d \in page[t].checked THEN page[t].checked \ {d} ELSE page[t].checked \cup {d}
  <2>1. page[t] # None /\ page[t] \in Page /\ Selected(page[t]) /\ d \notin page[t].hidden
    BY <1>7, <1>a, <1>b DEF CheckRow, Settled
  <2>2. rows \in SUBSET Ids /\ rows \cap page[t].hidden = {}
    <3>1. page[t].checked \subseteq Ids /\ page[t].checked \cap page[t].hidden = {}
      BY <2>1 DEF Page, Selected
    <3> QED
      BY <2>1, <3>1
  <2>3. Select(t, rows)
    BY <1>7 DEF CheckRow
  <2> QED
    BY <1>6, <2>1, <2>2, <2>3
<1>8. ASSUME NEW t \in Tabs[name], NEW on \in BOOLEAN, SelectAll(t, on)
      PROVE  TableInv'
  <2> DEFINE rows == IF on THEN page[t].checked \cup (Ids \ page[t].hidden) ELSE page[t].checked \cap page[t].hidden
  <2>1. page[t] # None /\ page[t] \in Page /\ Selected(page[t])
    BY <1>8, <1>a, <1>b DEF SelectAll, Settled
  <2>2. rows \in SUBSET Ids /\ rows \cap page[t].hidden = {}
    <3>1. page[t].checked \subseteq Ids /\ page[t].checked \cap page[t].hidden = {}
      BY <2>1 DEF Page, Selected
    <3> QED
      BY <2>1, <3>1
  <2>3. Select(t, rows)
    BY <1>8 DEF SelectAll
  <2> QED
    BY <1>6, <2>1, <2>2, <2>3
<1>9. ASSUME UNCHANGED <<name, page, storage>>
      PROVE  TableInv'
  <2>1. Ids' = Ids /\ Page' = Page /\ AllTabs' = AllTabs
    BY <1>9 DEF Ids, Page, AllTabs
  <2>2. \A r : Settled(r)' <=> Settled(r)
    BY <1>9 DEF Settled, Selected, Sorted, Chosen, Consistent, Before, cellKey, Ids
  <2> QED
    BY <1>9, <2>1, <2>2 DEF TableInv
<1>10. CASE StorageBreaks \/ UNCHANGED tableVars
  BY <1>9, <1>10 DEF StorageBreaks, tableVars
<1> QED
  BY <1>1, <1>2, <1>3, <1>4, <1>5, <1>7, <1>8, <1>10 DEF TableNext

\* Between the handlers of the table script every loaded page is settled: its
\* selection is counted and shown, its columns are those last chosen, its rows
\* are those of the list in the order of its heading (apply, the change, click
\* and input handlers, the selection script).
THEOREM TableInvariant == TableSpec => []TableInv
<1>1. TableInit => TableInv
  BY DEF TableInit, TableInv, Choice
<1> QED
  BY <1>1, TableStep, PTL DEF TableSpec

\* A bulk action reaches only rows the user sees, as many as the page says,
\* after any filters, swaps, selections and reloads (applyFilter, the page's sync).
THEOREM BulkSeesSelection == TableSpec => []SelectionIsShown
<1>1. TableInv => SelectionIsShown
  BY TabsAreTabs DEF TableInv, SelectionIsShown, Shown, Settled, Selected
<1> QED
  BY <1>1, TableInvariant, PTL

\* A page shows the columns last chosen on it and its rows under the heading last
\* clicked, empty keys last, whatever was stored and whatever the server rendered
\* in between (storedOff, applyColumns, syncMenu, applySort).
THEOREM ChoiceIsShown == TableSpec => []ViewFollowsChoice
<1>1. TableInv => ViewFollowsChoice
  <2> SUFFICES ASSUME TableInv, NEW t \in Shown
               PROVE  LET p == page[t]
                          key(i) == cellKey(p.keys, p.order[i], p.sort.col) IN
                      /\ p.chosen # None => p.off = p.chosen
                      /\ p.boxes = Cols \ p.off
                      /\ p.sort # None /\ Consistent(p.keys, p.sort) =>
                            \A i, j \in DOMAIN p.order : i < j =>
                                /\ ~Before(p.keys, p.sort, p.order[j], p.order[i])
                                /\ key(i) = NoKey => key(j) = NoKey
    BY DEF ViewFollowsChoice
  <2>1. Chosen(page[t]) /\ Sorted(page[t])
    BY TabsAreTabs DEF TableInv, Shown, Settled
  <2>2. \A d, e : ~Before(page[t].keys, page[t].sort, e, d)
                  /\ cellKey(page[t].keys, d, page[t].sort.col) = NoKey
                  => cellKey(page[t].keys, e, page[t].sort.col) = NoKey
    BY EmptyKeysLast
  <2> QED
    BY <2>1, <2>2 DEF Chosen, Sorted
<1> QED
  BY <1>1, TableInvariant, PTL
=============================================================================
