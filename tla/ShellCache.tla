----------------------------- MODULE ShellCache -----------------------------
(***************************************************************************)
(* The service worker of the web pages (static/sw.js): the app shell is    *)
(* fetched from the network first, a copy of every good answer is put in   *)
(* the worker's own cache by a promise nobody waits for, and the caches    *)
(* answer when the network does not.  A new version of the script installs *)
(* its own cache, skips waiting, and deletes every other cache while       *)
(* requests of the version it replaces may still be in flight.             *)
(*                                                                         *)
(* The browser around the script (worker life cycle, Cache Storage, the    *)
(* network) is external: modelled by what sw.js relies on.                 *)
(***************************************************************************)
EXTENDS Naturals, FiniteSets

CONSTANTS
    Versions,    \* successive versions of sw.js; a version names its CACHE
    Assets,      \* paths a shell may list
    Offline,     \* "/static/offline.html", in every shell
    SHELL,       \* SHELL[v]: the assets version v lists
    Requests,    \* requests that may be under way at once
    MaxPuts,     \* bound on the puts under way at once
    MaxContent   \* bound on the deployments of an asset

ASSUME ShellAssumption ==
    /\ Versions \subseteq Nat \ {0}
    /\ SHELL \in [Versions -> SUBSET Assets]
    /\ \A v \in Versions : Offline \in SHELL[v]

VARIABLES
    online,    \* whether fetch() reaches the server
    server,    \* server[p]: the content the server answers with, growing with deployments
    worker,    \* worker[v]: life-cycle state of version v
    stored,    \* the caches that exist, by name, each [body, older]: body[p] is the content
               \* stored for p, 0 for none; older are the caches that were there before it
    doomed,    \* names the activating worker read from caches.keys() and will delete
    req,       \* req[r]: a fetch event of a page
    puts,      \* puts nobody waits for
    newest,    \* newest[p]: newest content the active version answered from the network
    raced      \* assets whose requests to the active version overlapped, or whose put
               \* was lost when the browser stopped it

vars == <<online, server, worker, stored, doomed, req, puts, newest, raced>>

Idle == [v |-> 0, p |-> Offline, mode |-> "idle"]
NoEntries == [p \in Assets |-> 0]

Init ==
    /\ online = TRUE
    /\ server = [p \in Assets |-> 1]
    /\ worker = [v \in Versions |-> "unknown"]
    /\ stored = [n \in {} |-> [body |-> NoEntries, older |-> {}]]
    /\ doomed = {}
    /\ req = [r \in Requests |-> Idle]
    /\ puts = {}
    /\ newest = NoEntries
    /\ raced = {}

-----------------------------------------------------------------------------
(* Cache Storage *)

\* caches.open(name): the cache, created behind the others when it is missing.
Open(s, name) ==
    IF name \in DOMAIN s THEN s
    ELSE [n \in DOMAIN s \cup {name} |->
            IF n = name THEN [body |-> NoEntries, older |-> DOMAIN s] ELSE s[n]]

\* A put that keeps an entry the cache already has.
PutInOnce(s, name, p, c) ==
    [Open(s, name) EXCEPT ![name].body[p] = IF @ = 0 THEN c ELSE @]

\* cache.put in the cache of that name, opened first.
PutIn(s, name, p, c) ==
    [Open(s, name) EXCEPT ![name].body[p] = c]

\* caches.match(request): the caches are searched in creation order.
Hits(p) == {n \in DOMAIN stored : stored[n].body[p] # 0}
Match(p) ==
    IF Hits(p) = {} THEN 0
    ELSE CHOOSE n \in Hits(p) : stored[n].older \cap Hits(p) = {}

-----------------------------------------------------------------------------
(* Life cycle *)

\* A version is found: the browser starts it and "install" opens its cache.
\* A failed install is tried again; a version is passed over once a newer one is known.
Install(v) ==
    /\ worker[v] \in {"unknown", "failed"}
    /\ \A u \in Versions : u > v => worker[u] = "unknown"
    /\ \A u \in Versions : worker[u] \notin {"installing", "activating"}
    /\ online
    /\ worker' = [worker EXCEPT ![v] = "installing"]
    /\ stored' = Open(stored, v)
    /\ UNCHANGED <<online, server, doomed, req, puts, newest, raced>>

\* cache.addAll(SHELL) stored every asset; waiting is skipped, so the version
\* activates at once, takes the pages over, and reads the names of the caches.
InstallDone(v) ==
    /\ worker[v] = "installing"
    /\ online
    /\ worker' = [u \in Versions |-> IF u = v THEN "activating"
                                     ELSE IF worker[u] = "activated" THEN "redundant" ELSE worker[u]]
    /\ stored' = [stored EXCEPT ![v].body =
                    [p \in Assets |-> IF p \in SHELL[v] THEN server[p] ELSE @[p]]]
    /\ doomed' = DOMAIN stored \ {v}
    /\ UNCHANGED <<online, server, req, puts, newest, raced>>

\* addAll rejects when one fetch fails or answers an error: nothing is stored.
InstallFailed(v) ==
    /\ worker[v] = "installing"
    /\ worker' = [worker EXCEPT ![v] = "failed"]
    /\ UNCHANGED <<online, server, stored, doomed, req, puts, newest, raced>>

\* An activation that deletes nothing.
ActivateDoneNoDelete(v) ==
    /\ worker[v] = "activating"
    /\ worker' = [worker EXCEPT ![v] = "activated"]
    /\ doomed' = {}
    /\ newest' = NoEntries
    /\ raced' = {}
    /\ UNCHANGED <<online, server, stored, req, puts>>

\* caches.delete of every name that was read, then clients.claim().
ActivateDone(v) ==
    /\ worker[v] = "activating"
    /\ worker' = [worker EXCEPT ![v] = "activated"]
    /\ stored' = [n \in DOMAIN stored \ doomed |->
                    [stored[n] EXCEPT !.older = @ \ doomed]]
    /\ doomed' = {}
    /\ newest' = NoEntries
    /\ raced' = {}
    /\ UNCHANGED <<online, server, req, puts>>

\* The browser stops an idle worker: puts it has not finished are lost.
Stopped(v) ==
    /\ \E w \in puts : w.v = v
    /\ \A r \in Requests : req[r].v # v
    /\ puts' = {w \in puts : w.v # v}
    /\ raced' = IF worker[v] = "activated" THEN raced \cup {w.p : w \in {x \in puts : x.v = v}} ELSE raced
    /\ UNCHANGED <<online, server, worker, stored, doomed, req, newest>>

-----------------------------------------------------------------------------
(* The fetch handler *)

\* A page of the active version asks for an asset of the shell, or navigates.
\* Anything else is left to the browser.
Fetch(r, v, p, mode) ==
    /\ req[r].mode = "idle"
    /\ worker[v] = "activated"
    /\ Cardinality(puts) < MaxPuts
    /\ IF mode = "shell" THEN p \in SHELL[v] ELSE p = Offline
    /\ req' = [req EXCEPT ![r] = [v |-> v, p |-> p, mode |-> mode]]
    /\ raced' = IF /\ mode = "shell"
                   /\ \/ \E q \in Requests : req[q] = [v |-> v, p |-> p, mode |-> "shell"]
                      \/ \E w \in puts : w.v = v /\ w.p = p
                THEN raced \cup {p} ELSE raced
    /\ UNCHANGED <<online, server, worker, stored, doomed, puts, newest>>

\* The network answers.  A good answer for the shell is also handed to a put
\* that is not waited for; an error answer is only returned.
Answered(r, ok) ==
    LET q == req[r] IN
    /\ q.mode # "idle"
    /\ online
    /\ req' = [req EXCEPT ![r] = Idle]
    /\ IF ok /\ q.mode = "shell"
       THEN /\ puts' = puts \cup {[v |-> q.v, p |-> q.p, c |-> server[q.p]]}
            /\ newest' = IF worker[q.v] = "activated" THEN [newest EXCEPT ![q.p] = server[q.p]] ELSE newest
       ELSE UNCHANGED <<puts, newest>>
    /\ UNCHANGED <<online, server, worker, stored, doomed, raced>>

\* The network does not answer: the caches do, with the asset or, for a
\* navigation, with the offline page.
Unanswered(r) ==
    /\ req[r].mode # "idle"
    /\ ~online
    /\ req' = [req EXCEPT ![r] = Idle]
    /\ UNCHANGED <<online, server, worker, stored, doomed, puts, newest, raced>>

\* One of the puts reaches its cache, at any later time and in any order.
PutLands(w) ==
    /\ puts' = puts \ {w}
    /\ stored' = PutIn(stored, w.v, w.p, w.c)
    /\ UNCHANGED <<online, server, worker, doomed, req, newest, raced>>

-----------------------------------------------------------------------------
(* Environment *)

Deploy(p) ==
    /\ server[p] < MaxContent
    /\ server' = [server EXCEPT ![p] = @ + 1]
    /\ UNCHANGED <<online, worker, stored, doomed, req, puts, newest, raced>>

Network ==
    /\ online' = ~online
    /\ UNCHANGED <<server, worker, stored, doomed, req, puts, newest, raced>>

Next ==
    \/ \E v \in Versions : Install(v) \/ InstallDone(v) \/ InstallFailed(v) \/ ActivateDone(v) \/ Stopped(v)
    \/ \E r \in Requests, v \in Versions, p \in Assets, m \in {"shell", "navigate"} : Fetch(r, v, p, m)
    \/ \E r \in Requests : Unanswered(r) \/ \E ok \in BOOLEAN : Answered(r, ok)
    \/ \E w \in puts : PutLands(w)
    \/ \E p \in Assets : Deploy(p)
    \/ Network

Spec == Init /\ [][Next]_vars

-----------------------------------------------------------------------------
(* What must hold *)

\* What an activated worker would be answered from for each asset of its shell
\* is its own cache, never nothing and never a cache that a late put of a
\* replaced version created again; and a request of a replaced version still
\* finds every asset the newer shell has too, through the whole takeover.
AnsweredFromOwnShell ==
    \A v \in Versions :
        /\ worker[v] = "activated" => \A p \in SHELL[v] : Match(p) = v
        /\ \A r \in Requests :
              req[r].v = v /\ (\A u \in Versions : u > v => req[r].p \in SHELL[u]) => Hits(req[r].p) # {}

\* What the active worker would show offline is older than what it last showed
\* online only after a race: the put of that answer is still under way, was
\* lost with the worker, or was overtaken by an overlapping request.
StaleNeedsRace ==
    \A v \in Versions, p \in Assets :
        worker[v] = "activated" /\ v \in DOMAIN stored /\ stored[v].body[p] < newest[p] =>
            \/ p \in raced
            \/ \E w \in puts : w.v = v /\ w.p = p
=============================================================================
