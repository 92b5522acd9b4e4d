----------------------------- MODULE Credentials -----------------------------
(***************************************************************************)
(* The scoped keys of the cloud models.  auth.json names the login, the      *)
(* models cache holds the key the server minted for it; every process reads  *)
(* both.  A request whose key is refused is repeated once with a fresh one:   *)
(* under a lock of the process and one of all processes the cache is looked   *)
(* at again, and only if it still holds the refused key is another minted,    *)
(* checked against the login and saved.  Logging in and out takes no lock.    *)
(***************************************************************************)
EXTENDS Naturals, Sequences, FiniteSets

CONSTANTS
  Workers,    \* the requests in flight
  Process,    \* worker |-> the process it belongs to
  Logins,     \* the accounts, by their CLI token
  MaxKeys,    \* bound: keys the server mints
  MaxChanges  \* bound: logins, logouts and revocations

VARIABLES
  auth,       \* the login in auth.json, or NoLogin
  cache,      \* the models cache: whose key, and which
  worker,     \* worker |-> its request
  mutex,      \* process |-> the worker that refreshes in it
  fileLock,   \* the worker that holds the lock of all processes
  account,    \* the login or logout under way
  minted,     \* how many keys the server has minted; the last is the newest
  revoked,    \* the keys the server refuses
  changes,    \* logins, logouts and revocations so far
  replaced,   \* ghost: the keys refreshes replaced since the cache was there
  twice,      \* ghost: a key was replaced by two refreshes
  slipped     \* ghost: see KeysMatchLogin

disk == <<auth, cache>>
locks == <<mutex, fileLock>>
server == <<minted, revoked>>
ghosts == <<replaced, twice, slipped>>
vars == <<disk, worker, locks, account, server, changes, ghosts>>

NoLogin == "none"
Nobody == "nobody"
NoCache == [owner |-> NoLogin, key |-> 0]
Idle == [at |-> "idle"]
Done == [at |-> "done"]
Processes == {Process[w] : w \in Workers}

(* A request that ends, with a key or without, gives both locks back.        *)
Release(w) ==
  /\ mutex' = [mutex EXCEPT ![Process[w]] = IF @ = w THEN Nobody ELSE @]
  /\ fileLock' = IF fileLock = w THEN Nobody ELSE fileLock

At(w, step) == worker[w].at = step
Goto(w, step) == worker' = [worker EXCEPT ![w].at = step]

Refreshing == {"locks_mutex", "locks_file", "looks", "loads", "fetches", "checks", "saves"}

(* A request takes its key from the cache, as its configuration was loaded.  *)
Request(w) ==
  /\ worker[w] = Idle
  /\ cache # NoCache
  /\ worker' = [worker EXCEPT ![w] =
       [at |-> "streams", key |-> cache.key, again |-> FALSE, login |-> NoLogin]]
  /\ UNCHANGED <<disk, locks, account, server, changes, ghosts>>

(* Only a refused scoped key is worth a refresh, and only once.              *)
Stream(w) ==
  /\ At(w, "streams")
  /\ worker' = [worker EXCEPT ![w] =
       IF @.key \in revoked /\ ~@.again THEN [@ EXCEPT !.at = "locks_mutex"] ELSE Done]
  /\ UNCHANGED <<disk, locks, account, server, changes, ghosts>>

LockMutex(w) ==
  /\ At(w, "locks_mutex")
  /\ mutex[Process[w]] = Nobody
  /\ mutex' = [mutex EXCEPT ![Process[w]] = w]
  /\ Goto(w, "locks_file")
  /\ UNCHANGED <<disk, fileLock, account, server, changes, ghosts>>

LockFile(w) ==
  /\ At(w, "locks_file")
  /\ fileLock = Nobody
  /\ fileLock' = w
  /\ Goto(w, "looks")
  /\ UNCHANGED <<disk, mutex, account, server, changes, ghosts>>

(* Somebody else may have refreshed while this one waited for the locks.     *)
AlreadyRefreshed(w) == cache # NoCache /\ cache.key # worker[w].key

LookAtCache(w) ==
  /\ At(w, "looks")
  /\ IF AlreadyRefreshed(w)
     THEN /\ worker' = [worker EXCEPT ![w].at = "streams", ![w].again = TRUE,
                                      ![w].key = cache.key]
          /\ Release(w)
     ELSE Goto(w, "loads") /\ UNCHANGED locks
  /\ UNCHANGED <<disk, account, server, changes, ghosts>>

LoadAuth(w) ==
  /\ At(w, "loads")
  /\ IF auth = NoLogin
     THEN worker' = [worker EXCEPT ![w] = Done] /\ Release(w)
     ELSE /\ worker' = [worker EXCEPT ![w].at = "fetches", ![w].login = auth]
          /\ UNCHANGED locks
  /\ UNCHANGED <<disk, account, server, changes, ghosts>>

(* The catalogue comes with a fresh key, or is refused, or is not to be had. *)
FetchReady(w) ==
  /\ At(w, "fetches")
  /\ minted < MaxKeys
  /\ minted' = minted + 1
  /\ worker' = [worker EXCEPT ![w] =
       [at |-> "checks", key |-> minted + 1, again |-> FALSE, login |-> @.login,
        old |-> @.key, seen |-> NoLogin]]
  /\ UNCHANGED <<disk, locks, account, revoked, changes, ghosts>>

FetchFails(w) ==
  /\ At(w, "fetches")
  /\ worker' = [worker EXCEPT ![w] = Done]
  /\ Release(w)
  /\ UNCHANGED <<disk, account, server, changes, ghosts>>

AnyLogin(w) == TRUE    \* mutant: the login is not compared
SameLogin(w) == auth = worker[w].login

(* The login may have changed while the catalogue was on its way.            *)
CheckLogin(w) ==
  /\ At(w, "checks")
  /\ IF SameLogin(w)
     THEN /\ worker' = [worker EXCEPT ![w].at = "saves", ![w].seen = auth]
          /\ UNCHANGED locks
     ELSE worker' = [worker EXCEPT ![w] = Done] /\ Release(w)
  /\ UNCHANGED <<disk, account, server, changes, ghosts>>

SaveCache(w) ==
  /\ At(w, "saves")
  /\ cache' = [owner |-> worker[w].login, key |-> worker[w].key]
  /\ worker' = [worker EXCEPT ![w] =
       [at |-> "streams", key |-> @.key, again |-> TRUE, login |-> @.login]]
  /\ Release(w)
  /\ twice' = (twice \/ worker[w].old \in replaced)
  /\ replaced' = replaced \cup {worker[w].old}
  /\ slipped' = (slipped \/ auth # worker[w].seen)
  /\ UNCHANGED <<auth, account, server, changes>>

(* The save fails, or the request is cancelled at any point of its refresh.  *)
GiveUp(w) ==
  /\ worker[w].at \in Refreshing
  /\ worker' = [worker EXCEPT ![w] = Done]
  /\ Release(w)
  /\ UNCHANGED <<disk, account, server, changes, ghosts>>

-----------------------------------------------------------------------------
(* The dashboard's login: auth.json first, then the catalogue, then the cache*)
Login(t) ==
  /\ account = Idle
  /\ changes < MaxChanges
  /\ auth' = t
  /\ account' = [at |-> "syncs", login |-> t]
  /\ changes' = changes + 1
  /\ UNCHANGED <<cache, worker, locks, server, ghosts>>

Synced ==
  /\ account.at = "syncs"
  /\ minted < MaxKeys
  /\ minted' = minted + 1
  /\ account' = [at |-> "caches", login |-> account.login, key |-> minted + 1]
  /\ UNCHANGED <<disk, worker, locks, revoked, changes, ghosts>>

SyncFails ==
  /\ account.at = "syncs"
  /\ account' = Idle
  /\ slipped' = (slipped \/ cache.owner \notin {NoLogin, account.login})
  /\ UNCHANGED <<disk, worker, locks, server, changes, replaced, twice>>

Cached ==
  /\ account.at = "caches"
  /\ cache' = [owner |-> account.login, key |-> account.key]
  /\ account' = Idle
  /\ UNCHANGED <<auth, worker, locks, server, changes, ghosts>>

Logout ==
  /\ account = Idle
  /\ auth # NoLogin
  /\ changes < MaxChanges
  /\ auth' = NoLogin
  /\ account' = [at |-> "forgets"]
  /\ changes' = changes + 1
  /\ UNCHANGED <<cache, worker, locks, server, ghosts>>

Forget ==
  /\ account.at = "forgets"
  /\ cache' = NoCache
  /\ account' = Idle
  /\ replaced' = {}
  /\ UNCHANGED <<auth, worker, locks, server, changes, twice, slipped>>

(* The server may refuse any key from now on.                                *)
Revoke(k) ==
  /\ k \notin revoked
  /\ changes < MaxChanges
  /\ revoked' = revoked \cup {k}
  /\ changes' = changes + 1
  /\ UNCHANGED <<disk, worker, locks, account, minted, ghosts>>

-----------------------------------------------------------------------------
(* Somebody is logged in, and the cache holds the key of that login.         *)
Init ==
  /\ auth \in Logins
  /\ minted = 1
  /\ cache = [owner |-> auth, key |-> 1]
  /\ worker = [w \in Workers |-> Idle]
  /\ mutex = [p \in Processes |-> Nobody]
  /\ fileLock = Nobody
  /\ account = Idle
  /\ revoked = {}
  /\ changes = 0
  /\ replaced = {}
  /\ twice = FALSE
  /\ slipped = FALSE

Next ==
  \/ \E w \in Workers :
       \/ Request(w) \/ Stream(w)
       \/ LockMutex(w) \/ LockFile(w) \/ LookAtCache(w) \/ LoadAuth(w)
       \/ FetchReady(w) \/ FetchFails(w) \/ CheckLogin(w) \/ SaveCache(w)
       \/ GiveUp(w)
  \/ \E t \in Logins : Login(t)
  \/ Synced \/ SyncFails \/ Cached \/ Logout \/ Forget
  \/ \E k \in 1 .. minted : Revoke(k)

-----------------------------------------------------------------------------
(* However many requests of however many processes meet the same refused     *)
(* key, one refresh replaces it and the others take its key from the cache,   *)
(* until a logout removes the cache.  And the cached key is the one of the login in auth.json, but for three cases   *)
(* the code leaves open: a login or logout between its own two writes, a       *)
(* login whose first sync failed, and a login that changed between a           *)
(* refresh's check and its save (`slipped').  A change while the catalogue is  *)
(* fetched is not one of them.  (refreshed_key, login_poll, logout)             *)
KeysMatchLogin ==
  /\ ~twice
  /\ auth # NoLogin /\ cache # NoCache /\ cache.owner # auth =>
       account # Idle \/ slipped
=============================================================================
