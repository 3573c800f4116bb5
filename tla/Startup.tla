------------------------------ MODULE Startup ------------------------------
(***************************************************************************)
(* The life of the process: cmd/app/main.go with LoadConfig, ConnectMongoDB*)
(* and EnsureIndexes, and the goroutine it starts, which builds the server *)
(* (app.Run) and listens.  The container is restarted when its process     *)
(* ends (restart: unless-stopped in docker-compose.yml); the index is in   *)
(* the database and outlives the process.                                  *)
(*                                                                         *)
(* A time.Duration is an int64 of nanoseconds, eight digits to base 256 in *)
(* two's complement, the least significant first.                          *)
(***************************************************************************)
EXTENDS Naturals

CONSTANT ExpiryMinutes   \* what in_memory_cache.expiry_minutes may say

ASSUME StartupAssumption == ExpiryMinutes \subseteq Nat \ {0}

VARIABLES
    main,     \* main goroutine: "off" (no process), the call it is in, or
              \* "blocked" in its empty select
    server,   \* server goroutine: "none", "build" (app.Run), "listen"
              \* (e.Start), "serving" or "failed"
    minutes,  \* Config.InMemoryCache.ExpiryMinutes, in minutes
    expiry,   \* the Duration the cache is given
    indexed   \* the messages collection has its text index

process     == <<main, server, minutes, expiry>>
startupVars == <<main, server, minutes, expiry, indexed>>

-----------------------------------------------------------------------------
Places == 0..7
Zero   == [k \in Places |-> 0]

(* The int64 of a number below 2^24.                                       *)
Int64(n) ==
    [k \in Places |-> CASE k = 0 -> n % 256
                        [] k = 1 -> (n \div 256) % 256
                        [] k = 2 -> n \div 65536
                        [] OTHER -> 0]

(* Go's product of two int64s: what does not fit into 64 bits is lost.     *)
Times(a, b) ==
    LET term(k, i) == IF i <= k THEN a[i] * b[k - i] ELSE 0
        column(k) ==
            LET sum[n \in 0..8] == IF n = 0 THEN 0 ELSE sum[n - 1] + term(k, n - 1)
            IN  sum[8]
        carry[k \in 0..8] ==
            IF k = 0 THEN 0 ELSE (carry[k - 1] + column(k - 1)) \div 256
    IN  [k \in Places |-> (column(k) + carry[k]) % 256]

Minute == Times(Times(Int64(60), Int64(1000000)), Int64(1000))

(* "5m" in the configuration, a Duration.                                  *)
Configured == [m \in ExpiryMinutes |-> Times(Int64(m), Minute)]

(* NewCache: time.Minute * time.Duration(cfg.ExpiryMinutes)                *)
CacheExpiry == [m \in ExpiryMinutes |-> Times(Minute, Configured[m])]

-----------------------------------------------------------------------------
StartupInit ==
    /\ main = "off"
    /\ server = "none"
    /\ minutes = 0
    /\ expiry = Zero
    /\ indexed = FALSE

(* The process ends, with all its goroutines; what it kept is gone.        *)
Exit ==
    /\ main' = "off"
    /\ server' = "none"
    /\ minutes' = 0
    /\ expiry' = Zero

MainGoes(from, to) == main = from /\ main' = to

(* The container starts the process.                                       *)
Boot ==
    /\ MainGoes("off", "config")
    /\ UNCHANGED <<server, minutes, expiry, indexed>>

(* LoadConfig, which ends the process itself when anything is wrong.       *)
LoadConfig ==
    \/ /\ MainGoes("config", "connect")
       /\ minutes' \in ExpiryMinutes
       /\ UNCHANGED <<server, expiry, indexed>>
    \/ main = "config" /\ Exit /\ UNCHANGED indexed

(* ConnectMongoDB connects and pings; an error ends main.                  *)
ConnectMongoDB ==
    \/ MainGoes("connect", "index") /\ UNCHANGED <<server, minutes, expiry, indexed>>
    \/ main = "connect" /\ Exit /\ UNCHANGED indexed

\* Variant: an error of EnsureIndexes is logged and main goes on.
EnsureIndexesGoingOn ==
    /\ MainGoes("index", "launch")
    /\ indexed' \in {indexed, TRUE}
    /\ UNCHANGED <<server, minutes, expiry>>

(* EnsureIndexes creates the index, if it is not there.  After an error it *)
(* may have been created; main returns.                                    *)
EnsureIndexes ==
    \/ /\ MainGoes("index", "launch")
       /\ indexed' = TRUE
       /\ UNCHANGED <<server, minutes, expiry>>
    \/ /\ main = "index"
       /\ Exit
       /\ indexed' \in {indexed, TRUE}

\* Variant: main calls the function itself.
LaunchCalling ==
    /\ main = "launch" /\ server = "none"
    /\ server' = "build"
    /\ UNCHANGED <<main, minutes, expiry, indexed>>

(* go func() { ... }(), then select {}                                     *)
Launch ==
    /\ MainGoes("launch", "blocked")
    /\ server' = "build"
    /\ UNCHANGED <<minutes, expiry, indexed>>

(* app.Run: the cache, the middleware and the routes.                      *)
BuildServer ==
    /\ server = "build"
    /\ server' = "listen"
    /\ expiry' = CacheExpiry[minutes]
    /\ UNCHANGED <<main, minutes, indexed>>

\* Variant: a server that cannot listen is built and tried again without end.
StartServerAgain ==
    /\ server = "listen"
    /\ server' \in {"build", "serving"}
    /\ UNCHANGED <<main, minutes, expiry, indexed>>

(* e.Start listens and serves; an error is logged and the goroutine ends,  *)
(* which main does not notice.                                             *)
StartServer ==
    /\ server = "listen"
    /\ server' \in {"serving", "failed"}
    /\ UNCHANGED <<main, minutes, expiry, indexed>>

(* e.Start returns because the listener broke.                             *)
StopServing ==
    /\ server = "serving"
    /\ server' = "failed"
    /\ UNCHANGED <<main, minutes, expiry, indexed>>

(* The process is killed.                                                  *)
Crash == main # "off" /\ Exit /\ UNCHANGED indexed

StartUp ==
    \/ LoadConfig \/ ConnectMongoDB \/ EnsureIndexes \/ Launch
    \/ BuildServer \/ StartServer

StartupNext == Boot \/ StartUp \/ StopServing \/ Crash

(* Every call of the start-up returns, and its goroutines run.             *)
StartupSpec     == StartupInit /\ [][StartupNext]_startupVars
FairStartupSpec == StartupSpec /\ WF_startupVars(StartUp)

-----------------------------------------------------------------------------
(* The types of the process, and which of its goroutines exist when.       *)
StartupTypeOK ==
    /\ main \in {"off", "config", "connect", "index", "launch", "blocked"}
    /\ server \in {"none", "build", "listen", "serving", "failed"}
    /\ main = "blocked" <=> server # "none"
    /\ minutes \in ExpiryMinutes \cup {0}
    /\ expiry \in [Places -> 0..255]
    /\ indexed \in BOOLEAN

(* Whatever was restarted and however often, the server answers requests   *)
(* only over a collection that has its text index: without it MongoDB      *)
(* refuses every $text query.                                              *)
ServesIndexed == server = "serving" => indexed

(* A start comes to an end: the process serves, has ended (and may be      *)
(* restarted), or is left with a server that failed.                       *)
StartEnds == main = "config" ~> (main = "off" \/ server \in {"serving", "failed"})

(* configs.go:56, env-default:"5m" of ExpiryMinutes: the entries of the    *)
(* cache of a running server expire after the time that is configured.     *)
ExpiresAsConfigured ==
    server = "serving" => expiry = Configured[minutes]

=============================================================================
