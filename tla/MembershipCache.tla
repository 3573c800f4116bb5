-------------------------- MODULE MembershipCache --------------------------
(***************************************************************************)
(* IsUserInChat of cache_usecase.go: a loading cache, keyed by chat, that  *)
(* answers whether a user may write to a chat.  It is called by the        *)
(* ReadPump of every connection.                                           *)
(*                                                                         *)
(* The cache itself is the otter library: a Get that misses runs its       *)
(* caller's loader, unless a load of the same key is under way, in which   *)
(* case it waits for that one and shares its result; a load that fails     *)
(* leaves no entry; an entry goes when nobody has read it for a while, or  *)
(* for want of room.  Membership is kept by another service: it changes at *)
(* any time, and a query of it may fail.                                   *)
(***************************************************************************)
EXTENDS Naturals

CONSTANTS
    UserIDs,
    ChatIDs,
    Callers,      \* ReadPump goroutines
    UserOf,       \* Client.UserID of a caller
    Absent,       \* no entry, no load
    Failed,       \* the result of a load that failed
    Changeable    \* whether membership changes while the system runs

ASSUME CacheAssumption ==
    /\ UserOf \in [Callers -> UserIDs]
    /\ ChatIDs # {}
    /\ Changeable \in BOOLEAN
    /\ Absent \notin Callers
    /\ Absent # Failed /\ {Absent, Failed} \cap UserIDs = {}
    /\ \A set \in SUBSET UserIDs : Absent # set /\ Failed # set

VARIABLES
    members,   \* chat -> its members, in the chat service
    entry,     \* chat -> ChatMembers, or Absent
    loader,    \* chat -> the caller whose load is under way, or Absent
    loaded,    \* chat -> what that load has found: Absent (nothing yet),
               \* a set of users, or Failed
    pc,        \* per caller: "idle", "waiting" (in client.Get) or "answered"
    asked,     \* per caller, the chat it asks about
    answer     \* per caller, the answer it has got

(* History: the query an entry, a load or an answer goes back to, that is, *)
(* the members the chat had then and the user it was about.                *)
VARIABLES
    entryFrom,   \* chat -> the members, for its entry
    entryBy,     \* chat -> the user, for its entry, or Absent
    loadFrom,    \* chat -> the members, for the load under way
    answerFrom,  \* per caller, the members, for its answer
    answerBy     \* per caller, the user, for its answer; Failed if the query
                 \* failed; Absent when there is no answer

calls     == <<pc, asked, answer, answerFrom, answerBy>>
cacheVars == <<members, entry, loader, loaded, pc, asked, answer,
               entryFrom, entryBy, loadFrom, answerFrom, answerBy>>

CacheInit ==
    /\ members \in [ChatIDs -> SUBSET UserIDs]
    /\ entry = [ch \in ChatIDs |-> Absent]
    /\ loader = [ch \in ChatIDs |-> Absent]
    /\ loaded = [ch \in ChatIDs |-> Absent]
    /\ pc = [k \in Callers |-> "idle"]
    /\ asked \in [Callers -> {CHOOSE ch \in ChatIDs : TRUE}]
    /\ answer = [k \in Callers |-> FALSE]
    /\ entryFrom = [ch \in ChatIDs |-> {}]
    /\ entryBy = [ch \in ChatIDs |-> Absent]
    /\ loadFrom = [ch \in ChatIDs |-> {}]
    /\ answerFrom = [k \in Callers |-> {}]
    /\ answerBy = [k \in Callers |-> Absent]

-----------------------------------------------------------------------------
\* Variant: whoever asks is taken for the user the entry was loaded for.
AdmitsAnyone(set, k) == set # {}

(* _, ok := members[userID]                                                *)
Admits(set, k) == UserOf[k] \in set

(* client.Get finds the entry.                                             *)
Hit(k, ch) ==
    /\ pc[k] = "idle" /\ entry[ch] # Absent
    /\ pc' = [pc EXCEPT ![k] = "answered"]
    /\ asked' = [asked EXCEPT ![k] = ch]
    /\ answer' = [answer EXCEPT ![k] = Admits(entry[ch], k)]
    /\ answerFrom' = [answerFrom EXCEPT ![k] = entryFrom[ch]]
    /\ answerBy' = [answerBy EXCEPT ![k] = entryBy[ch]]
    /\ UNCHANGED <<members, entry, loader, loaded, entryFrom, entryBy, loadFrom>>

(* client.Get misses: this caller's loader runs, or it waits for the load  *)
(* under way.                                                              *)
Miss(k, ch) ==
    /\ pc[k] = "idle" /\ entry[ch] = Absent
    /\ pc' = [pc EXCEPT ![k] = "waiting"]
    /\ asked' = [asked EXCEPT ![k] = ch]
    /\ loader' = [loader EXCEPT ![ch] = IF @ = Absent THEN k ELSE @]
    /\ UNCHANGED <<members, entry, loaded, answer,
                   entryFrom, entryBy, loadFrom, answerFrom, answerBy>>

\* Variant: the entry holds the chat's id in place of the user's.
QueryKeyedByChat(ch) ==
    /\ loader[ch] # Absent /\ loaded[ch] = Absent
    /\ \/ loaded' = [loaded EXCEPT ![ch] =
                         IF UserOf[loader[ch]] \in members[ch] THEN {ch} ELSE {}]
       \/ loaded' = [loaded EXCEPT ![ch] = Failed]
    /\ loadFrom' = [loadFrom EXCEPT ![ch] = members[ch]]
    /\ UNCHANGED <<members, entry, loader, calls, entryFrom, entryBy>>

\* Variant: a failure is returned like a no, as an empty entry and no error.
QueryFailingAsNo(ch) ==
    /\ loader[ch] # Absent /\ loaded[ch] = Absent
    /\ \/ loaded' = [loaded EXCEPT ![ch] = members[ch] \cap {UserOf[loader[ch]]}]
       \/ loaded' = [loaded EXCEPT ![ch] = {}]
    /\ loadFrom' = [loadFrom EXCEPT ![ch] = members[ch]]
    /\ UNCHANGED <<members, entry, loader, calls, entryFrom, entryBy>>

\* Variant: the loader asks again until it is told yes.
QueryUntilYes(ch) ==
    /\ loader[ch] # Absent /\ loaded[ch] = Absent
    /\ UserOf[loader[ch]] \in members[ch]
    /\ loaded' = [loaded EXCEPT ![ch] = {UserOf[loader[ch]]}]
    /\ loadFrom' = [loadFrom EXCEPT ![ch] = members[ch]]
    /\ UNCHANGED <<members, entry, loader, calls, entryFrom, entryBy>>

(* The loader: chatRepo.IsUserInChat says yes for its own user, and the    *)
(* entry is to hold that user; or no, no such chat or access denied, and   *)
(* it is to be empty; or fails.                                            *)
Query(ch) ==
    /\ loader[ch] # Absent /\ loaded[ch] = Absent
    /\ \/ loaded' = [loaded EXCEPT ![ch] = members[ch] \cap {UserOf[loader[ch]]}]
       \/ loaded' = [loaded EXCEPT ![ch] = Failed]
    /\ loadFrom' = [loadFrom EXCEPT ![ch] = members[ch]]
    /\ UNCHANGED <<members, entry, loader, calls, entryFrom, entryBy>>

(* Everyone whose Get waits for the load.                                  *)
Woken(ch) == {k \in Callers : pc[k] = "waiting" /\ asked[k] = ch}

(* The entry a load leaves: none, if it failed.                            *)
Cached(ch) == IF loaded[ch] = Failed THEN Absent ELSE loaded[ch]

(* The load ends: its result becomes the entry, unless it failed, and all  *)
(* who wait get their answer from it; an error is answered with false.     *)
Finish(ch) ==
    LET ok    == loaded[ch] # Failed
        user  == UserOf[loader[ch]]
        woken == Woken(ch)
        Woke(f, value(_)) == [k \in Callers |-> IF k \in woken THEN value(k) ELSE f[k]]
    IN  /\ loader[ch] # Absent /\ loaded[ch] # Absent
        /\ entry' = [entry EXCEPT ![ch] = Cached(ch)]
        /\ entryFrom' = [entryFrom EXCEPT ![ch] = IF ok THEN loadFrom[ch] ELSE {}]
        /\ entryBy' = [entryBy EXCEPT ![ch] = IF ok THEN user ELSE Absent]
        /\ loader' = [loader EXCEPT ![ch] = Absent]
        /\ loaded' = [loaded EXCEPT ![ch] = Absent]
        /\ loadFrom' = [loadFrom EXCEPT ![ch] = {}]
        /\ pc' = Woke(pc, LAMBDA k : "answered")
        /\ answer' = Woke(answer, LAMBDA k : ok /\ Admits(loaded[ch], k))
        /\ answerFrom' = Woke(answerFrom, LAMBDA k : IF ok THEN loadFrom[ch] ELSE {})
        /\ answerBy' = Woke(answerBy, LAMBDA k : IF ok THEN user ELSE Failed)
        /\ UNCHANGED <<members, asked>>

(* IsUserInChat returns, and ReadPump goes on.                             *)
Return(k) ==
    /\ pc[k] = "answered"
    /\ pc' = [pc EXCEPT ![k] = "idle"]
    /\ answer' = [answer EXCEPT ![k] = FALSE]
    /\ answerFrom' = [answerFrom EXCEPT ![k] = {}]
    /\ answerBy' = [answerBy EXCEPT ![k] = Absent]
    /\ UNCHANGED <<members, entry, loader, loaded, asked, entryFrom, entryBy, loadFrom>>

(* The entry expires, or makes room.                                       *)
Evict(ch) ==
    /\ entry[ch] # Absent
    /\ entry' = [entry EXCEPT ![ch] = Absent]
    /\ entryFrom' = [entryFrom EXCEPT ![ch] = {}]
    /\ entryBy' = [entryBy EXCEPT ![ch] = Absent]
    /\ UNCHANGED <<members, loader, loaded, calls, loadFrom>>

(* The chat service adds or removes a member.                              *)
ChangeMember(u, ch) ==
    /\ Changeable
    /\ members' = [members EXCEPT ![ch] = IF u \in @ THEN @ \ {u} ELSE @ \cup {u}]
    /\ UNCHANGED <<entry, loader, loaded, calls, entryFrom, entryBy, loadFrom>>

CacheNext ==
    \/ \E k \in Callers, ch \in ChatIDs : Hit(k, ch) \/ Miss(k, ch)
    \/ \E k \in Callers : Return(k)
    \/ \E ch \in ChatIDs : Query(ch) \/ Finish(ch) \/ Evict(ch)
    \/ \E u \in UserIDs, ch \in ChatIDs : ChangeMember(u, ch)

(* A load goes on by itself, and the chat service answers or fails.        *)
CacheSpec     == CacheInit /\ [][CacheNext]_cacheVars
FairCacheSpec ==
    CacheSpec /\ \A ch \in ChatIDs :
        WF_cacheVars(Query(ch)) /\ WF_cacheVars(Finish(ch))

-----------------------------------------------------------------------------
(* The types of the cache's state; a failure is never an entry.            *)
CacheTypeOK ==
    /\ \A ch \in ChatIDs : entry[ch] # Failed
    /\ members \in [ChatIDs -> SUBSET UserIDs]
    /\ entry \in [ChatIDs -> {Absent} \cup SUBSET UserIDs]
    /\ loader \in [ChatIDs -> Callers \cup {Absent}]
    /\ loaded \in [ChatIDs -> {Absent, Failed} \cup SUBSET UserIDs]
    /\ pc \in [Callers -> {"idle", "waiting", "answered"}]
    /\ asked \in [Callers -> ChatIDs]
    /\ answer \in [Callers -> BOOLEAN]

(* Nobody is admitted on somebody else's membership, on an answer about    *)
(* another chat or on a failed query, although entries are keyed by chat   *)
(* alone and callers share loads: a user who is let in was himself a member*)
(* when the query behind the answer was made.                              *)
AdmittedWasMember ==
    \A k \in Callers : pc[k] = "answered" /\ answer[k] => UserOf[k] \in answerFrom[k]

(* An answer that goes back to a query about the caller's own user, by this*)
(* connection or another of his, now or in an entry kept since, is what the*)
(* chat service said: a query that failed is not remembered as a no.       *)
OwnQueryDecides ==
    \A k \in Callers : pc[k] = "answered" /\ answerBy[k] = UserOf[k] =>
        (answer[k] <=> UserOf[k] \in answerFrom[k])

(* Every question is answered: a loader returns, whatever the chat service *)
(* says, and with it all who wait for its result.                          *)
IsAnswered ==
    \A k \in Callers : pc[k] = "waiting" ~> pc[k] = "answered"

(* client.go:145, "User is not a member of the chat": a user who is denied,*)
(* without any failure, was not a member when the query was made.          *)
DeniedIsNotMember ==
    \A k \in Callers :
        pc[k] = "answered" /\ ~answer[k] /\ answerBy[k] # Failed =>
            UserOf[k] \notin answerFrom[k]

=============================================================================
