----------------------- MODULE MembershipCacheProofs -----------------------
(***************************************************************************)
(* What IsUserInChat guarantees for any users, chats and callers.          *)
(***************************************************************************)
EXTENDS MembershipCache, TLAPS

(* An entry, what a load has found, and a yes hold nobody who was not a    *)
(* member at the time of the query they go back to.                        *)
FromMembers ==
    /\ \A ch \in ChatIDs : entry[ch] # Absent => entry[ch] \subseteq entryFrom[ch]
    /\ \A ch \in ChatIDs :
          loaded[ch] \notin {Absent, Failed} => loaded[ch] \subseteq loadFrom[ch]
    /\ AdmittedWasMember

(* About the user whose query they go back to, an entry, what a load has   *)
(* found and an answer agree with what the chat service said.              *)
OwnAgree ==
    /\ \A ch \in ChatIDs : entry[ch] # Absent =>
          (entryBy[ch] \in entry[ch] <=> entryBy[ch] \in entryFrom[ch])
    /\ \A ch \in ChatIDs : loaded[ch] \notin {Absent, Failed} =>
          (UserOf[loader[ch]] \in loaded[ch] <=> UserOf[loader[ch]] \in loadFrom[ch])
    /\ \A ch \in ChatIDs : loaded[ch] # Absent => loader[ch] # Absent
    /\ OwnQueryDecides

CacheInv ==
    /\ CacheTypeOK
    /\ DOMAIN entryFrom = ChatIDs /\ DOMAIN loadFrom = ChatIDs
    /\ DOMAIN answerFrom = Callers
    /\ DOMAIN entryBy = ChatIDs /\ DOMAIN answerBy = Callers
    /\ FromMembers
    /\ OwnAgree

LEMMA CacheInitInv == CacheInit => CacheInv
<1> SUFFICES ASSUME CacheInit PROVE CacheInv
    OBVIOUS
<1>1. (CHOOSE ch \in ChatIDs : TRUE) \in ChatIDs
    BY CacheAssumption
<1>2. CacheTypeOK
    BY <1>1, CacheAssumption DEF CacheInit, CacheTypeOK
<1>3. FromMembers /\ OwnAgree
    BY CacheAssumption DEF CacheInit, FromMembers, AdmittedWasMember, OwnAgree,
                           OwnQueryDecides
<1>4. QED
    BY <1>2, <1>3 DEF CacheInit, CacheInv

LEMMA HitInv ==
    ASSUME CacheInv, NEW k \in Callers, NEW ch \in ChatIDs, Hit(k, ch)
    PROVE  CacheInv'
<1>1. CacheTypeOK'
    BY DEF CacheInv, CacheTypeOK, Hit, Admits
<1>2. FromMembers'
    BY DEF CacheInv, CacheTypeOK, FromMembers, AdmittedWasMember, Hit, Admits
<1>3. OwnAgree'
    BY DEF CacheInv, CacheTypeOK, OwnAgree, OwnQueryDecides, Hit, Admits
<1>4. QED
    BY <1>1, <1>2, <1>3 DEF CacheInv, Hit

LEMMA MissInv ==
    ASSUME CacheInv, NEW k \in Callers, NEW ch \in ChatIDs, Miss(k, ch)
    PROVE  CacheInv'
<1>1. CacheTypeOK'
    BY DEF CacheInv, CacheTypeOK, Miss
<1>2. FromMembers'
    BY DEF CacheInv, CacheTypeOK, FromMembers, AdmittedWasMember, Miss
<1>3. OwnAgree'
    BY CacheAssumption DEF CacheInv, CacheTypeOK, OwnAgree, OwnQueryDecides, Miss
<1>4. QED
    BY <1>1, <1>2, <1>3 DEF CacheInv, Miss

LEMMA QueryInv ==
    ASSUME CacheInv, NEW ch \in ChatIDs, Query(ch)
    PROVE  CacheInv'
<1>1. CacheTypeOK'
    BY DEF CacheInv, CacheTypeOK, Query, calls
<1>2. FromMembers'
    BY DEF CacheInv, CacheTypeOK, FromMembers, AdmittedWasMember, Query, calls
<1>3. OwnAgree'
    BY CacheAssumption DEF CacheInv, CacheTypeOK, OwnAgree, OwnQueryDecides, Query,
                           calls
<1>4. QED
    BY <1>1, <1>2, <1>3 DEF CacheInv, Query, calls

LEMMA FinishInv ==
    ASSUME CacheInv, NEW ch \in ChatIDs, Finish(ch)
    PROVE  CacheInv'
<1>1. CacheTypeOK'
    BY CacheAssumption DEF CacheInv, CacheTypeOK, Finish, Woken, Cached, Admits
<1>2. FromMembers'
    BY DEF CacheInv, CacheTypeOK, FromMembers, AdmittedWasMember, Finish, Woken,
           Cached, Admits
<1>3. OwnAgree'
    BY CacheAssumption DEF CacheInv, CacheTypeOK, OwnAgree, OwnQueryDecides, Finish,
                           Woken, Cached, Admits
<1>4. QED
    BY <1>1, <1>2, <1>3 DEF CacheInv, Finish

LEMMA ReturnInv ==
    ASSUME CacheInv, NEW k \in Callers, Return(k)
    PROVE  CacheInv'
<1>1. CacheTypeOK'
    BY DEF CacheInv, CacheTypeOK, Return
<1>2. FromMembers'
    BY DEF CacheInv, CacheTypeOK, FromMembers, AdmittedWasMember, Return
<1>3. OwnAgree'
    BY DEF CacheInv, CacheTypeOK, OwnAgree, OwnQueryDecides, Return
<1>4. QED
    BY <1>1, <1>2, <1>3 DEF CacheInv, Return

LEMMA EvictInv ==
    ASSUME CacheInv, NEW ch \in ChatIDs, Evict(ch)
    PROVE  CacheInv'
<1>1. CacheTypeOK'
    BY CacheAssumption DEF CacheInv, CacheTypeOK, Evict, calls
<1>2. FromMembers'
    BY DEF CacheInv, CacheTypeOK, FromMembers, AdmittedWasMember, Evict, calls
<1>3. OwnAgree'
    BY DEF CacheInv, CacheTypeOK, OwnAgree, OwnQueryDecides, Evict, calls
<1>4. QED
    BY <1>1, <1>2, <1>3 DEF CacheInv, Evict, calls

LEMMA ChangeMemberInv ==
    ASSUME CacheInv, NEW u \in UserIDs, NEW ch \in ChatIDs, ChangeMember(u, ch)
    PROVE  CacheInv'
<1>1. CacheTypeOK'
    BY DEF CacheInv, CacheTypeOK, ChangeMember, calls
<1>2. FromMembers' /\ OwnAgree'
    BY DEF CacheInv, FromMembers, AdmittedWasMember, OwnAgree, OwnQueryDecides,
           ChangeMember, calls
<1>3. QED
    BY <1>1, <1>2 DEF CacheInv, ChangeMember, calls

(* Every step preserves the invariant.                                     *)
LEMMA CacheStepInv == CacheInv /\ [CacheNext]_cacheVars => CacheInv'
<1> SUFFICES ASSUME CacheInv, [CacheNext]_cacheVars
             PROVE  CacheInv'
    OBVIOUS
<1>1. ASSUME NEW k \in Callers, NEW ch \in ChatIDs, Hit(k, ch) \/ Miss(k, ch)
      PROVE  CacheInv'
    BY <1>1, HitInv, MissInv
<1>2. ASSUME NEW k \in Callers, Return(k) PROVE CacheInv'
    BY <1>2, ReturnInv
<1>3. ASSUME NEW ch \in ChatIDs, Query(ch) \/ Finish(ch) \/ Evict(ch)
      PROVE  CacheInv'
    BY <1>3, QueryInv, FinishInv, EvictInv
<1>4. ASSUME NEW u \in UserIDs, NEW ch \in ChatIDs, ChangeMember(u, ch)
      PROVE  CacheInv'
    BY <1>4, ChangeMemberInv
<1>5. CASE UNCHANGED cacheVars
    BY <1>5 DEF CacheInv, CacheTypeOK, FromMembers, AdmittedWasMember, OwnAgree,
                OwnQueryDecides, cacheVars
<1>6. QED
    BY <1>1, <1>2, <1>3, <1>4, <1>5 DEF CacheNext

LEMMA CacheInvariance == CacheSpec => []CacheInv
BY CacheInitInv, CacheStepInv, PTL DEF CacheSpec

-----------------------------------------------------------------------------
(* The types of the cache's state, and that a load that failed leaves no   *)
(* entry, whatever is loaded, evicted and asked meanwhile.                 *)
THEOREM CacheTyped == CacheSpec => []CacheTypeOK
<1>1. CacheInv => CacheTypeOK
    BY DEF CacheInv
<1>2. QED
    BY <1>1, CacheInvariance, PTL

(* IsUserInChat admits only who was a member himself when the query behind *)
(* the answer was made: sharing entries and loads among users, expiry,     *)
(* failures and members that change do not make it admit anybody else.     *)
THEOREM CacheAdmitsMembers == CacheSpec => []AdmittedWasMember
<1>1. CacheInv => AdmittedWasMember
    BY DEF CacheInv, FromMembers
<1>2. QED
    BY <1>1, CacheInvariance, PTL

(* A caller whose answer goes back to a query about his own user is told   *)
(* what the chat service said then, whoever else shares the entry or the   *)
(* load, and whatever failed, expired or changed since.                    *)
THEOREM CacheOwnQueryDecides == CacheSpec => []OwnQueryDecides
<1>1. CacheInv => OwnQueryDecides
    BY DEF CacheInv, OwnAgree
<1>2. QED
    BY <1>1, CacheInvariance, PTL
=============================================================================
