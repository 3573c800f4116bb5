--------------------------- MODULE StartupProofs ---------------------------
(***************************************************************************)
(* That the server serves over an indexed collection only, and that what   *)
(* becomes of a Duration by Go's multiplications stays an int64.           *)
(***************************************************************************)
EXTENDS Startup, Integers, TLAPS

(* What makes ServesIndexed inductive: the server's goroutine is started by*)
(* a main that has passed EnsureIndexes and does not leave its select, and *)
(* nothing takes the index away.                                           *)
StartupInv ==
    /\ main \in {"off", "config", "connect", "index", "launch", "blocked"}
    /\ server \in {"none", "build", "listen", "serving", "failed"}
    /\ main # "blocked" => server = "none"
    /\ main \in {"launch", "blocked"} => indexed
    /\ indexed \in BOOLEAN

LEMMA StartupInvInit == StartupInit => StartupInv
BY DEF StartupInit, StartupInv

LEMMA StartupInvStep == StartupInv /\ [StartupNext]_startupVars => StartupInv'
<1> SUFFICES ASSUME StartupInv, [StartupNext]_startupVars PROVE StartupInv'
    OBVIOUS
<1> USE DEF StartupInv, MainGoes
<1>1. CASE Boot
    BY <1>1 DEF Boot
<1>2. CASE LoadConfig
    BY <1>2 DEF LoadConfig, Exit
<1>3. CASE ConnectMongoDB
    BY <1>3 DEF ConnectMongoDB, Exit
<1>4. CASE EnsureIndexes
    BY <1>4 DEF EnsureIndexes, Exit
<1>5. CASE Launch
    BY <1>5 DEF Launch
<1>6. CASE BuildServer
    BY <1>6 DEF BuildServer
<1>7. CASE StartServer
    BY <1>7 DEF StartServer
<1>8. CASE StopServing
    BY <1>8 DEF StopServing
<1>9. CASE Crash
    BY <1>9 DEF Crash, Exit
<1>10. CASE UNCHANGED startupVars
    BY <1>10 DEF startupVars
<1>11. QED
    BY <1>1, <1>2, <1>3, <1>4, <1>5, <1>6, <1>7, <1>8, <1>9, <1>10
       DEF StartupNext, StartUp

(* The server answers requests only over an indexed collection, whatever   *)
(* fails during a start and however often the process is restarted.        *)
THEOREM ServesOnlyIndexed == StartupSpec => []ServesIndexed
<1>1. StartupInv => ServesIndexed
    BY DEF StartupInv, ServesIndexed
<1>2. QED
    BY <1>1, StartupInvInit, StartupInvStep, PTL DEF StartupSpec

-----------------------------------------------------------------------------
(* The arithmetic.  Its two recursions, over the places, are of one form.  *)
Follows(f, step) ==
    f = [k \in 0..8 |-> IF k = 0 THEN 0 ELSE step[k - 1][f[k - 1]]]

LEMMA FollowsExists ==
    ASSUME NEW step \in [Places -> [Int -> Int]]
    PROVE  \E f : Follows(f, step)
<1> DEFINE x1 == step[0][0]
           x2 == step[1][x1]
           x3 == step[2][x2]
           x4 == step[3][x3]
           x5 == step[4][x4]
           x6 == step[5][x5]
           x7 == step[6][x6]
           x8 == step[7][x7]
           h(k) == CASE k = 0 -> 0  [] k = 1 -> x1 [] k = 2 -> x2
                     [] k = 3 -> x3 [] k = 4 -> x4 [] k = 5 -> x5
                     [] k = 6 -> x6 [] k = 7 -> x7 [] k = 8 -> x8
           f == [k \in 0..8 |-> h(k)]
           g == [k \in 0..8 |-> IF k = 0 THEN 0 ELSE step[k - 1][f[k - 1]]]
<1> HIDE DEF x1, x2, x3, x4, x5, x6, x7, x8
<1>1. /\ f[0] = 0 /\ f[1] = x1 /\ f[2] = x2 /\ f[3] = x3 /\ f[4] = x4
      /\ f[5] = x5 /\ f[6] = x6 /\ f[7] = x7 /\ f[8] = x8
    OBVIOUS
<1> HIDE DEF h
<1>2. \A k \in 0..8 : g[k] = IF k = 0 THEN 0 ELSE step[k - 1][f[k - 1]]
    OBVIOUS
<1>3. DOMAIN f = 0..8 /\ DOMAIN g = 0..8
      /\ f = [k \in 0..8 |-> f[k]] /\ g = [k \in 0..8 |-> g[k]]
    OBVIOUS
<1> HIDE DEF f, g
<1>4. /\ g[0] = 0 /\ g[1] = step[0][f[0]] /\ g[2] = step[1][f[1]] /\ g[3] = step[2][f[2]]
      /\ g[4] = step[3][f[3]] /\ g[5] = step[4][f[4]] /\ g[6] = step[5][f[5]]
      /\ g[7] = step[6][f[6]] /\ g[8] = step[7][f[7]]
    <2>1. g[0] = 0
        BY <1>2
    <2>2. \A j \in 0..7 : g[j + 1] = step[j][f[j]]
        <3>1. \A j \in 0..7 : j + 1 \in 0..8 /\ j + 1 # 0 /\ (j + 1) - 1 = j
            OBVIOUS
        <3>2. QED
            BY <1>2, <3>1
    <2>3. QED
        BY <2>1, <2>2
<1>5. \A k \in 0..8 : f[k] = g[k]
    <2>1. \A k \in 0..8 : k \in {0, 1, 2, 3, 4, 5, 6, 7, 8}
        OBVIOUS
    <2>2. /\ f[0] = g[0] /\ f[1] = g[1] /\ f[2] = g[2] /\ f[3] = g[3] /\ f[4] = g[4]
          /\ f[5] = g[5] /\ f[6] = g[6] /\ f[7] = g[7] /\ f[8] = g[8]
        BY <1>1, <1>4 DEF x1, x2, x3, x4, x5, x6, x7, x8
    <2>3. QED
        BY <2>1, <2>2
<1>6. f = g
    BY <1>3, <1>5
<1>7. Follows(f, step)
    BY <1>6 DEF Follows, g
<1>8. QED
    BY <1>7

LEMMA ChainInt ==
    ASSUME NEW f, f[0] \in Int,
           \A k \in 0..8, j \in 0..7 : k = j + 1 /\ f[j] \in Int => f[k] \in Int
    PROVE  \A k \in 0..8 : f[k] \in Int
<1>1. f[1] \in Int
    OBVIOUS
<1>2. f[2] \in Int
    BY <1>1
<1>3. f[3] \in Int
    BY <1>2
<1>4. f[4] \in Int
    BY <1>3
<1>5. f[5] \in Int
    BY <1>4
<1>6. f[6] \in Int
    BY <1>5
<1>7. f[7] \in Int
    BY <1>6
<1>8. f[8] \in Int
    BY <1>7
<1>9. \A k \in 0..8 : k \in {0, 1, 2, 3, 4, 5, 6, 7, 8}
    OBVIOUS
<1>10. QED
    BY <1>1, <1>2, <1>3, <1>4, <1>5, <1>6, <1>7, <1>8, <1>9

LEMMA FollowsInt ==
    ASSUME NEW step \in [Places -> [Int -> Int]], NEW f, Follows(f, step)
    PROVE  \A k \in 0..8 : f[k] \in Int
<1>1. \A k \in 0..8 : f[k] = IF k = 0 THEN 0 ELSE step[k - 1][f[k - 1]]
    BY DEF Follows
<1>2. ASSUME NEW k \in 0..8, NEW j \in 0..7, k = j + 1, f[j] \in Int PROVE f[k] \in Int
    <2>1. k # 0 /\ k - 1 = j
        BY <1>2
    <2>2. f[k] = step[j][f[j]]
        BY <1>1, <2>1
    <2>3. step[j] \in [Int -> Int]
        BY DEF Places
    <2>4. QED
        BY <1>2, <2>2, <2>3
<1>3. f[0] = 0
    <2>1. 0 \in 0..8
        OBVIOUS
    <2>2. QED
        BY <1>1, <2>1
<1>4. f[0] \in Int
    BY <1>3
<1>5. \A k \in 0..8, j \in 0..7 : k = j + 1 /\ f[j] \in Int => f[k] \in Int
    BY <1>2
<1>6. QED
    BY <1>4, <1>5, ChainInt

(* The product of two int64s is one.                                       *)
LEMMA TimesTyped ==
    ASSUME NEW a \in [Places -> Int], NEW b \in [Places -> Int]
    PROVE  Times(a, b) \in [Places -> 0..255]
<1> DEFINE term(k, i) == IF i <= k THEN a[i] * b[k - i] ELSE 0
           sums(k) == CHOOSE sum : sum = [n \in 0..8 |->
                          IF n = 0 THEN 0 ELSE sum[n - 1] + term(k, n - 1)]
           column(k) == sums(k)[8]
           carries == CHOOSE carry : carry = [k \in 0..8 |->
                          IF k = 0 THEN 0 ELSE (carry[k - 1] + column(k - 1)) \div 256]
<1>1. \A k, i \in Places : term(k, i) \in Int
    <2> SUFFICES ASSUME NEW k \in Places, NEW i \in Places PROVE term(k, i) \in Int
        OBVIOUS
    <2>1. CASE i <= k
        <3>1. k - i \in Places
            BY <2>1 DEF Places
        <3>2. a[i] \in Int /\ b[k - i] \in Int
            BY <3>1
        <3>3. \A x, y \in Int : x * y \in Int
            OBVIOUS
        <3>4. QED
            BY <2>1, <3>2, <3>3
    <2>2. CASE ~(i <= k)
        BY <2>2
    <2>3. QED
        BY <2>1, <2>2
<1>2. Times(a, b) = [k \in Places |-> (column(k) + carries[k]) % 256]
    BY DEF Times
<1> HIDE DEF term
<1>3. ASSUME NEW k \in Places PROVE column(k) \in Int
    <2> DEFINE step == [n \in Places |-> [x \in Int |-> x + term(k, n)]]
               Ok(f) == f = [n \in 0..8 |-> IF n = 0 THEN 0 ELSE f[n - 1] + term(k, n - 1)]
    <2>1. step \in [Places -> [Int -> Int]]
        BY <1>1
    <2>2. PICK f : Follows(f, step)
        BY <2>1, FollowsExists
    <2>3. \A n \in 0..8 : f[n] \in Int
        BY <2>1, <2>2, FollowsInt
    <2>4. \A n \in 0..8 : n # 0 => n - 1 \in 0..8 /\ n - 1 \in Places
        BY DEF Places
    <2>5. \A n \in 0..8 : n # 0 => step[n - 1][f[n - 1]] = f[n - 1] + term(k, n - 1)
        BY <2>3, <2>4
    <2> HIDE DEF step
    <2>6. Ok(f)
        BY <2>2, <2>5 DEF Follows
    <2>7. sums(k) = CHOOSE g : Ok(g)
        OBVIOUS
    <2> HIDE DEF Ok
    <2>8. Ok(sums(k))
        BY <2>6, <2>7
    <2> DEFINE g == sums(k)
    <2> HIDE DEF sums
    <2>9. \A n \in 0..8 : g[n] = IF n = 0 THEN 0 ELSE g[n - 1] + term(k, n - 1)
        BY <2>8 DEF Ok
    <2> HIDE DEF g
    <2>10. ASSUME NEW n \in 0..8, NEW j \in 0..7, n = j + 1, g[j] \in Int PROVE g[n] \in Int
        <3>1. n # 0 /\ n - 1 = j /\ j \in Places
            BY <2>10 DEF Places
        <3>2. g[n] = g[j] + term(k, j)
            BY <2>9, <3>1
        <3>3. QED
            BY <1>1, <2>10, <3>1, <3>2
    <2>11. g[0] \in Int
        BY <2>9
    <2>12. \A n \in 0..8 : g[n] \in Int
        BY <2>10, <2>11, ChainInt
    <2>13. QED
        BY <2>12 DEF g
<1> HIDE DEF column
<1>4. ASSUME NEW k \in Places PROVE carries[k] \in Int
    <2> DEFINE step == [n \in Places |-> [x \in Int |-> (x + column(n)) \div 256]]
               Ok(f) == f = [n \in 0..8 |->
                            IF n = 0 THEN 0 ELSE (f[n - 1] + column(n - 1)) \div 256]
    <2>1. step \in [Places -> [Int -> Int]]
        BY <1>3
    <2>2. PICK f : Follows(f, step)
        BY <2>1, FollowsExists
    <2>3. \A n \in 0..8 : f[n] \in Int
        BY <2>1, <2>2, FollowsInt
    <2>4. \A n \in 0..8 : n # 0 => n - 1 \in 0..8 /\ n - 1 \in Places
        BY DEF Places
    <2>5. \A n \in 0..8 : n # 0 => step[n - 1][f[n - 1]] = (f[n - 1] + column(n - 1)) \div 256
        BY <2>3, <2>4
    <2> HIDE DEF step
    <2>6. Ok(f)
        BY <2>2, <2>5 DEF Follows
    <2>7. carries = CHOOSE g : Ok(g)
        OBVIOUS
    <2> HIDE DEF Ok
    <2>8. Ok(carries)
        BY <2>6, <2>7
    <2> HIDE DEF carries
    <2>9. \A n \in 0..8 :
             carries[n] = IF n = 0 THEN 0 ELSE (carries[n - 1] + column(n - 1)) \div 256
        BY <2>8 DEF Ok
    <2>10. ASSUME NEW n \in 0..8, NEW j \in 0..7, n = j + 1, carries[j] \in Int
           PROVE  carries[n] \in Int
        <3>1. n # 0 /\ n - 1 = j /\ j \in Places
            BY <2>10 DEF Places
        <3>2. carries[n] = (carries[j] + column(j)) \div 256
            BY <2>9, <3>1
        <3>3. QED
            BY <1>3, <2>10, <3>1, <3>2
    <2>11. carries[0] \in Int
        BY <2>9
    <2>12. \A n \in 0..8 : carries[n] \in Int
        BY <2>10, <2>11, ChainInt
    <2>13. QED
        BY <2>12 DEF Places
<1> HIDE DEF carries
<1>5. ASSUME NEW k \in Places PROVE (column(k) + carries[k]) % 256 \in 0..255
    <2>1. \A x, y \in Int : (x + y) % 256 \in 0..255
        OBVIOUS
    <2>2. QED
        BY <1>3, <1>4, <2>1
<1>6. QED
    BY <1>2, <1>5

LEMMA DurationsTyped ==
    ASSUME NEW m \in ExpiryMinutes
    PROVE  CacheExpiry[m] \in [Places -> 0..255]
<1>1. ASSUME NEW n \in Nat PROVE Int64(n) \in [Places -> Int]
    <2>1. n % 256 \in Int /\ (n \div 256) % 256 \in Int /\ n \div 65536 \in Int
        OBVIOUS
    <2>2. \A k \in Places : Int64(n)[k] \in Int
        BY <2>1 DEF Int64
    <2>3. QED
        BY <2>2 DEF Int64
<1>2. ASSUME NEW a \in [Places -> Int], NEW b \in [Places -> Int]
      PROVE  Times(a, b) \in [Places -> Int]
    <2>1. Times(a, b) \in [Places -> 0..255]
        BY TimesTyped
    <2>2. QED
        BY <2>1
<1>3. Int64(60) \in [Places -> Int] /\ Int64(1000000) \in [Places -> Int]
      /\ Int64(1000) \in [Places -> Int] /\ Int64(m) \in [Places -> Int]
    BY <1>1, StartupAssumption
<1>4. Minute \in [Places -> Int]
    BY <1>2, <1>3 DEF Minute
<1>5. Configured[m] \in [Places -> Int]
    BY <1>2, <1>3, <1>4 DEF Configured
<1>6. QED
    BY <1>4, <1>5, TimesTyped DEF CacheExpiry

(* What is in the configuration is given to the server as it is built.     *)
ExpiryInv ==
    /\ main = "blocked" <=> server # "none"
    /\ main \notin {"off", "config"} => minutes \in ExpiryMinutes
    /\ minutes \in ExpiryMinutes \cup {0}
    /\ expiry \in [Places -> 0..255]

LEMMA ExpiryInit == StartupInit => ExpiryInv
<1>1. Zero \in [Places -> 0..255]
    BY DEF Zero
<1>2. QED
    BY <1>1 DEF StartupInit, ExpiryInv

LEMMA ExpiryStep ==
    StartupInv /\ ExpiryInv /\ [StartupNext]_startupVars => ExpiryInv'
<1> SUFFICES ASSUME StartupInv, ExpiryInv, [StartupNext]_startupVars PROVE ExpiryInv'
    OBVIOUS
<1> USE DEF ExpiryInv, MainGoes
<1>1. ASSUME Exit PROVE ExpiryInv'
    <2>1. Zero \in [Places -> 0..255]
        BY DEF Zero
    <2>2. QED
        BY <1>1, <2>1 DEF Exit
<1>2. CASE Boot \/ LoadConfig
    BY <1>1, <1>2 DEF Boot, LoadConfig
<1>3. CASE ConnectMongoDB \/ EnsureIndexes
    BY <1>1, <1>3 DEF ConnectMongoDB, EnsureIndexes
<1>4. CASE Launch \/ StartServer \/ StopServing
    BY <1>4 DEF Launch, StartServer, StopServing
<1>5. CASE BuildServer
    <2>1. server = "build" /\ server' = "listen" /\ UNCHANGED <<main, minutes>>
          /\ expiry' = CacheExpiry[minutes]
        BY <1>5 DEF BuildServer
    <2>2. main = "blocked" /\ minutes \in ExpiryMinutes
        BY <2>1
    <2>3. expiry' \in [Places -> 0..255]
        BY <2>1, <2>2, DurationsTyped
    <2>4. QED
        BY <2>1, <2>3
<1>6. CASE Crash
    BY <1>1, <1>6 DEF Crash
<1>7. CASE UNCHANGED startupVars
    BY <1>7 DEF startupVars
<1>8. QED
    BY <1>2, <1>3, <1>4, <1>5, <1>6, <1>7 DEF StartupNext, StartUp

(* The server goroutine lives as long as main is in its select, and what   *)
(* the cache is given is an int64 for any number of minutes configured.    *)
THEOREM StartupTyped == StartupSpec => []StartupTypeOK
<1>1. StartupInv /\ ExpiryInv => StartupTypeOK
    BY DEF StartupInv, ExpiryInv, StartupTypeOK
<1>2. QED
    BY <1>1, StartupInvInit, StartupInvStep, ExpiryInit, ExpiryStep, PTL DEF StartupSpec
=============================================================================
