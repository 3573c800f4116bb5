--------------------------- MODULE PromisesProofs ---------------------------
(***************************************************************************)
(* What the abstract specifications imply, and so what every               *)
(* implementation of them keeps: FanOut, for any peers, messages and       *)
(* publications of them, and Collection, for any ids, users, chats and     *)
(* texts.                                                                  *)
(***************************************************************************)
EXTENDS FanOut, Collection, TLAPS

(* FanOutInv, with the types it rests on.                                  *)
FanOutTypes ==
    /\ log \in Seq(Publications)
    /\ seen \in [Peers -> Seq(Publications)]
    /\ at \in [Peers -> Nat]

FanOutIInv == FanOutTypes /\ FanOutInv

LEMMA FanOutInitInv == FanOutInit => FanOutIInv
<1> SUFFICES ASSUME FanOutInit PROVE FanOutIInv
    OBVIOUS
<1>1. log = <<>> /\ DOMAIN log = {} /\ Len(log) = 0
    BY DEF FanOutInit
<1>2. \A c \in Peers : seen[c] = <<>> /\ DOMAIN seen[c] = {} /\ at[c] = 0
    <2>1. DOMAIN <<>> = {}
        OBVIOUS
    <2>2. \A c \in Peers : seen[c] = <<>> /\ at[c] = 0
        BY DEF FanOutInit
    <2>3. QED
        BY <2>1, <2>2
<1>3. FanOutTypes
    BY DEF FanOutInit, FanOutTypes
<1>4. FanOutInv
    BY <1>1, <1>2 DEF FanOutInv
<1>5. QED
    BY <1>3, <1>4 DEF FanOutIInv

LEMMA SaveMessageInv ==
    ASSUME FanOutIInv, NEW m \in Messages, SaveMessage(m)
    PROVE  FanOutIInv'
BY DEF FanOutIInv, FanOutTypes, FanOutInv, SaveMessage

LEMMA MoveInv ==
    ASSUME FanOutIInv, NEW c \in Peers, NEW from, NEW to, Move(c, from, to)
    PROVE  FanOutIInv'
BY DEF FanOutIInv, FanOutTypes, FanOutInv, Move

(* The log grows at its end: every place and all that is in it stays.      *)
LEMMA PublishMessageInv ==
    ASSUME FanOutIInv, NEW m \in Publications, PublishMessage(m)
    PROVE  FanOutIInv'
<1> USE DEF FanOutIInv, FanOutTypes
<1>1. /\ log' \in Seq(Publications) /\ Len(log') = Len(log) + 1
      /\ DOMAIN log = 1..Len(log) /\ DOMAIN log' = 1..(Len(log) + 1)
      /\ \A i \in 1..Len(log) : log'[i] = log[i]
      /\ log'[Len(log) + 1] = m
    BY DEF PublishMessage
<1>2. saved' = saved /\ seen' = seen /\ at' = at
    BY DEF PublishMessage
<1>3. \A i \in DOMAIN log' : MessageOf[log'[i]] \in saved'
    BY <1>1, <1>2 DEF FanOutInv, PublishMessage
<1>4. \A i, j \in DOMAIN log' : log'[i] = log'[j] => i = j
    BY <1>1 DEF FanOutInv, PublishMessage
<1>5. \A c \in Peers : at[c] \in 0..Len(log) /\ 1..at[c] \subseteq 1..Len(log)
    <2>1. \A c \in Peers : at[c] \in 0..Len(log)
        BY DEF FanOutInv
    <2>2. Len(log) \in Nat
        OBVIOUS
    <2>3. \A n \in Nat : \A p \in 0..n : 1..p \subseteq 1..n
        OBVIOUS
    <2>4. QED
        BY <2>1, <2>2, <2>3
<1>6. \A c \in Peers : at'[c] \in 0..Len(log')
    BY <1>1, <1>2, <1>5
<1>7. ASSUME NEW c \in Peers, NEW k \in DOMAIN seen[c]
      PROVE  \E i \in 1..at[c] : log'[i] = seen[c][k]
    <2>1. PICK i \in 1..at[c] : log[i] = seen[c][k]
        BY <1>7 DEF FanOutInv
    <2>2. QED
        BY <2>1, <1>1, <1>5
<1>8. ASSUME NEW c \in Peers, NEW j \in DOMAIN seen[c], NEW k \in DOMAIN seen[c], j < k
      PROVE  \E p, n \in 1..at[c] : p < n /\ log'[p] = seen[c][j] /\ log'[n] = seen[c][k]
    <2>1. PICK p \in 1..at[c], n \in 1..at[c] :
              p < n /\ log[p] = seen[c][j] /\ log[n] = seen[c][k]
        BY <1>8 DEF FanOutInv
    <2>2. QED
        BY <2>1, <1>1, <1>5
<1>9. FanOutInv'
    BY <1>2, <1>3, <1>4, <1>6, <1>7, <1>8 DEF FanOutInv
<1>10. QED
    BY <1>1, <1>2, <1>9

(* What is further on than the last comes after all that was seen.         *)
LEMMA ShowMessageInv ==
    ASSUME FanOutIInv, NEW c \in Peers, ShowMessage(c)
    PROVE  FanOutIInv'
<1> USE DEF FanOutIInv, FanOutTypes
<1>1. PICK i \in DOMAIN log :
          /\ i > at[c]
          /\ seen' = [seen EXCEPT ![c] = Append(@, log[i])]
          /\ at' = [at EXCEPT ![c] = i]
    BY DEF ShowMessage
<1>2. saved' = saved /\ log' = log
    BY DEF ShowMessage
<1>3. i \in 1..Len(log) /\ log[i] \in Publications
    BY <1>1
<1>4. FanOutTypes'
    BY <1>1, <1>2, <1>3
<1> DEFINE len == Len(seen[c])
<1>5. /\ seen'[c] = Append(seen[c], log[i]) /\ at'[c] = i
      /\ DOMAIN seen[c] = 1..len /\ DOMAIN seen'[c] = 1..(len + 1)
      /\ \A k \in 1..len : seen'[c][k] = seen[c][k]
      /\ seen'[c][len + 1] = log[i]
      /\ len \in Nat
    BY <1>1, <1>3
<1>6. 1..at[c] \subseteq 1..i /\ (\A p \in 1..at[c] : p < i)
    BY <1>1, <1>3
<1> DEFINE Shown(d) ==
        /\ at'[d] \in 0..Len(log)
        /\ \A k \in DOMAIN seen'[d] : \E p \in 1..at'[d] : log[p] = seen'[d][k]
        /\ \A j, k \in DOMAIN seen'[d] :
              j < k => \E p, n \in 1..at'[d] :
                          p < n /\ log[p] = seen'[d][j] /\ log[n] = seen'[d][k]
<1>7. ASSUME NEW d \in Peers, d # c PROVE Shown(d)
    <2>1. at'[d] = at[d] /\ seen'[d] = seen[d]
        BY <1>1, <1>7
    <2>2. QED
        BY <2>1 DEF FanOutInv
<1>8. Shown(c)
    <2>0. \A k \in 1..len : \E p \in 1..at[c] : log[p] = seen[c][k]
        <3>1. DOMAIN seen[c] = 1..len
            BY <1>5
        <3>2. QED
            BY <3>1 DEF FanOutInv
    <2>1. at'[c] \in 0..Len(log)
        BY <1>3, <1>5
    <2>2. ASSUME NEW k \in DOMAIN seen'[c] PROVE \E p \in 1..i : log[p] = seen'[c][k]
        <3>1. CASE k \in 1..len
            <4>1. PICK p \in 1..at[c] : log[p] = seen[c][k]
                BY <2>0, <3>1
            <4>2. QED
                BY <4>1, <3>1, <1>5, <1>6
        <3>2. CASE k = len + 1
            BY <3>2, <1>3, <1>5
        <3>3. QED
            BY <2>2, <3>1, <3>2, <1>5
    <2>3. ASSUME NEW j \in DOMAIN seen'[c], NEW k \in DOMAIN seen'[c], j < k
          PROVE  \E p, n \in 1..i : p < n /\ log[p] = seen'[c][j] /\ log[n] = seen'[c][k]
        <3>1. j \in 1..len
            BY <2>3, <1>5
        <3>2. CASE k \in 1..len
            <4>1. j \in DOMAIN seen[c] /\ k \in DOMAIN seen[c]
                BY <3>1, <3>2, <1>5
            <4>2. PICK p \in 1..at[c], n \in 1..at[c] :
                      p < n /\ log[p] = seen[c][j] /\ log[n] = seen[c][k]
                BY <4>1, <2>3 DEF FanOutInv
            <4>3. QED
                BY <4>2, <3>1, <3>2, <1>5, <1>6
        <3>3. CASE k = len + 1
            <4>1. PICK p \in 1..at[c] : log[p] = seen[c][j]
                BY <2>0, <3>1
            <4>2. i \in 1..i /\ p \in 1..i /\ p < i
                BY <1>3, <1>6
            <4>3. QED
                BY <4>1, <4>2, <3>1, <3>3, <1>5
        <3>4. QED
            BY <2>3, <3>2, <3>3, <1>5
    <2>4. QED
        BY <2>1, <2>2, <2>3, <1>5
<1>9. \A d \in Peers : Shown(d)
    <2> HIDE DEF Shown
    <2>1. QED
        BY <1>7, <1>8
<1>10. FanOutInv'
    BY <1>2, <1>9 DEF FanOutInv
<1>11. QED
    BY <1>4, <1>10

LEMMA FanOutStepInv == FanOutIInv /\ [FanOutNext]_fanOutVars => FanOutIInv'
<1> SUFFICES ASSUME FanOutIInv, [FanOutNext]_fanOutVars
             PROVE  FanOutIInv'
    OBVIOUS
<1>1. CASE \/ \E m \in Messages : SaveMessage(m)
           \/ \E p \in Publications : PublishMessage(p)
    BY <1>1, SaveMessageInv, PublishMessageInv
<1>2. ASSUME NEW c \in Peers,
             Move(c, {"new"}, "open") \/ Move(c, {"new", "open"}, "gone") \/ ShowMessage(c)
      PROVE  FanOutIInv'
    BY <1>2, MoveInv, ShowMessageInv
<1>3. CASE UNCHANGED fanOutVars
    <2>1. UNCHANGED <<saved, log, state, seen, at>>
        BY <1>3 DEF fanOutVars
    <2>2. FanOutTypes'
        BY <2>1 DEF FanOutIInv, FanOutTypes
    <2>3. FanOutInv'
        BY <2>1, SMTT(60) DEF FanOutIInv, FanOutTypes, FanOutInv
    <2>4. QED
        BY <2>2, <2>3 DEF FanOutIInv
<1>4. QED
    BY <1>1, <1>2, <1>3 DEF FanOutNext

(* Every implementation publishes only what was saved, and shows a session *)
(* publications of one log, each at most once and in its order: no two     *)
(* sessions are shown two publications in two orders, and none sees a      *)
(* message more often than it was published.                               *)
THEOREM FanOutKeepsOrder == FanOutSpec => []FanOutInv
<1>1. FanOutIInv => FanOutInv
    BY DEF FanOutIInv
<1>2. QED
    BY <1>1, FanOutInitInv, FanOutStepInv, PTL DEF FanOutSpec

-----------------------------------------------------------------------------
(* The messages collection.                                                *)

LEMMA CollectionInvInit == CollectionInit => CollectionInv
BY DEF CollectionInit, CollectionInv

LEMMA CollectionInvStep ==
    CollectionInv /\ [CollectionNext]_collectionVars => CollectionInv'
<1> SUFFICES ASSUME CollectionInv, [CollectionNext]_collectionVars
             PROVE  CollectionInv'
    OBVIOUS
<1> USE DEF CollectionInv
<1>1. ASSUME NEW id \in IDs, NEW ch \in Chats, NEW u \in Users, NEW text \in Texts,
             Add(id, ch, u, text)
      PROVE  CollectionInv'
    BY <1>1 DEF Add, Entry
<1>2. ASSUME NEW id \in IDs, NEW text \in Texts, Rewrite(id, text)
      PROVE  CollectionInv'
    BY <1>2 DEF Rewrite, Entry
<1>3. ASSUME NEW id \in IDs, Remove(id)
      PROVE  CollectionInv'
    BY <1>3 DEF Remove
<1>4. CASE UNCHANGED collectionVars
    BY <1>4 DEF collectionVars
<1>5. QED
    BY <1>1, <1>2, <1>3, <1>4 DEF CollectionNext

(* In a collection that changes as promised, every message says what its   *)
(* own author wrote, and its id was drawn for it.                          *)
THEOREM CollectionKeepsAuthors == CollectionSpec => []CollectionInv
BY CollectionInvInit, CollectionInvStep, PTL DEF CollectionSpec
=============================================================================
