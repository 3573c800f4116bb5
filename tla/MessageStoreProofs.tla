------------------------- MODULE MessageStoreProofs -------------------------
(***************************************************************************)
(* That the messages collection, with the use cases and the repository     *)
(* above it, keeps the promise of module Collection.                       *)
(***************************************************************************)
EXTENDS MessageStore, FiniteSetTheorems, SequenceTheorems, TLAPS

(* The collection holds messages under ids that were drawn for them, and   *)
(* what each says was written by its sender.                               *)
CollInv ==
    /\ drawn \subseteq MessageIDs
    /\ DOMAIN coll \subseteq drawn
    /\ coll = [id \in DOMAIN coll |-> coll[id]]
    /\ \A id \in DOMAIN coll : coll[id] \in Message
    /\ writer = [id \in DOMAIN coll |-> coll[id].sender]

(* The collection as the promise sees it.                                  *)
Promised == [id \in DOMAIN coll |->
                [chat |-> coll[id].chat, author |-> coll[id].sender,
                 text |-> coll[id].content, by |-> writer[id]]]

LEMMA InitPromised == StoreInit => CollInv /\ AsPromised!CollectionInit
BY DEF StoreInit, CollInv, AsPromised!CollectionInit, AsPromised!Entry

LEMMA SavePromised ==
    ASSUME CollInv, NEW u \in UserIDs, NEW ch \in ChatIDs, NEW type \in Types,
           NEW text \in Contents, Save(u, ch, type, text)
    PROVE  CollInv' /\ \E id \in MessageIDs : AsPromised!Add(id, ch, u, text)
<1> DEFINE rec == [chat |-> ch, sender |-> u, type |-> type,
                   content |-> text, recent |-> TRUE]
<1>1. PICK id \in NewIDs :
         /\ coll' = With(coll, id, rec)
         /\ writer' = With(writer, id, u)
         /\ drawn' = drawn \cup {id}
    BY DEF Save
<1>2. /\ coll' = [i \in DOMAIN coll \cup {id} |-> IF i = id THEN rec ELSE coll[i]]
      /\ writer' = [i \in DOMAIN coll \cup {id} |->
                        IF i = id THEN u ELSE coll[i].sender]
      /\ id \in MessageIDs /\ id \notin drawn /\ rec \in Message
    BY <1>1 DEF With, NewIDs, CollInv, Message
<1>3. DOMAIN coll' = DOMAIN coll \cup {id} /\ coll'[id] = rec /\ writer'[id] = u
    BY <1>2
<1>4. \A i \in DOMAIN coll : i # id /\ coll'[i] = coll[i] /\ writer'[i] = writer[i]
    BY <1>2 DEF CollInv
<1>5. CollInv'
    <2>1. coll' = [i \in DOMAIN coll' |-> coll'[i]]
        BY <1>2
    <2>2. writer' = [i \in DOMAIN coll' |-> coll'[i].sender]
        BY <1>2
    <2>3. QED
        BY <1>1, <1>2, <1>3, <1>4, <2>1, <2>2 DEF CollInv
<1>6. Promised' = With(Promised, id, [chat |-> ch, author |-> u, text |-> text, by |-> u])
    BY <1>3, <1>4 DEF Promised, With
<1>7. AsPromised!Add(id, ch, u, text)
    BY <1>1, <1>2, <1>6 DEF AsPromised!Add, Promised, With
<1>8. QED
    BY <1>2, <1>5, <1>7

(* The user's own message, trimmed, takes the place of what it said.       *)
LEMMA UpdatePromised ==
    ASSUME CollInv, NEW u, NEW ch, NEW id, NEW text \in Texts,
           Update(u, ch, id, text)
    PROVE  CollInv' /\ AsPromised!CollectionNext
<1> DEFINE new == Trimmed[text]
<1>1. /\ id \in DOMAIN coll /\ coll[id].sender = u
      /\ coll' = [coll EXCEPT ![id].content = new]
      /\ writer' = [writer EXCEPT ![id] = u]
      /\ drawn' = drawn
    BY DEF Update
<1>2. new \in Contents /\ new # Blank
    BY StoreAssumption DEF Update, Acceptable
<1>3. DOMAIN coll' = DOMAIN coll /\ writer' = writer
    BY <1>1 DEF CollInv
<1>4. \A i \in DOMAIN coll :
         /\ coll'[i] \in Message
         /\ coll'[i].sender = coll[i].sender /\ coll'[i].chat = coll[i].chat
         /\ coll'[i].content = IF i = id THEN new ELSE coll[i].content
    BY <1>1, <1>2 DEF CollInv, Message
<1>5. CollInv'
    <2>1. coll' = [i \in DOMAIN coll' |-> coll'[i]]
        BY <1>1, <1>3
    <2>2. QED
        BY <1>1, <1>3, <1>4, <2>1 DEF CollInv
<1>6. Promised' = [Promised EXCEPT ![id].text = new]
    BY <1>1, <1>3, <1>4 DEF Promised
<1>7. AsPromised!Rewrite(id, new)
    BY <1>1, <1>2, <1>6 DEF AsPromised!Rewrite, Promised
<1>8. id \in MessageIDs
    BY <1>1 DEF CollInv
<1>9. QED
    BY <1>2, <1>5, <1>7, <1>8 DEF AsPromised!CollectionNext

LEMMA DeletePromised ==
    ASSUME CollInv, NEW ch, NEW id, Delete(ch, id)
    PROVE  CollInv' /\ AsPromised!CollectionNext
<1>1. /\ id \in DOMAIN coll
      /\ coll' = [i \in DOMAIN coll \ {id} |-> coll[i]]
      /\ writer' = [i \in DOMAIN coll \ {id} |-> writer[i]]
      /\ drawn' = drawn
    BY DEF Delete
<1>2. /\ DOMAIN coll' = DOMAIN coll \ {id}
      /\ \A i \in DOMAIN coll' : coll'[i] = coll[i] /\ writer'[i] = writer[i]
    BY <1>1
<1>3. CollInv'
    BY <1>1, <1>2 DEF CollInv
<1>4. Promised' = [i \in DOMAIN Promised \ {id} |-> Promised[i]]
    BY <1>2 DEF Promised
<1>5. AsPromised!Remove(id)
    BY <1>1, <1>4 DEF AsPromised!Remove, Promised
<1>6. QED
    BY <1>1, <1>3, <1>5 DEF CollInv, AsPromised!CollectionNext

(* Nothing that is promised shows a message's age, or the readers.         *)
LEMMA AgePromised ==
    ASSUME CollInv, NEW id \in MessageIDs, Age(id)
    PROVE  CollInv' /\ UNCHANGED AsPromised!collectionVars
<1>1. /\ id \in DOMAIN coll
      /\ coll' = [coll EXCEPT ![id].recent = FALSE]
      /\ UNCHANGED <<writer, drawn>>
    BY DEF Age
<1>2. /\ DOMAIN coll' = DOMAIN coll
      /\ coll' = [i \in DOMAIN coll' |-> coll'[i]]
    BY <1>1
<1>3. \A i \in DOMAIN coll :
         /\ coll'[i] \in Message
         /\ coll'[i].sender = coll[i].sender /\ coll'[i].chat = coll[i].chat
         /\ coll'[i].content = coll[i].content
    BY <1>1 DEF CollInv, Message
<1>4. CollInv'
    BY <1>1, <1>2, <1>3 DEF CollInv
<1>5. UNCHANGED AsPromised!collectionVars
    BY <1>1, <1>2, <1>3 DEF AsPromised!collectionVars
<1>6. QED
    BY <1>4, <1>5

LEMMA QuietPromised ==
    ASSUME CollInv, UNCHANGED <<coll, writer, drawn>>
    PROVE  CollInv' /\ UNCHANGED AsPromised!collectionVars
BY DEF CollInv, AsPromised!collectionVars

LEMMA WritePromised ==
    ASSUME CollInv, Write
    PROVE  CollInv' /\ AsPromised!CollectionNext
<1>1. ASSUME NEW u \in UserIDs, NEW ch \in ChatIDs, NEW type \in Types,
             NEW text \in Contents, Save(u, ch, type, text)
      PROVE  CollInv' /\ AsPromised!CollectionNext
    BY <1>1, SavePromised, StoreAssumption DEF AsPromised!CollectionNext
<1>2. ASSUME NEW u \in UserIDs, NEW ch \in ChatIDs, NEW id \in MessageIDs,
             NEW text \in Texts, Update(u, ch, id, text)
      PROVE  CollInv' /\ AsPromised!CollectionNext
    BY <1>2, UpdatePromised
<1>3. ASSUME NEW ch \in ChatIDs, NEW id \in MessageIDs, Delete(ch, id)
      PROVE  CollInv' /\ AsPromised!CollectionNext
    BY <1>3, DeletePromised
<1>4. QED
    BY <1>1, <1>2, <1>3 DEF Write

(* Every step is one the promise allows, or one it does not see.           *)
LEMMA StepPromised ==
    ASSUME CollInv, [StoreNext]_storeVars
    PROVE  CollInv' /\ [AsPromised!CollectionNext]_(AsPromised!collectionVars)
<1>1. CASE Write
    BY <1>1, WritePromised
<1>2. ASSUME NEW id \in MessageIDs, Age(id)
      PROVE  CollInv' /\ UNCHANGED AsPromised!collectionVars
    BY <1>2, AgePromised
<1>3. ASSUME NEW r \in Readers, Start(r) \/ Page(r) \/ RejectAnchor(r)
      PROVE  CollInv' /\ UNCHANGED AsPromised!collectionVars
    <2>1. UNCHANGED <<coll, writer, drawn>>
        BY <1>3 DEF Start, Page, RejectAnchor
    <2>2. QED
        BY <2>1, QuietPromised
<1>4. CASE UNCHANGED storeVars
    BY <1>4, QuietPromised DEF storeVars
<1>5. QED
    BY <1>1, <1>2, <1>3, <1>4 DEF StoreNext

(* The store implements Collection: whatever users, chats, contents and    *)
(* ids there are, saves, edits and deletes are changes of a collection     *)
(* whose messages stay their authors'.                                     *)
THEOREM StoreImplementsCollection == StoreSpec => ImplementsCollection
<1>1. StoreInit => CollInv /\ AsPromised!CollectionInit
    BY InitPromised
<1>2. CollInv /\ [StoreNext]_storeVars
         => CollInv' /\ [AsPromised!CollectionNext]_(AsPromised!collectionVars)
    BY StepPromised
<1>3. QED
    BY <1>1, <1>2, PTL DEF StoreSpec, ImplementsCollection, AsPromised!CollectionSpec

-----------------------------------------------------------------------------
(* The operators the pages are made with.                                  *)

LEMMA MinOfTwo ==
    ASSUME NEW a \in Nat, NEW b \in Nat
    PROVE  Min({a, b}) = IF a <= b THEN a ELSE b
<1> DEFINE m == IF a <= b THEN a ELSE b
<1>1. m \in {a, b} /\ \A y \in {a, b} : m <= y
    OBVIOUS
<1>2. \A x \in {a, b} : (\A y \in {a, b} : x <= y) => x = m
    OBVIOUS
<1>3. QED
    BY <1>1, <1>2 DEF Min

LEMMA LeastOf ==
    ASSUME NEW T \in SUBSET Nat, T # {}
    PROVE  \E x \in T : \A y \in T : x <= y
<1>1. PICK x \in T : \A y \in T : ~ (<<y, x>> \in OpToRel(<, Nat))
    BY NatLessThanWellFounded, WFMin
<1>2. \A y \in T : ~ (y < x)
    BY <1>1 DEF OpToRel
<1>3. QED
    BY <1>2

(* A finite set of numbers can be put into descending order.               *)
Enumerates(s, T) ==
    /\ s \in [1..Cardinality(T) -> T]
    /\ Descending(s)
    /\ \A x \in T : \E i \in 1..Cardinality(T) : s[i] = x

LEMMA EnumerateOneMore ==
    ASSUME NEW T \in SUBSET Nat, IsFiniteSet(T), NEW x \in T, \A y \in T : x <= y,
           NEW u, Enumerates(u, T \ {x})
    PROVE  \E s : Enumerates(s, T)
<1> DEFINE n == Cardinality(T)
           s == [i \in 1..n |-> IF i = n THEN x ELSE u[i]]
<1>1. n \in Nat \ {0} /\ Cardinality(T \ {x}) = n - 1
    <2>1. n \in Nat /\ n # 0 /\ Cardinality(T \ {x}) = n - 1
        BY FS_CardinalityType, FS_EmptySet, FS_RemoveElement
    <2>2. QED
        BY <2>1
<1> HIDE DEF n
<1>2. \A i \in 1..n : i = n \/ i \in 1..(n - 1)
    BY <1>1
<1>3. \A i \in 1..(n - 1) : i \in 1..n /\ i # n /\ u[i] \in T \ {x}
    BY <1>1 DEF Enumerates, n
<1>4. s \in [1..n -> T]
    BY <1>2, <1>3
<1>5. \A i \in 1..(n - 1) : s[i] = u[i] /\ u[i] > x
    <2>1. \A i \in 1..(n - 1) : s[i] = u[i]
        BY <1>3
    <2>2. \A y \in T \ {x} : y > x
        OBVIOUS
    <2>3. QED
        BY <1>3, <2>1, <2>2
<1>6. n \in 1..n /\ s[n] = x
    BY <1>1
<1>7. DOMAIN u = 1..(n - 1) /\ DOMAIN s = 1..n
    BY <1>1 DEF Enumerates, n
<1>8. ASSUME NEW i \in 1..n, NEW j \in 1..n, i < j PROVE s[i] > s[j]
    <2>1. i \in 1..(n - 1)
        BY <1>1, <1>8
    <2>2. CASE j = n
        BY <1>5, <1>6, <2>1, <2>2
    <2>3. CASE j \in 1..(n - 1)
        BY <1>5, <1>7, <1>8, <2>1, <2>3 DEF Enumerates, Descending
    <2>4. QED
        BY <1>2, <2>2, <2>3
<1>9. ASSUME NEW y \in T PROVE \E i \in 1..n : s[i] = y
    <2>1. CASE y = x
        BY <1>6, <2>1
    <2>2. CASE y # x
        <3>1. PICK i \in 1..(n - 1) : u[i] = y
            BY <1>1, <2>2 DEF Enumerates, n
        <3>2. QED
            BY <1>3, <1>5, <3>1
    <2>3. QED
        BY <2>1, <2>2
<1>10. Descending(s)
    BY <1>7, <1>8 DEF Descending
<1>11. QED
    BY <1>4, <1>9, <1>10 DEF Enumerates, n

LEMMA Enumerable ==
    ASSUME NEW S \in SUBSET Nat, IsFiniteSet(S)
    PROVE  \E s : Enumerates(s, S)
<1> DEFINE Bad == {T \in SUBSET S : ~ \E s : Enumerates(s, T)}
<1> SUFFICES ASSUME Bad # {} PROVE FALSE
    OBVIOUS
<1>1. IsWellFoundedOn(StrictSubsetOrdering(S), SUBSET S)
    BY FS_StrictSubsetOrderingWellFounded, FS_FiniteSubsetsOfFinite
<1>2. PICK T \in Bad : \A U \in Bad : ~ (<<U, T>> \in StrictSubsetOrdering(S))
    <2>1. Bad \subseteq SUBSET S
        OBVIOUS
    <2> HIDE DEF Bad
    <2>2. QED
        BY <1>1, <2>1, WFMin
<1>3. IsFiniteSet(T) /\ T \in SUBSET Nat
    BY FS_Subset
<1>4. CASE T = {}
    <2>1. Cardinality(T) = 0
        BY <1>4, FS_EmptySet
    <2>2. Enumerates([i \in 1..0 |-> 0], T)
        BY <1>4, <2>1 DEF Enumerates, Descending
    <2>3. QED
        BY <2>2
<1>5. CASE T # {}
    <2>1. PICK x \in T : \A y \in T : x <= y
        BY <1>3, <1>5, LeastOf
    <2>2. <<T \ {x}, T>> \in StrictSubsetOrdering(S)
        BY <2>1 DEF StrictSubsetOrdering
    <2>3. PICK u : Enumerates(u, T \ {x})
        BY <1>2, <2>2
    <2>4. \E s : Enumerates(s, T)
        BY <1>3, <2>1, <2>3, EnumerateOneMore
    <2>5. QED
        BY <2>4
<1>6. QED
    BY <1>4, <1>5

(* The page that Find returns exists, whatever it has found.               *)
LEMMA LastOfIs ==
    ASSUME NEW ids \in SUBSET Nat, IsFiniteSet(ids), NEW n \in Nat
    PROVE  LET s == LastOf(ids, n)
           IN  /\ s \in [1..Min({n, Cardinality(ids)}) -> ids]
               /\ Descending(s)
               /\ \A id \in ids \ Range(s) : \A i \in DOMAIN s : id < s[i]
<1> DEFINE c == Cardinality(ids)
           k == Min({n, c})
           Ok(s) == /\ Descending(s)
                    /\ \A id \in ids \ Range(s) : \A i \in DOMAIN s : id < s[i]
<1>1. PICK e : Enumerates(e, ids)
    BY Enumerable
<1>2. c \in Nat
    BY FS_CardinalityType
<1>3. k \in 0..c
    BY <1>2, MinOfTwo
<1>4. /\ e \in [1..c -> ids] /\ Descending(e)
      /\ \A x \in ids : \E i \in 1..c : e[i] = x
    BY <1>1 DEF Enumerates
<1> DEFINE s == [i \in 1..k |-> e[i]]
<1> HIDE DEF c, k
<1>5. \A i \in 1..k : i \in 1..c
    BY <1>2, <1>3
<1>6. s \in [1..k -> ids] /\ DOMAIN s = 1..k /\ \A i \in 1..k : s[i] = e[i]
    BY <1>4, <1>5
<1>7. Descending(s)
    BY <1>4, <1>5, <1>6 DEF Descending
<1>8. ASSUME NEW id \in ids \ Range(s), NEW i \in DOMAIN s PROVE id < s[i]
    <2>1. PICK j \in 1..c : e[j] = id
        BY <1>4
    <2>2. j \notin 1..k
        BY <1>6, <2>1 DEF Range
    <2>3. i < j /\ i \in 1..c
        BY <1>2, <1>3, <1>5, <1>6, <2>1, <2>2
    <2>4. e[i] > e[j]
        BY <1>4, <2>1, <2>3 DEF Descending
    <2>5. QED
        BY <1>4, <1>6, <2>1, <2>3, <2>4
<1>9. \E t \in [1..k -> ids] : Ok(t)
    BY <1>6, <1>7, <1>8
<1>10. LastOf(ids, n) = CHOOSE t \in [1..k -> ids] : Ok(t)
    BY DEF LastOf, k, c
<1> HIDE DEF Ok
<1>11. LastOf(ids, n) \in [1..k -> ids] /\ Ok(LastOf(ids, n))
    BY <1>9, <1>10
<1>12. QED
    BY <1>11 DEF Ok, k, c

LEMMA FunctionIsSeq ==
    ASSUME NEW S, NEW n \in Nat, NEW f \in [1..n -> S]
    PROVE  f \in Seq(S) /\ Len(f) = n /\ DOMAIN f = 1..n
<1>1. f \in Seq(S)
    BY SeqDef
<1>2. Len(f) \in Nat /\ DOMAIN f = 1..Len(f) /\ DOMAIN f = 1..n
    BY <1>1, LenProperties
<1>3. Len(f) = n
    BY <1>2
<1>4. QED
    BY <1>1, <1>2, <1>3

(* What a client is shown of the messages found: the next of them, in      *)
(* descending order, and all of them unless it is told of more, when those *)
(* it has not been shown come after the page.                              *)
LEMMA PageIs ==
    ASSUME NEW ids \in SUBSET Nat, IsFiniteSet(ids)
    PROVE  LET found == LastOf(ids, Limit + 1)
               page  == Shown(found)
           IN  /\ page \in Seq(ids) /\ Descending(page)
               /\ HasMore(found) =>
                     /\ page # <<>>
                     /\ \A id \in ids \ Range(page) : id < Last(page)
               /\ ~HasMore(found) => ids \subseteq Range(page)
<1> DEFINE c == Cardinality(ids)
           k == Min({Limit + 1, c})
           found == LastOf(ids, Limit + 1)
           page  == Shown(found)
<1>1. Limit \in Nat \ {0} /\ c \in Nat
    BY StoreAssumption, FS_CardinalityType
<1>2. k = IF Limit + 1 <= c THEN Limit + 1 ELSE c
    BY <1>1, MinOfTwo
<1>3. /\ found \in [1..k -> ids] /\ Descending(found)
      /\ \A id \in ids \ Range(found) : \A i \in DOMAIN found : id < found[i]
    <2>1. Limit + 1 \in Nat
        BY <1>1
    <2> DEFINE n == Limit + 1
    <2> HIDE DEF n
    <2>2. LET s == LastOf(ids, n)
          IN  /\ s \in [1..Min({n, Cardinality(ids)}) -> ids]
              /\ Descending(s)
              /\ \A id \in ids \ Range(s) : \A i \in DOMAIN s : id < s[i]
        BY <2>1, LastOfIs DEF n
    <2>3. QED
        BY <2>2 DEF n
<1> HIDE DEF k, c, found
<1>4. k \in Nat /\ found \in Seq(ids) /\ Len(found) = k /\ DOMAIN found = 1..k
    <2>1. k \in Nat
        BY <1>1, <1>2
    <2>2. QED
        BY <1>3, <2>1, FunctionIsSeq
<1>5. HasMore(found) <=> k = Limit + 1
    BY <1>1, <1>2, <1>4 DEF HasMore
<1>6. CASE HasMore(found)
    <2>1. k = Limit + 1 /\ page = SubSeq(found, 1, Limit)
        BY <1>5, <1>6 DEF Shown
    <2>2. \A i \in 1..Limit : i \in 1..k
        BY <1>1, <2>1
    <2>3. page = [i \in 1..Limit |-> found[i]]
        BY <1>1, <1>4, <2>1
    <2>4. page \in [1..Limit -> ids] /\ DOMAIN page = 1..Limit
        BY <1>3, <2>2, <2>3
    <2> HIDE DEF page
    <2>5. page \in Seq(ids) /\ Len(page) = Limit
        BY <1>1, <2>4, FunctionIsSeq
    <2>6. Descending(page)
        BY <1>3, <1>4, <2>2, <2>3, <2>4 DEF Descending
    <2>7. page # <<>> /\ Last(page) = found[Limit] /\ Limit \in 1..k
        <3>1. Limit \in 1..Limit
            BY <1>1
        <3>2. Len(page) # 0
            BY <1>1, <2>5
        <3>3. Len(<<>>) = 0
            OBVIOUS
        <3>4. page # <<>>
            BY <3>2, <3>3
        <3>5. page[Limit] = found[Limit]
            BY <2>3, <3>1
        <3>6. Last(page) = page[Limit]
            BY <2>5 DEF Last
        <3>7. QED
            BY <2>2, <3>1, <3>4, <3>5, <3>6
    <2>8. ASSUME NEW id \in ids \ Range(page) PROVE id < found[Limit]
        <3>1. CASE id \notin Range(found)
            BY <1>3, <1>4, <2>7, <2>8, <3>1
        <3>2. CASE id \in Range(found)
            <4>1. PICK i \in 1..k : found[i] = id
                BY <1>4, <3>2 DEF Range
            <4>2. i \notin 1..Limit
                BY <2>3, <2>4, <2>8, <4>1 DEF Range
            <4>3. Limit < i
                BY <1>1, <4>1, <4>2
            <4>4. found[Limit] > found[i]
                BY <1>3, <1>4, <2>7, <4>1, <4>3 DEF Descending
            <4>5. found[Limit] \in Nat /\ id \in Nat
                BY <1>3, <2>7
            <4>6. QED
                BY <4>1, <4>4, <4>5
        <3>3. QED
            BY <3>1, <3>2
    <2>9. QED
        BY <1>6, <2>5, <2>6, <2>7, <2>8 DEF found, page
<1>7. CASE ~HasMore(found)
    <2>1. k = c /\ page = found
        BY <1>1, <1>2, <1>5, <1>7 DEF Shown
    <2>2. \A i, j \in 1..k : found[i] \in Nat /\ (found[i] = found[j] => i = j)
        <3>1. \A i, j \in 1..k : i < j => found[i] > found[j]
            BY <1>3, <1>4 DEF Descending
        <3>2. ASSUME NEW i \in 1..k, NEW j \in 1..k, found[i] = found[j] PROVE i = j
            <4>1. found[i] \in Nat /\ i \in Int /\ j \in Int
                <5>1. found[i] \in ids
                    BY <1>3
                <5>2. i \in Int /\ j \in Int
                    BY <1>4
                <5>3. QED
                    BY <5>1, <5>2
            <4>2. ~(i < j) /\ ~(j < i)
                BY <3>1, <3>2, <4>1
            <4>3. QED
                BY <4>1, <4>2
        <3>3. \A i \in 1..k : found[i] \in Nat
            BY <1>3
        <3>4. QED
            BY <3>2, <3>3
    <2>3. found \in Injection(1..k, ids)
        BY <1>3, <1>4, <2>2 DEF Injection, IsInjective
    <2>4. Cardinality(1..k) = Cardinality(ids)
        BY <1>4, <2>1, FS_Interval DEF c
    <2>5. found \in Surjection(1..k, ids)
        BY <2>3, <2>4, FS_Injection
    <2>6. ids \subseteq Range(found)
        BY <1>4, <2>5 DEF Surjection, Range
    <2>7. QED
        BY <1>3, <1>4, <1>7, <2>1, <2>6 DEF found
<1>8. QED
    BY <1>6, <1>7

LEMMA WiderSeq ==
    ASSUME NEW S, NEW T, S \subseteq T, NEW s \in Seq(S)
    PROVE  s \in Seq(T) /\ \A i \in DOMAIN s : s[i] \in T
<1>1. PICK n \in Nat : s \in [1..n -> S]
    BY SeqDef
<1>2. s \in [1..n -> T]
    BY <1>1
<1>3. QED
    BY <1>2, SeqDef

LEMMA ConcatRange ==
    ASSUME NEW S, NEW s \in Seq(S), NEW t \in Seq(S)
    PROVE  Range(s \o t) = Range(s) \cup Range(t)
<1> DEFINE m == Len(s)
           n == Len(t)
<1>1. /\ s \o t \in Seq(S) /\ Len(s \o t) = m + n /\ m \in Nat /\ n \in Nat
      /\ DOMAIN s = 1..m /\ DOMAIN t = 1..n /\ DOMAIN (s \o t) = 1..(m + n)
    BY ConcatProperties, LenProperties
<1>2. \A i \in 1..(m + n) : (s \o t)[i] = IF i <= m THEN s[i] ELSE t[i - m]
    BY ConcatProperties
<1> DEFINE u == s \o t
<1> HIDE DEF m, n, u
<1>3. ASSUME NEW i \in 1..(m + n) PROVE u[i] \in Range(s) \cup Range(t)
    <2>1. CASE i <= m
        <3>1. i \in 1..m
            BY <1>1, <2>1
        <3>2. u[i] = s[i]
            BY <1>2, <2>1 DEF u
        <3>3. QED
            BY <1>1, <3>1, <3>2 DEF Range
    <2>2. CASE ~(i <= m)
        <3>1. i - m \in 1..n
            BY <1>1, <2>2
        <3>2. u[i] = t[i - m]
            BY <1>2, <2>2 DEF u
        <3>3. QED
            BY <1>1, <3>1, <3>2 DEF Range
    <2>3. QED
        BY <2>1, <2>2
<1>4. ASSUME NEW i \in 1..m PROVE s[i] \in Range(u)
    <2>1. i \in 1..(m + n) /\ i <= m
        BY <1>1
    <2>2. u[i] = s[i]
        BY <1>2, <2>1 DEF u
    <2>3. QED
        BY <1>1, <2>1, <2>2 DEF Range, u
<1>5. ASSUME NEW i \in 1..n PROVE t[i] \in Range(u)
    <2>1. m + i \in 1..(m + n) /\ ~(m + i <= m) /\ (m + i) - m = i
        BY <1>1
    <2>2. u[m + i] = t[i]
        BY <1>2, <2>1 DEF u
    <2>3. QED
        BY <1>1, <2>1, <2>2 DEF Range, u
<1>6. Range(u) = {u[i] : i \in 1..(m + n)} /\ Range(s) = {s[i] : i \in 1..m}
      /\ Range(t) = {t[i] : i \in 1..n}
    BY <1>1 DEF Range, u
<1>7. Range(u) = Range(s) \cup Range(t)
    BY <1>3, <1>4, <1>5, <1>6
<1>8. QED
    BY <1>7 DEF u

LEMMA ConcatDescending ==
    ASSUME NEW s \in Seq(Nat), NEW t \in Seq(Nat), Descending(s), Descending(t),
           \A i \in DOMAIN s, j \in DOMAIN t : s[i] > t[j]
    PROVE  Descending(s \o t)
<1> DEFINE m == Len(s)
           n == Len(t)
           u == s \o t
<1>1. /\ m \in Nat /\ n \in Nat
      /\ DOMAIN s = 1..m /\ DOMAIN t = 1..n /\ DOMAIN u = 1..(m + n)
    BY ConcatProperties, LenProperties
<1>2. \A i \in 1..(m + n) : u[i] = IF i <= m THEN s[i] ELSE t[i - m]
    BY ConcatProperties
<1> HIDE DEF m, n, u
<1>3. ASSUME NEW i \in 1..(m + n), NEW j \in 1..(m + n), i < j PROVE u[i] > u[j]
    <2>1. CASE j <= m
        <3>1. i \in 1..m /\ j \in 1..m /\ u[i] = s[i] /\ u[j] = s[j]
            BY <1>1, <1>2, <1>3, <2>1
        <3>2. QED
            BY <1>1, <1>3, <3>1 DEF Descending
    <2>2. CASE i <= m /\ ~(j <= m)
        <3>1. i \in 1..m /\ j - m \in 1..n /\ u[i] = s[i] /\ u[j] = t[j - m]
            BY <1>1, <1>2, <2>2
        <3>2. QED
            BY <1>1, <3>1
    <2>3. CASE ~(i <= m)
        <3>1. i - m \in 1..n /\ j - m \in 1..n /\ i - m < j - m
            BY <1>1, <1>3, <2>3
        <3>2. u[i] = t[i - m] /\ u[j] = t[j - m]
            BY <1>1, <1>2, <1>3, <2>3
        <3>3. t[i - m] > t[j - m]
            BY <1>1, <3>1 DEF Descending
        <3>4. QED
            BY <3>2, <3>3
    <2>4. QED
        BY <1>1, <1>3, <2>1, <2>2, <2>3
<1>4. Descending(u)
    BY <1>1, <1>3 DEF Descending
<1>5. QED
    BY <1>4 DEF u

-----------------------------------------------------------------------------
(* What holds of the readers whatever is done to the collection.           *)
ReaderTypes ==
    /\ query \in [Readers -> {"list", "search"}]
    /\ status \in [Readers -> {"idle", "paging", "done", "rejected"}]
    /\ anchor \in [Readers -> MessageIDs \cup {0}]
    /\ got \in [Readers -> Seq(MessageIDs)]
    /\ DOMAIN stable = Readers

(* The anchor is the last id shown: none above it remains to be shown, of  *)
(* those that answer the query throughout, and none below it has been.     *)
Pager(r) ==
    /\ stable[r] \subseteq Answers(r, coll)
    /\ status[r] = "idle" => anchor[r] = 0
    /\ anchor[r] = 0 => got[r] = <<>>
    /\ anchor[r] # 0 => \A i \in DOMAIN got[r] : anchor[r] <= got[r][i]
    /\ Descending(got[r])
    /\ status[r] \in {"paging", "rejected"} =>
          \A id \in stable[r] : Before(r, id) \/ id \in Range(got[r])
    /\ status[r] = "done" => stable[r] \subseteq Range(got[r])

PagingInv ==
    /\ IsFiniteSet(DOMAIN coll)
    /\ ReaderTypes
    /\ \A r \in Readers : Pager(r)

LEMMA AnswersAreMessages ==
    ASSUME NEW r \in Readers
    PROVE  Answers(r, coll) \subseteq DOMAIN coll
BY DEF Answers, Listed, Searched

LEMMA PagingInit == StoreInit => PagingInv
<1> SUFFICES ASSUME StoreInit PROVE PagingInv
    OBVIOUS
<1>1. DOMAIN coll = {}
    BY DEF StoreInit
<1>2. IsFiniteSet(DOMAIN coll)
    BY <1>1, FS_EmptySet
<1>3. ReaderTypes
    BY DEF StoreInit, ReaderTypes
<1>4. ASSUME NEW r \in Readers PROVE Pager(r)
    BY DEF StoreInit, Pager, Descending
<1>5. QED
    BY <1>2, <1>3, <1>4 DEF PagingInv

(* Writers leave the readers' state alone; what no longer answers a query  *)
(* is no longer counted on.                                                *)
LEMMA SettlePaging ==
    ASSUME PagingInv, Settle, UNCHANGED readerVars, IsFiniteSet(DOMAIN coll')
    PROVE  PagingInv'
<1>1. ASSUME NEW r \in Readers PROVE Pager(r)'
    <2>1. stable'[r] = stable[r] \cap Answers(r, coll') /\ UNCHANGED <<query, status, anchor, got>>
        BY DEF Settle, readerVars
    <2>2. stable'[r] \subseteq Answers(r, coll)'
        BY <2>1 DEF Answers
    <2>3. \A id : Before(r, id) => Before(r, id)'
        BY <2>1 DEF Before
    <2>4. QED
        BY <2>1, <2>2, <2>3 DEF PagingInv, Pager
<1>2. ReaderTypes'
    BY DEF PagingInv, ReaderTypes, Settle, readerVars
<1>3. QED
    BY <1>1, <1>2 DEF PagingInv

LEMMA WriteSettles ==
    ASSUME IsFiniteSet(DOMAIN coll), Write \/ \E id \in MessageIDs : Age(id)
    PROVE  Settle /\ UNCHANGED readerVars /\ IsFiniteSet(DOMAIN coll')
<1>1. ASSUME NEW u, NEW ch, NEW type, NEW text, Save(u, ch, type, text)
      PROVE  Settle /\ UNCHANGED readerVars /\ IsFiniteSet(DOMAIN coll')
    <2>1. PICK id : \E x : coll' = With(coll, id, x)
        BY <1>1 DEF Save
    <2>2. DOMAIN coll' = DOMAIN coll \cup {id}
        BY <2>1 DEF With
    <2>3. QED
        BY <1>1, <2>2, FS_AddElement DEF Save
<1>2. ASSUME NEW u, NEW ch, NEW id, NEW text, Update(u, ch, id, text)
      PROVE  Settle /\ UNCHANGED readerVars /\ IsFiniteSet(DOMAIN coll')
    BY <1>2 DEF Update
<1>3. ASSUME NEW ch, NEW id, Delete(ch, id)
      PROVE  Settle /\ UNCHANGED readerVars /\ IsFiniteSet(DOMAIN coll')
    <2>1. DOMAIN coll' \subseteq DOMAIN coll
        BY <1>3 DEF Delete
    <2>2. QED
        BY <1>3, <2>1, FS_Subset DEF Delete
<1>4. ASSUME NEW id, Age(id)
      PROVE  Settle /\ UNCHANGED readerVars /\ IsFiniteSet(DOMAIN coll')
    BY <1>4 DEF Age
<1>5. QED
    BY <1>1, <1>2, <1>3, <1>4 DEF Write

(* A step of one reader leaves the others where they were.                 *)
LEMMA OnePager ==
    ASSUME PagingInv, ReaderTypes', UNCHANGED coll, NEW r \in Readers, Pager(r)',
           \A o \in Readers \ {r} :
               /\ query'[o] = query[o] /\ status'[o] = status[o]
               /\ anchor'[o] = anchor[o] /\ got'[o] = got[o] /\ stable'[o] = stable[o]
    PROVE  PagingInv'
<1>1. ASSUME NEW o \in Readers \ {r} PROVE Pager(o)'
    <2>1. Answers(o, coll)' = Answers(o, coll)
        BY DEF Answers
    <2>2. \A id : Before(o, id) => Before(o, id)'
        BY DEF Before
    <2>3. QED
        BY <2>1, <2>2 DEF PagingInv, Pager
<1>2. QED
    BY <1>1 DEF PagingInv

LEMMA StartPaging ==
    ASSUME PagingInv, NEW r \in Readers, Start(r)
    PROVE  PagingInv'
<1>1. /\ status[r] = "idle" /\ status' = [status EXCEPT ![r] = "paging"]
      /\ UNCHANGED <<coll, anchor, got>>
    BY DEF Start
<1>2. PICK asked \in {"list", "search"} :
         /\ query' = [query EXCEPT ![r] = asked]
         /\ stable' = [stable EXCEPT ![r] = IF asked = "list" THEN Listed(ChatOf[r], coll)
                                            ELSE Searched(ChatOf[r], coll)]
    BY DEF Start
<1>3. ReaderTypes'
    BY <1>1, <1>2 DEF PagingInv, ReaderTypes
<1>4. query'[r] = asked /\ status'[r] = "paging" /\ anchor'[r] = 0
    BY <1>1, <1>2 DEF PagingInv, ReaderTypes, Pager
<1>5. stable'[r] = Answers(r, coll)'
    BY <1>1, <1>2, <1>4 DEF PagingInv, ReaderTypes, Answers
<1>6. Pager(r)'
    BY <1>1, <1>4, <1>5 DEF PagingInv, Pager, Before
<1>7. QED
    BY <1>1, <1>2, <1>3, <1>6, OnePager DEF PagingInv, ReaderTypes

LEMMA RejectPaging ==
    ASSUME PagingInv, NEW r \in Readers, RejectAnchor(r)
    PROVE  PagingInv'
<1>1. /\ status[r] = "paging" /\ status' = [status EXCEPT ![r] = "rejected"]
      /\ UNCHANGED <<coll, query, anchor, got, stable>>
    BY DEF RejectAnchor
<1>2. ReaderTypes' /\ status'[r] = "rejected"
    BY <1>1 DEF PagingInv, ReaderTypes
<1>3. Answers(r, coll)' = Answers(r, coll) /\ \A id : Before(r, id)' <=> Before(r, id)
    BY <1>1 DEF Answers, Before
<1>4. Pager(r)'
    BY <1>1, <1>2, <1>3 DEF PagingInv, Pager
<1>5. QED
    BY <1>1, <1>2, <1>4, OnePager DEF PagingInv, ReaderTypes

(* A page goes on from the anchor, and moves it to its last id.            *)
LEMMA TurnPage ==
    ASSUME PagingInv, DOMAIN coll \subseteq MessageIDs, NEW r \in Readers, Page(r)
    PROVE  PagingInv'
<1> DEFINE ids == {id \in Answers(r, coll) : Before(r, id)}
           found == LastOf(ids, Limit + 1)
           shown == Shown(found)
<1>1. ids \in SUBSET Nat /\ ids \subseteq MessageIDs \ {0} /\ IsFiniteSet(ids)
    <2>1. ids \subseteq DOMAIN coll
        BY AnswersAreMessages
    <2>2. QED
        BY <2>1, StoreAssumption, FS_Subset DEF PagingInv
<1>2. /\ shown \in Seq(ids) /\ Descending(shown)
      /\ HasMore(found) => /\ shown # <<>>
                           /\ \A id \in ids \ Range(shown) : id < Last(shown)
      /\ ~HasMore(found) => ids \subseteq Range(shown)
    <2> HIDE DEF ids
    <2>1. QED
        BY <1>1, PageIs
<1>3. Found(r) = found
    BY DEF Found
<1>4. /\ status[r] = "paging"
      /\ got' = [got EXCEPT ![r] = @ \o shown]
      /\ anchor' = [anchor EXCEPT ![r] = IF shown = <<>> THEN @ ELSE Last(shown)]
      /\ status' = [status EXCEPT ![r] = IF HasMore(found) THEN "paging" ELSE "done"]
      /\ UNCHANGED <<coll, query, stable>>
    BY <1>3 DEF Page
<1>5. \A id : id \in ids <=> id \in Answers(r, coll) /\ Before(r, id)
    OBVIOUS
<1> HIDE DEF ids, found, shown
<1>6. got[r] \in Seq(MessageIDs) /\ shown \in Seq(MessageIDs) /\ got[r] \o shown \in Seq(MessageIDs)
    <2>1. got[r] \in Seq(MessageIDs)
        BY DEF PagingInv, ReaderTypes
    <2>2. shown \in Seq(MessageIDs)
        <3>1. ids \subseteq MessageIDs
            BY <1>1
        <3>2. QED
            BY <1>2, <3>1, WiderSeq
    <2>3. QED
        BY <2>1, <2>2, ConcatProperties
<1>7. /\ got'[r] = got[r] \o shown
      /\ anchor'[r] = IF shown = <<>> THEN anchor[r] ELSE Last(shown)
      /\ status'[r] = IF HasMore(found) THEN "paging" ELSE "done"
    BY <1>4 DEF PagingInv, ReaderTypes
<1>8. Range(got'[r]) = Range(got[r]) \cup Range(shown)
    BY <1>6, <1>7, ConcatRange
<1>9. \A i \in DOMAIN shown : shown[i] \in ids /\ shown[i] \in Nat
    BY <1>1, <1>2, LenProperties
<1>10. shown # <<>> => Last(shown) \in ids /\ \A i \in DOMAIN shown : Last(shown) <= shown[i]
    <2> SUFFICES ASSUME shown # <<>>
                 PROVE  Last(shown) \in ids /\ \A i \in DOMAIN shown : Last(shown) <= shown[i]
        OBVIOUS
    <2> DEFINE n == Len(shown)
    <2>1. n \in Nat /\ n # 0 /\ DOMAIN shown = 1..n
        BY <1>2, LenProperties, EmptySeq
    <2>2. Last(shown) = shown[n]
        BY DEF Last
    <2> HIDE DEF n
    <2>3. n \in DOMAIN shown
        BY <2>1
    <2>4. ASSUME NEW i \in DOMAIN shown PROVE shown[n] <= shown[i]
        <3>1. i = n \/ i < n
            BY <2>1
        <3>2. shown[i] \in Nat /\ shown[n] \in Nat
            BY <1>9, <2>3
        <3>3. i < n => shown[i] > shown[n]
            BY <1>2, <2>3 DEF Descending
        <3>4. QED
            BY <3>1, <3>2, <3>3
    <2>5. QED
        BY <1>9, <2>2, <2>3, <2>4
<1>11. ASSUME NEW i \in DOMAIN got[r], NEW j \in DOMAIN shown PROVE got[r][i] > shown[j]
    <2>1. got[r] # <<>>
        <3>1. i \in 1..Len(got[r])
            BY <1>6, <1>11, LenProperties
        <3>2. QED
            BY <3>1
    <2>2. anchor[r] # 0 /\ anchor[r] <= got[r][i] /\ anchor[r] \in Nat
        BY <2>1, <1>11, StoreAssumption DEF PagingInv, Pager, ReaderTypes
    <2>3. shown[j] < anchor[r] /\ shown[j] \in Nat
        BY <1>5, <1>9, <2>2 DEF Before
    <2>4. got[r][i] \in Nat
        BY <1>6, <1>11, StoreAssumption, WiderSeq
    <2>5. QED
        BY <2>2, <2>3, <2>4
<1>12. Descending(got'[r])
    <2>1. got[r] \in Seq(Nat) /\ shown \in Seq(Nat)
        <3>1. MessageIDs \subseteq Nat
            BY StoreAssumption
        <3>2. QED
            BY <1>6, <3>1, WiderSeq
    <2>2. Descending(got[r])
        BY DEF PagingInv, Pager
    <2>3. QED
        BY <1>2, <1>7, <1>11, <2>1, <2>2, ConcatDescending
<1>13. ReaderTypes'
    <2>1. shown # <<>> => Last(shown) \in MessageIDs
        BY <1>1, <1>10
    <2>2. anchor' \in [Readers -> MessageIDs \cup {0}]
        BY <1>4, <2>1 DEF PagingInv, ReaderTypes
    <2>3. got' \in [Readers -> Seq(MessageIDs)]
        BY <1>4, <1>6 DEF PagingInv, ReaderTypes
    <2>4. QED
        BY <1>4, <2>2, <2>3 DEF PagingInv, ReaderTypes
<1>14. Pager(r)'
    <2>1. Answers(r, coll)' = Answers(r, coll) /\ stable'[r] = stable[r]
        BY <1>4 DEF Answers
    <2>2. CASE shown = <<>>
        <3>1. ~HasMore(found) /\ anchor'[r] = anchor[r] /\ status'[r] = "done"
            BY <1>2, <1>7, <2>2
        <3>2. got'[r] = got[r]
            BY <1>6, <1>7, <2>2, ConcatEmptySeq
        <3>3. ids \subseteq Range(got[r])
            BY <1>2, <1>8, <3>1, <3>2
        <3>4. stable[r] \subseteq Range(got[r])
            BY <1>4, <1>5, <3>3 DEF PagingInv, Pager
        <3>5. QED
            BY <2>1, <3>1, <3>2, <3>4 DEF PagingInv, Pager
    <2>3. CASE shown # <<>>
        <3>1. anchor'[r] = Last(shown) /\ Last(shown) \in MessageIDs /\ Last(shown) # 0
            BY <1>1, <1>7, <1>10, <2>3
        <3>2. ASSUME NEW x \in Range(got'[r]) PROVE anchor'[r] <= x
            <4>1. CASE x \in Range(shown)
                BY <1>10, <2>3, <3>1, <4>1 DEF Range
            <4>2. CASE x \in Range(got[r])
                <5>1. PICK i \in DOMAIN got[r] : x = got[r][i]
                    BY <4>2 DEF Range
                <5>2. Len(shown) \in DOMAIN shown
                    BY <1>2, <2>3, LenProperties, EmptySeq
                <5>3. x > Last(shown)
                    BY <1>11, <5>1, <5>2 DEF Last
                <5>4. x \in MessageIDs /\ Last(shown) \in MessageIDs
                    BY <1>6, <3>1, <5>1, LenProperties
                <5>5. x \in Nat /\ Last(shown) \in Nat
                    BY <5>4, StoreAssumption
                <5>6. Last(shown) <= x
                    BY <5>3, <5>5
                <5>7. QED
                    BY <3>1, <5>6
            <4>3. QED
                BY <1>8, <3>2, <4>1, <4>2
        <3>3. \A i \in DOMAIN got'[r] : anchor'[r] <= got'[r][i]
            BY <3>2 DEF Range
        <3>4. ASSUME NEW id \in stable[r] PROVE id \in Range(got'[r]) \/ (HasMore(found) /\ Before(r, id)')
            <4>1. id \in Answers(r, coll) /\ (Before(r, id) \/ id \in Range(got[r]))
                BY <1>4 DEF PagingInv, Pager
            <4>2. CASE id \in Range(got[r])
                BY <1>8, <4>2
            <4>3. CASE Before(r, id)
                <5>1. id \in ids
                    BY <1>5, <4>1, <4>3
                <5>2. id \in Range(shown) \/ (HasMore(found) /\ id < Last(shown))
                    BY <1>2, <5>1
                <5>3. QED
                    BY <1>8, <3>1, <5>2 DEF Before
            <4>4. QED
                BY <4>1, <4>2, <4>3
        <3>5. status'[r] = IF HasMore(found) THEN "paging" ELSE "done"
            BY <1>7
        <3>6. stable'[r] \subseteq Answers(r, coll)'
            BY <2>1 DEF PagingInv, Pager
        <3>7. QED
            BY <1>12, <2>1, <3>1, <3>3, <3>4, <3>5, <3>6 DEF Pager
    <2>4. QED
        BY <2>2, <2>3
<1>15. QED
    BY <1>4, <1>13, <1>14, OnePager DEF PagingInv, ReaderTypes

LEMMA PagingStep ==
    ASSUME CollInv, PagingInv, [StoreNext]_storeVars
    PROVE  PagingInv'
<1>1. CASE Write \/ \E id \in MessageIDs : Age(id)
    BY <1>1, WriteSettles, SettlePaging DEF PagingInv
<1>2. ASSUME NEW r \in Readers, Start(r) \/ Page(r) \/ RejectAnchor(r)
      PROVE  PagingInv'
    BY <1>2, StartPaging, TurnPage, RejectPaging DEF CollInv
<1>3. CASE UNCHANGED storeVars
    <2>1. UNCHANGED <<coll, query, status, anchor, got, stable>>
        BY <1>3 DEF storeVars
    <2>2. QED
        BY <2>1 DEF PagingInv, ReaderTypes, Pager, Answers, Before
<1>4. QED
    BY <1>1, <1>2, <1>3 DEF StoreNext

LEMMA StoreInv == StoreSpec => [](CollInv /\ PagingInv)
<1>1. StoreInit => CollInv /\ PagingInv
    BY InitPromised, PagingInit
<1>2. CollInv /\ PagingInv /\ [StoreNext]_storeVars => (CollInv /\ PagingInv)'
    BY StepPromised, PagingStep
<1>3. QED
    BY <1>1, <1>2, PTL DEF StoreSpec

(* The collection holds messages under ids drawn for them, and the readers *)
(* are shown ids of messages and go on from one.                           *)
THEOREM StoreTyped == StoreSpec => []StoreTypeOK
<1>1. CollInv /\ PagingInv => StoreTypeOK
    BY DEF CollInv, PagingInv, ReaderTypes, StoreTypeOK
<1>2. QED
    BY <1>1, StoreInv, PTL

(* However many messages are saved, edited and deleted between the requests*)
(* of a client, of whatever ids, and whatever the limit: what has answered *)
(* its query throughout has been shown when there is said to be no more.   *)
THEOREM PagesComplete == StoreSpec => []PagingIsComplete
<1>1. PagingInv => PagingIsComplete
    BY DEF PagingInv, Pager, PagingIsComplete
<1>2. QED
    BY <1>1, StoreInv, PTL

(* ... and nothing has been shown twice, or after a message of smaller id. *)
THEOREM PagesOrdered == StoreSpec => []PagingIsOrdered
<1>1. PagingInv => PagingIsOrdered
    BY DEF PagingInv, Pager, PagingIsOrdered
<1>2. QED
    BY <1>1, StoreInv, PTL
=============================================================================
