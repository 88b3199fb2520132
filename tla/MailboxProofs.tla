---------------------------- MODULE MailboxProofs ----------------------------
(***************************************************************************)
(* FlagHonest, for any texts and any number of requests and faults: as     *)
(* long as no answer to a STORE was late or lost, what is pending is what  *)
(* is answered followed by what is asked, so the first answer belongs to   *)
(* the first pending text.                                                 *)
(***************************************************************************)
EXTENDS Mailbox, TLAPS

Matched ==
    /\ pending \in Seq(Msg) /\ stores \in Seq(Msg) /\ answers \in Seq(Answers)
    /\ Len(pending) = Len(answers) + Len(stores)
    /\ \A i \in 1..Len(stores) : stores[i] = pending[Len(answers) + i]
    /\ \A i \in 1..Len(answers) : answers[i] = "STORED" => pending[i] \in held

Inv == slipped \/ (Matched /\ nonce \subseteq held)

LEMMA InvInit == Init => Inv
BY DEF Init, Inv, Matched

\* A STORE that reaches the mailbox is pending last and asked last.
LEMMA InvStoreText ==
    ASSUME NEW m \in Msg, Inv, StoreText(m)
    PROVE  Inv'
<1>1. SUFFICES ASSUME ~slipped, boxUp
               PROVE  (Matched /\ nonce \subseteq held)'
      BY DEF StoreText, Inv
<1>2. /\ pending' = Append(pending, m) /\ stores' = Append(stores, m)
      /\ answers' = answers /\ held' = held /\ nonce' = nonce
      BY <1>1 DEF StoreText
<1>3. Matched /\ nonce \subseteq held
      BY <1>1 DEF Inv
<1>4. pending' \in Seq(Msg) /\ stores' \in Seq(Msg) /\ answers' \in Seq(Answers)
      BY <1>2, <1>3 DEF Matched
<1>t. pending \in Seq(Msg) /\ stores \in Seq(Msg) /\ answers \in Seq(Answers)
      BY <1>3 DEF Matched
<1>c. /\ Len(pending') = Len(pending) + 1 /\ Len(pending) \in Nat
      /\ \A i \in 1..Len(pending) : pending'[i] = pending[i]
      /\ pending'[Len(pending) + 1] = m
      BY <1>2, <1>t
<1>d. /\ Len(stores') = Len(stores) + 1 /\ Len(stores) \in Nat
      /\ \A i \in 1..Len(stores) : stores'[i] = stores[i]
      /\ stores'[Len(stores) + 1] = m
      BY <1>2, <1>t
<1>b. Len(answers) \in Nat
      BY <1>t
<1>a. Len(pending) = Len(answers) + Len(stores)
      BY <1>3 DEF Matched
<1>5. Len(pending') = Len(answers') + Len(stores')
      BY <1>2, <1>b, <1>c, <1>d, <1>a
<1>6. \A i \in 1..Len(stores') : stores'[i] = pending'[Len(answers') + i]
  <2> TAKE i \in 1..Len(stores')
  <2>1. CASE i \in 1..Len(stores)
    <3>1. stores[i] = pending[Len(answers) + i]
          BY <1>3, <2>1 DEF Matched
    <3>2. Len(answers) + i \in 1..Len(pending)
          BY <1>b, <1>c, <1>d, <1>a, <2>1
    <3>3. QED
          BY <1>b, <1>c, <1>d, <1>2, <2>1, <3>1, <3>2
  <2>2. CASE i = Len(stores) + 1
    <3>1. Len(answers') + i = Len(pending) + 1
          BY <1>b, <1>c, <1>d, <1>a, <1>2, <2>2
    <3>2. QED
          BY <1>b, <1>c, <1>d, <2>2, <3>1
  <2>3. QED
        BY <1>b, <1>c, <1>d, <2>1, <2>2
<1>7. \A i \in 1..Len(answers') : answers'[i] = "STORED" => pending'[i] \in held'
      BY <1>2, <1>3 DEF Matched
<1>8. QED
      BY <1>2, <1>3, <1>4, <1>5, <1>6, <1>7 DEF Matched

\* The answer to the first request becomes the last answer.
LEMMA InvBoxStores ==
    ASSUME Inv, BoxStores
    PROVE  Inv'
<1>1. SUFFICES ASSUME ~slipped, senderUp
               PROVE  (Matched /\ nonce \subseteq held)'
      BY DEF BoxStores, Inv
<1>2. PICK a \in Answers :
         /\ held' = IF a = "STORED" THEN held \cup {Head(stores)} ELSE held
         /\ answers' = Append(answers, a)
      BY <1>1 DEF BoxStores
<1>3. stores # <<>> /\ stores' = Tail(stores) /\ pending' = pending /\ nonce' = nonce
      BY DEF BoxStores, sender
<1>4. Matched /\ nonce \subseteq held
      BY <1>1 DEF Inv
<1>5. /\ Len(stores) \in Nat \ {0} /\ Len(stores') = Len(stores) - 1
      /\ Len(answers') = Len(answers) + 1 /\ Len(answers) \in Nat
      /\ \A i \in 1..Len(stores') : stores'[i] = stores[i + 1]
      BY <1>2, <1>3, <1>4 DEF Matched
<1>6. Head(stores) = pending[Len(answers) + 1]
      BY <1>3, <1>4, <1>5 DEF Matched
<1>7. pending' \in Seq(Msg) /\ stores' \in Seq(Msg) /\ answers' \in Seq(Answers)
      BY <1>2, <1>3, <1>4 DEF Matched
<1>8. Len(pending') = Len(answers') + Len(stores')
      BY <1>3, <1>4, <1>5 DEF Matched
<1>9. \A i \in 1..Len(stores') : stores'[i] = pending'[Len(answers') + i]
  <2> TAKE i \in 1..Len(stores')
  <2>1. i + 1 \in 1..Len(stores)
        BY <1>5
  <2>2. stores[i + 1] = pending[Len(answers) + (i + 1)]
        BY <1>4, <2>1 DEF Matched
  <2>3. Len(answers) + (i + 1) = Len(answers') + i
        BY <1>5
  <2>4. QED
        BY <1>3, <1>5, <2>2, <2>3
<1>10. \A i \in 1..Len(answers') : answers'[i] = "STORED" => pending'[i] \in held'
  <2> TAKE i \in 1..Len(answers')
  <2>1. CASE i \in 1..Len(answers)
    <3>1. answers'[i] = answers[i]
          BY <1>2, <1>4, <2>1 DEF Matched
    <3>2. QED
          BY <1>2, <1>3, <1>4, <2>1, <3>1 DEF Matched
  <2>2. CASE i = Len(answers) + 1
    <3>1. answers'[i] = a
          BY <1>2, <1>4, <2>2 DEF Matched
    <3>2. QED
          BY <1>2, <1>3, <1>6, <2>2, <3>1
  <2>3. QED
        BY <1>5, <2>1, <2>2
<1>11. nonce' \subseteq held'
       BY <1>2, <1>3, <1>4
<1>12. QED
       BY <1>7, <1>8, <1>9, <1>10, <1>11 DEF Matched

\* The first answer settles the first pending text, which it is about.
LEMMA InvOnStoreAnswer ==
    ASSUME Inv, OnStoreAnswer
    PROVE  Inv'
<1>1. SUFFICES ASSUME ~slipped
               PROVE  (Matched /\ nonce \subseteq held)'
      BY DEF OnStoreAnswer, Inv
<1>2. Matched /\ nonce \subseteq held
      BY <1>1 DEF Inv
<1>3. /\ answers # <<>> /\ answers' = Tail(answers)
      /\ stores' = stores /\ held' = held
      BY DEF OnStoreAnswer, history
<1>4. /\ Len(answers) \in Nat \ {0} /\ Len(answers') = Len(answers) - 1
      /\ Len(pending) \in Nat \ {0} /\ pending # <<>> /\ Len(stores) \in Nat
      /\ \A i \in 1..Len(answers') : answers'[i] = answers[i + 1]
      BY <1>2, <1>3 DEF Matched
<1>5. /\ pending' = Tail(pending)
      /\ nonce' = IF Head(answers) = "STORED" /\ Head(pending) \in outbox
                    THEN nonce \cup {Head(pending)} ELSE nonce
      BY <1>4 DEF OnStoreAnswer, Settled
<1>6. /\ Len(pending') = Len(pending) - 1
      /\ \A i \in 1..Len(pending') : pending'[i] = pending[i + 1]
      BY <1>2, <1>4, <1>5 DEF Matched
<1>7. pending' \in Seq(Msg) /\ stores' \in Seq(Msg) /\ answers' \in Seq(Answers)
      BY <1>2, <1>3, <1>4, <1>5 DEF Matched
<1>8. Len(pending') = Len(answers') + Len(stores')
      BY <1>2, <1>3, <1>4, <1>6 DEF Matched
<1>9. \A i \in 1..Len(stores') : stores'[i] = pending'[Len(answers') + i]
  <2> TAKE i \in 1..Len(stores')
  <2>1. stores[i] = pending[Len(answers) + i]
        BY <1>2, <1>3 DEF Matched
  <2>2. Len(answers') + i \in 1..Len(pending') /\ (Len(answers') + i) + 1 = Len(answers) + i
        BY <1>3, <1>4, <1>8
  <2>3. QED
        BY <1>3, <1>6, <2>1, <2>2
<1>10. \A i \in 1..Len(answers') : answers'[i] = "STORED" => pending'[i] \in held'
  <2> TAKE i \in 1..Len(answers')
  <2>1. i + 1 \in 1..Len(answers) /\ i \in 1..Len(pending')
        BY <1>3, <1>4, <1>8
  <2>2. QED
        BY <1>2, <1>3, <1>4, <1>6, <2>1 DEF Matched
<1>11. nonce' \subseteq held'
  <2>1. Head(answers) = answers[1] /\ Head(pending) = pending[1]
        BY <1>2, <1>4 DEF Matched
  <2>2. Head(answers) = "STORED" => Head(pending) \in held
        BY <1>2, <1>4, <2>1 DEF Matched
  <2>3. QED
        BY <1>2, <1>3, <1>5, <2>2
<1>12. QED
       BY <1>7, <1>8, <1>9, <1>10, <1>11 DEF Matched

LEMMA InvNext == Inv /\ [Next]_vars => Inv'
<1> SUFFICES ASSUME Inv, [Next]_vars
             PROVE  Inv'
    OBVIOUS
<1>1. ASSUME NEW m \in Msg, StoreText(m) PROVE Inv'
      BY <1>1, InvStoreText
<1>2. CASE BoxStores
      BY <1>2, InvBoxStores
<1>3. CASE OnStoreAnswer
      BY <1>3, InvOnStoreAnswer
<1>4. ASSUME NEW m \in Msg, StoreTimeout(m) PROVE Inv'
      BY <1>4 DEF StoreTimeout, Inv
<1>5. ASSUME NEW m \in Msg, Acknowledged(m) PROVE Inv'
      BY <1>5 DEF Acknowledged, Inv, Matched, storing, history
<1>6. CASE SenderDisconnects
      BY <1>6 DEF SenderDisconnects, Inv, Matched, history
<1>7. CASE BoxLeaves
      BY <1>7 DEF BoxLeaves, Inv, Matched, sender, history
<1>8. CASE BoxFetches \/ OnReply \/ SenderConnects \/ RecipientConnects \/ BoxReturns
           \/ Wake \/ RecipientDisconnects \/ RecipientReconnects
      BY <1>8 DEF BoxFetches, OnReply, SenderConnects, RecipientConnects, BoxReturns, Wake,
                  RecipientDisconnects, RecipientReconnects, Inv, Matched, sender, storing,
                  history
<1>9. CASE UNCHANGED vars
      BY <1>9 DEF vars, Inv, Matched, sender, storing, history
<1>10. QED
       BY <1>1, <1>2, <1>3, <1>4, <1>5, <1>6, <1>7, <1>8, <1>9 DEF Next, Progress

(* A text is noted as lying in the mailbox (storage.js:14, app.js:1955)    *)
(* only if the mailbox took it, unless an answer to a STORE was late or    *)
(* lost.                                                                   *)
THEOREM MailboxFlagHonest == Spec => []FlagHonest
<1>1. Inv => FlagHonest
      BY DEF Inv, FlagHonest
<1>2. QED
      BY <1>1, InvInit, InvNext, PTL DEF Spec

-----------------------------------------------------------------------------
(* Types in full.  A text is stored once, so it is pending once, asked for *)
(* once, and in the mailbox only when its STORE has been answered.         *)

Types ==
    /\ outbox \in SUBSET Msg /\ nonce \in SUBSET Msg /\ senderUp \in BOOLEAN
    /\ recipientUp \in BOOLEAN /\ fetching \in BOOLEAN /\ received \in SUBSET Msg
    /\ boxUp \in BOOLEAN
    /\ pending \in Seq(Msg) /\ box \in Seq(Msg)
    /\ stores \in Seq(Msg) /\ answers \in Seq(Answers)
    /\ asks \in 0..MaxAsks
    /\ replies \in Seq(Delivery \cup {Empty})
    /\ asked \in SUBSET Msg /\ held \in SUBSET Msg /\ owed \in SUBSET Msg
    /\ slipped \in BOOLEAN
    /\ faults \in 0..MaxFaults

\* Entries of a sequence of texts, each of them asked for, differ.
Distinct(sq, known) ==
    /\ \A i \in 1..Len(sq) : sq[i] \in known
    /\ \A i, j \in 1..Len(sq) : sq[i] = sq[j] => i = j

Once ==
    /\ Distinct(pending, asked) /\ Distinct(stores, asked) /\ Distinct(box, asked)
    /\ \A i \in 1..Len(stores), j \in 1..Len(box) : stores[i] # box[j]

LEMMA DistinctAppend ==
    ASSUME NEW sq \in Seq(Msg), NEW known, Distinct(sq, known), NEW m \in Msg,
           \A i \in 1..Len(sq) : sq[i] # m
    PROVE  Distinct(Append(sq, m), known \cup {m})
<1> DEFINE t == Append(sq, m)
<1>1. /\ Len(t) = Len(sq) + 1 /\ Len(sq) \in Nat /\ t[Len(sq) + 1] = m
      /\ \A i \in 1..Len(sq) : t[i] = sq[i]
  OBVIOUS
<1> HIDE DEF t
<1>2. \A i \in 1..Len(t) : i \in 1..Len(sq) \/ i = Len(sq) + 1
  BY <1>1
<1>3. Distinct(t, known \cup {m})
  BY <1>1, <1>2 DEF Distinct
<1>. QED BY <1>3 DEF t

LEMMA DistinctTail ==
    ASSUME NEW sq \in Seq(Msg), NEW known, Distinct(sq, known), sq # <<>>
    PROVE  /\ Distinct(Tail(sq), known)
           /\ \A i \in 1..Len(Tail(sq)) : \E j \in 1..Len(sq) : Tail(sq)[i] = sq[j] /\ j # 1
<1>1. /\ Len(Tail(sq)) = Len(sq) - 1 /\ Len(sq) \in Nat
      /\ \A i \in 1..Len(Tail(sq)) : Tail(sq)[i] = sq[i + 1] /\ i + 1 \in 1..Len(sq)
  OBVIOUS
<1>2. Distinct(Tail(sq), known)
  BY <1>1 DEF Distinct
<1>3. ASSUME NEW i \in 1..Len(Tail(sq))
      PROVE  \E j \in 1..Len(sq) : Tail(sq)[i] = sq[j] /\ j # 1
  BY <1>1
<1>. QED BY <1>2, <1>3

LEMMA DistinctRemoveAt ==
    ASSUME NEW sq \in Seq(Msg), NEW known, Distinct(sq, known), NEW k \in 1..Len(sq)
    PROVE  RemoveAt(sq, k) \in Seq(Msg) /\ Distinct(RemoveAt(sq, k), known)
<1> DEFINE a == SubSeq(sq, 1, k - 1)  b == SubSeq(sq, k + 1, Len(sq))  t == a \o b
           from == [i \in 1..(Len(sq) - 1) |-> IF i < k THEN i ELSE i + 1]
<1>1. /\ a \in Seq(Msg) /\ Len(a) = k - 1 /\ \A i \in 1..Len(a) : a[i] = sq[i]
      /\ b \in Seq(Msg) /\ Len(b) = Len(sq) - k /\ \A i \in 1..Len(b) : b[i] = sq[k + i]
  OBVIOUS
<1> HIDE DEF a, b
<1>0. Len(sq) \in Nat /\ k \in Nat /\ 1 <= k /\ k <= Len(sq)
  OBVIOUS
<1>2. t \in Seq(Msg) /\ Len(t) = Len(sq) - 1
  <2>1. \A x, y \in Seq(Msg) : x \o y \in Seq(Msg) /\ Len(x \o y) = Len(x) + Len(y)
    OBVIOUS
  <2>2. t \in Seq(Msg) /\ Len(t) = Len(a) + Len(b)
    BY <1>1, <2>1
  <2>. QED BY <1>0, <1>1, <2>2
<1>3. ASSUME NEW i \in 1..Len(t) PROVE t[i] = sq[from[i]] /\ from[i] \in 1..Len(sq)
  <2>1. CASE i < k
    <3>1. t[i] = a[i]
      BY <1>1, <2>1
    <3>. QED BY <1>1, <1>2, <2>1, <3>1
  <2>2. CASE i >= k
    <3> DEFINE j == i - (k - 1)
    <3>1. j \in 1..Len(b) /\ t[i] = b[j] /\ k + j = i + 1
      BY <1>1, <1>2, <2>2
    <3> HIDE DEF j
    <3>2. b[j] = sq[k + j]
      BY <1>1, <3>1
    <3>. QED BY <1>1, <1>2, <2>2, <3>1, <3>2
  <2>. QED BY <1>2, <2>1, <2>2
<1>4. \A i, j \in 1..Len(t) : from[i] = from[j] => i = j
  BY <1>2
<1> HIDE DEF t, from
<1>5. Distinct(t, known)
  BY <1>3, <1>4 DEF Distinct
<1>. QED BY <1>2, <1>5 DEF RemoveAt, t, a, b

LEMMA TypesStep == Types /\ [Next]_vars => Types'
<1> SUFFICES ASSUME Types, [Next]_vars PROVE Types'
  OBVIOUS
<1> USE MailboxAssumption DEF Types, sender, recipient, storing, asking, history
<1>1. ASSUME NEW m \in Msg, StoreText(m) PROVE Types'
  BY <1>1 DEF StoreText
<1>2. CASE BoxStores
  <2>1. PICK a \in Answers :
          /\ box' = IF a = "STORED" THEN Append(box, Head(stores)) ELSE box
          /\ held' = IF a = "STORED" THEN held \cup {Head(stores)} ELSE held
          /\ answers' = IF senderUp THEN Append(answers, a) ELSE answers
    BY <1>2 DEF BoxStores
  <2>2. Head(stores) \in Msg /\ Tail(stores) \in Seq(Msg)
    BY <1>2 DEF BoxStores
  <2>3. box' \in Seq(Msg) /\ held' \in SUBSET Msg /\ answers' \in Seq(Answers)
    BY <2>1, <2>2
  <2>4. slipped' \in BOOLEAN
    BY <1>2 DEF BoxStores
  <2>. QED BY <1>2, <2>2, <2>3, <2>4 DEF BoxStores
<1>3. CASE OnStoreAnswer
  <2>1. pending' \in Seq(Msg) /\ nonce' \in SUBSET Msg
    <3>1. CASE pending = <<>>
      BY <1>3, <3>1 DEF OnStoreAnswer
    <3>2. CASE pending # <<>>
      <4>1. Tail(pending) \in Seq(Msg) /\ Head(pending) \in Msg
        BY <3>2
      <4>2. Settled(Head(answers))
        BY <1>3, <3>2 DEF OnStoreAnswer
      <4>. QED BY <4>1, <4>2 DEF Settled
    <3>. QED BY <3>1, <3>2
  <2>2. answers' \in Seq(Answers)
    BY <1>3 DEF OnStoreAnswer
  <2>. QED BY <1>3, <2>1, <2>2 DEF OnStoreAnswer
<1>4. ASSUME NEW m \in Msg, StoreTimeout(m) PROVE Types'
  <2>1. pending' \in Seq(Msg)
    BY <1>4 DEF StoreTimeout, RemoveAt
  <2>. QED BY <1>4, <2>1 DEF StoreTimeout
<1>5. ASSUME NEW m \in Msg, Acknowledged(m) PROVE Types'
  BY <1>5 DEF Acknowledged
<1>6. CASE BoxFetches
  <2>1. box' \in Seq(Msg)
    <3>1. box # <<>> => Tail(box) \in Seq(Msg)
      OBVIOUS
    <3>. QED BY <1>6, <3>1 DEF BoxFetches
  <2>2. replies' \in Seq(Delivery \cup {Empty})
    <3>1. CASE replies' = Append(replies, Empty)
      BY <3>1
    <3>2. CASE box # <<>> /\ replies' = Append(replies, [op |-> "DELIVERY", msg |-> Head(box)])
      <4>1. [op |-> "DELIVERY", msg |-> Head(box)] \in Delivery
        BY <3>2 DEF Delivery
      <4>. QED BY <3>2, <4>1
    <3>. QED BY <1>6, <3>1, <3>2 DEF BoxFetches
  <2>. QED BY <1>6, <2>1, <2>2 DEF BoxFetches
<1>7. Ask => asks' \in 0..MaxAsks
  BY DEF Ask
<1>8. InBox \in SUBSET Msg
  BY DEF InBox, Range
<1>9. CASE OnReply
  <2>1. replies' \in Seq(Delivery \cup {Empty}) /\ Head(replies) \in Delivery \cup {Empty}
    BY <1>9 DEF OnReply
  <2>2. CASE Head(replies) = Empty
    BY <1>9, <2>1, <2>2 DEF OnReply
  <2>3. CASE Head(replies) # Empty
    <3>1. Head(replies).msg \in Msg
      BY <2>1, <2>3 DEF Delivery
    <3>. QED BY <1>7, <1>9, <2>1, <2>3, <3>1 DEF OnReply, OnDelivery
  <2>. QED BY <2>2, <2>3
<1>10. CASE Wake
  BY <1>7, <1>8, <1>10 DEF Wake, StartLoop
<1>11. CASE SenderConnects \/ BoxReturns
  BY <1>11 DEF SenderConnects, BoxReturns
<1>12. Fault => faults' \in 0..MaxFaults
  BY DEF Fault
<1>13. CASE SenderDisconnects
  <2>1. stores' \in Seq(Msg) /\ answers' \in Seq(Answers)
    <3>1. <<>> \in Seq(Msg) /\ <<>> \in Seq(Answers)
      OBVIOUS
    <3>2. stores' \in {stores, <<>>} /\ answers' = <<>>
      BY <1>13 DEF SenderDisconnects
    <3>. QED BY <3>1, <3>2
  <2>2. slipped' \in BOOLEAN
    BY <1>13 DEF SenderDisconnects
  <2>. QED BY <1>12, <1>13, <2>1, <2>2 DEF SenderDisconnects
<1>14. CASE RecipientConnects
  BY <1>8, <1>14 DEF RecipientConnects, Established
<1>15. CASE RecipientDisconnects
  <2>1. asks' \in 0..MaxAsks
    BY <1>15 DEF RecipientDisconnects
  <2>2. replies' \in Seq(Delivery \cup {Empty})
    <3>1. <<>> \in Seq(Delivery \cup {Empty})
      OBVIOUS
    <3>. QED BY <1>15, <3>1 DEF RecipientDisconnects
  <2>. QED BY <1>12, <1>15, <2>1, <2>2 DEF RecipientDisconnects
<1>16. CASE RecipientReconnects
  BY <1>8, <1>12, <1>16 DEF RecipientReconnects, Established
<1>17. CASE BoxLeaves
  <2>1. slipped' \in BOOLEAN
    BY <1>17 DEF BoxLeaves
  <2>2. stores' \in Seq(Msg) /\ asks' \in 0..MaxAsks
    <3>1. <<>> \in Seq(Msg)
      OBVIOUS
    <3>. QED BY <1>17, <3>1 DEF BoxLeaves
  <2>. QED BY <1>12, <1>17, <2>1, <2>2 DEF BoxLeaves
<1>18. CASE UNCHANGED vars
  BY <1>18 DEF vars
<1>. QED
  BY <1>1, <1>2, <1>3, <1>4, <1>5, <1>6, <1>9, <1>10, <1>11, <1>13, <1>14, <1>15, <1>16,
     <1>17, <1>18 DEF Next, Progress

\* What changes none of the three lists.
LEMMA OnceSame ==
    ASSUME Once, UNCHANGED <<pending, stores, box, asked>>
    PROVE  Once'
BY DEF Once, Distinct

LEMMA OnceStep == Types /\ Once /\ [Next]_vars => Once'
<1> SUFFICES ASSUME Types, Once, [Next]_vars PROVE Once'
  OBVIOUS
<1> USE DEF sender, recipient, storing, asking, history
<1>0. pending \in Seq(Msg) /\ stores \in Seq(Msg) /\ box \in Seq(Msg)
  BY DEF Types
<1>a. \A known, more : \A sq \in Seq(Msg) : Distinct(sq, known) => Distinct(sq, known \cup more)
  BY DEF Distinct
<1>b. \A known : Distinct(<<>>, known)
  BY DEF Distinct
<1>1. ASSUME NEW m \in Msg, StoreText(m) PROVE Once'
  <2>1. /\ pending' = Append(pending, m) /\ asked' = asked \cup {m} /\ m \notin asked
        /\ stores' \in {stores, Append(stores, m)} /\ box' = box
    BY <1>1 DEF StoreText
  <2>2. /\ \A i \in 1..Len(pending) : pending[i] # m
        /\ \A i \in 1..Len(stores) : stores[i] # m
        /\ \A i \in 1..Len(box) : box[i] # m
    BY <2>1 DEF Once, Distinct
  <2>3. Distinct(pending', asked')
    BY <1>0, <2>1, <2>2, DistinctAppend DEF Once
  <2>4. Distinct(stores', asked')
    BY <1>0, <1>a, <2>1, <2>2, DistinctAppend DEF Once
  <2>5. Distinct(box', asked')
    BY <1>0, <1>a, <2>1 DEF Once
  <2>6. \A i \in 1..Len(stores'), j \in 1..Len(box) : stores'[i] # box[j]
    <3>1. \A i \in 1..Len(Append(stores, m)) :
             \/ i \in 1..Len(stores) /\ Append(stores, m)[i] = stores[i]
             \/ Append(stores, m)[i] = m
      BY <1>0
    <3>. QED BY <2>1, <2>2, <3>1 DEF Once
  <2>7. Distinct(pending, asked)' /\ Distinct(stores, asked)' /\ Distinct(box, asked)'
    BY <2>3, <2>4, <2>5 DEF Distinct
  <2>. QED BY <2>1, <2>6, <2>7 DEF Once
<1>2. CASE BoxStores
  <2>1. /\ stores # <<>> /\ stores' = Tail(stores)
        /\ box' \in {box, Append(box, Head(stores))} /\ UNCHANGED <<pending, asked>>
    BY <1>2 DEF BoxStores
  <2>2. Head(stores) = stores[1] /\ 1 \in 1..Len(stores) /\ stores[1] \in Msg
    BY <1>0, <2>1
  <2>3. Distinct(stores', asked)
    BY <1>0, <2>1, DistinctTail DEF Once
  <2>4. \A i \in 1..Len(stores') : \E k \in 1..Len(stores) : stores'[i] = stores[k] /\ k # 1
    BY <1>0, <2>1, DistinctTail DEF Once
  <2>5. stores[1] \in asked /\ \A i \in 1..Len(box) : box[i] # stores[1]
    BY <2>2 DEF Once, Distinct
  <2>6. Distinct(box', asked)
    <3>1. Distinct(Append(box, stores[1]), asked \cup {stores[1]})
      BY <1>0, <2>2, <2>5, DistinctAppend DEF Once
    <3>2. asked \cup {stores[1]} = asked
      BY <2>5
    <3>3. Distinct(Append(box, stores[1]), asked)
      BY <3>1, <3>2
    <3>. QED BY <2>1, <2>2, <3>3 DEF Once
  <2>7. \A i \in 1..Len(stores'), j \in 1..Len(box') : stores'[i] # box'[j]
    <3>1. \A j \in 1..Len(Append(box, stores[1])) :
             \/ j \in 1..Len(box) /\ Append(box, stores[1])[j] = box[j]
             \/ Append(box, stores[1])[j] = stores[1]
      BY <1>0
    <3>2. \A i \in 1..Len(stores') : /\ stores'[i] # stores[1]
                                    /\ \A j \in 1..Len(box) : stores'[i] # box[j]
      BY <2>2, <2>4 DEF Once, Distinct
    <3>. QED BY <2>1, <2>2, <3>1, <3>2
  <2>8. Distinct(pending, asked)' /\ Distinct(stores, asked)' /\ Distinct(box, asked)'
    BY <2>1, <2>3, <2>6 DEF Once, Distinct
  <2>. QED BY <2>7, <2>8 DEF Once
<1>3. CASE OnStoreAnswer
  <2>1. pending' \in {pending, Tail(pending)} /\ (pending # <<>> \/ pending' = pending)
        /\ UNCHANGED <<stores, box, asked>>
    BY <1>3 DEF OnStoreAnswer, Settled
  <2>2. Distinct(pending', asked)
    BY <1>0, <2>1, DistinctTail DEF Once
  <2>. QED BY <2>1, <2>2 DEF Once, Distinct
<1>4. ASSUME NEW m \in Msg, StoreTimeout(m) PROVE Once'
  <2>1. PICK k \in 1..Len(pending) : pending' = RemoveAt(pending, k)
    BY <1>4 DEF StoreTimeout
  <2>2. Distinct(pending', asked)
    BY <1>0, <2>1, DistinctRemoveAt DEF Once
  <2>. QED BY <1>4, <2>2 DEF StoreTimeout, Once, Distinct
<1>5. ASSUME NEW m \in Msg, Acknowledged(m) PROVE Once'
  BY <1>5, OnceSame DEF Acknowledged
<1>6. CASE BoxFetches
  <2>1. /\ box' \in {box, Tail(box)} /\ (box # <<>> \/ box' = box)
        /\ UNCHANGED <<pending, stores, asked>>
    BY <1>6 DEF BoxFetches
  <2>2. Distinct(box', asked) /\ \A i \in 1..Len(box') : \E j \in 1..Len(box) : box'[i] = box[j]
    <3>1. CASE box' = box
      BY <3>1 DEF Once
    <3>2. CASE box' = Tail(box) /\ box # <<>>
      BY <1>0, <3>2, DistinctTail DEF Once
    <3>. QED BY <2>1, <3>1, <3>2
  <2>3. \A i \in 1..Len(stores), j \in 1..Len(box') : stores[i] # box'[j]
    BY <2>2 DEF Once
  <2>. QED BY <2>1, <2>2, <2>3 DEF Once, Distinct
<1>7. CASE SenderDisconnects \/ BoxLeaves
  <2>1. stores' \in {stores, <<>>} /\ UNCHANGED <<pending, box, asked>>
    BY <1>7 DEF SenderDisconnects, BoxLeaves
  <2>. QED BY <2>1, OnceSame DEF Once, Distinct
<1>8. CASE OnReply \/ SenderConnects \/ RecipientConnects \/ BoxReturns \/ Wake
           \/ RecipientDisconnects \/ RecipientReconnects
  BY <1>8, OnceSame DEF OnReply, SenderConnects, RecipientConnects, BoxReturns, Wake,
                        RecipientDisconnects, RecipientReconnects
<1>9. CASE UNCHANGED vars
  BY <1>9, OnceSame DEF vars
<1>. QED BY <1>1, <1>2, <1>3, <1>4, <1>5, <1>6, <1>7, <1>8, <1>9 DEF Next, Progress

(* Every list and flag keeps its range, no text is pending twice, and the  *)
(* mailbox never holds two copies of one.                                  *)
THEOREM MailboxTyped == Spec => []TypeOK
<1>1. Init => Types /\ Once
  <2> SUFFICES ASSUME Init PROVE Types /\ Once
    OBVIOUS
  <2>1. Types
    <3>1. /\ senderUp \in BOOLEAN /\ recipientUp \in BOOLEAN /\ fetching \in BOOLEAN
          /\ boxUp \in BOOLEAN /\ slipped \in BOOLEAN
      BY DEF Init
    <3>2. /\ pending \in Seq(Msg) /\ box \in Seq(Msg) /\ stores \in Seq(Msg)
          /\ answers \in Seq(Answers) /\ replies \in Seq(Delivery \cup {Empty})
      BY DEF Init
    <3>3. /\ outbox \in SUBSET Msg /\ nonce \in SUBSET Msg /\ received \in SUBSET Msg
          /\ asked \in SUBSET Msg /\ held \in SUBSET Msg /\ owed \in SUBSET Msg
      BY DEF Init
    <3>4. asks \in 0..MaxAsks /\ faults \in 0..MaxFaults
      BY MailboxAssumption DEF Init
    <3>. QED BY <3>1, <3>2, <3>3, <3>4 DEF Types
  <2>2. Once
    BY DEF Init, Once, Distinct
  <2>. QED BY <2>1, <2>2
<1>2. Types /\ Once /\ [Next]_vars => (Types /\ Once)'
  BY TypesStep, OnceStep
<1>3. Types /\ Once => TypeOK
  <2> SUFFICES ASSUME Types, Once PROVE TypeOK
    OBVIOUS
  <2>1. \A sq \in Seq(Msg) : Distinct(sq, asked) => IsInjective(sq)
    BY DEF Distinct, IsInjective
  <2>2. IsInjective(pending) /\ IsInjective(box)
    BY <2>1 DEF Types, Once
  <2>. QED BY <2>2 DEF Types, TypeOK
<1>. QED BY <1>1, <1>2, <1>3, PTL DEF Spec
=============================================================================
