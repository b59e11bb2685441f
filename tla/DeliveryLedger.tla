---------------------------- MODULE DeliveryLedger ----------------------------
(***************************************************************************)
(* What publication promises about the texts in the channels, without     *)
(* rows, locks, windows or retries.  A pair is a post and a channel.  A    *)
(* worker that began a pair owes it a text; once the text is sent it waits *)
(* to be told so; then the pair is recorded as served.  Nobody begins a    *)
(* pair recorded as served.                                                *)
(***************************************************************************)
EXTENDS Integers, FiniteSets, FiniteSetTheorems, TLAPS

CONSTANTS Pairs, Workers

VARIABLES
  texts,     \* how many copies of the pair's text the channel shows
  lost,      \* copies whose delivery was never recorded
  overlaps,  \* how often a pair was begun while somebody was at it
  served,    \* the pairs recorded as delivered
  owing,     \* the workers that have yet to send the pair's text
  told       \* the workers whose text was sent and that do not know yet

vars == <<texts, lost, overlaps, served, owing, told>>

At(pr) == owing[pr] \cup told[pr]

Begin(p, pr) ==
  /\ pr \notin served
  /\ \A x \in Pairs : p \notin At(x)
  /\ owing' = [owing EXCEPT ![pr] = @ \cup {p}]
  /\ overlaps' = IF At(pr) = {} THEN overlaps ELSE [overlaps EXCEPT ![pr] = @ + 1]
  /\ UNCHANGED <<texts, lost, served, told>>

Send(p, pr) ==
  /\ p \in owing[pr]
  /\ owing' = [owing EXCEPT ![pr] = @ \ {p}]
  /\ told' = [told EXCEPT ![pr] = @ \cup {p}]
  /\ texts' = [texts EXCEPT ![pr] = @ + 1]
  /\ UNCHANGED <<lost, overlaps, served>>

Record(p, pr) ==
  /\ p \in told[pr]
  /\ told' = [told EXCEPT ![pr] = @ \ {p}]
  /\ served' = served \cup {pr}
  /\ UNCHANGED <<texts, lost, overlaps, owing>>

\* A worker that fails marks the pair as not served, even if another worker served it.
GiveUp(p, pr) ==
  /\ p \in At(pr)
  /\ owing' = [owing EXCEPT ![pr] = @ \ {p}]
  /\ told' = [told EXCEPT ![pr] = @ \ {p}]
  /\ served' = served \ {pr}
  /\ lost' = IF p \in told[pr] THEN [lost EXCEPT ![pr] = @ + 1] ELSE lost
  /\ UNCHANGED <<texts, overlaps>>

Crash ==
  /\ owing' = [pr \in Pairs |-> {}]
  /\ told' = [pr \in Pairs |-> {}]
  /\ lost' = [pr \in Pairs |-> IF told[pr] # {} THEN lost[pr] + 1 ELSE lost[pr]]
  /\ UNCHANGED <<texts, overlaps, served>>

Init ==
  /\ texts = [pr \in Pairs |-> 0]
  /\ lost = [pr \in Pairs |-> 0]
  /\ overlaps = [pr \in Pairs |-> 0]
  /\ served = {}
  /\ owing = [pr \in Pairs |-> {}]
  /\ told = [pr \in Pairs |-> {}]

Next ==
  \/ \E p \in Workers, pr \in Pairs :
       Begin(p, pr) \/ Send(p, pr) \/ Record(p, pr) \/ GiveUp(p, pr)
  \/ Crash

Spec == Init /\ [][Next]_vars

-----------------------------------------------------------------------------

\* The variables keep their types.
TypeOK ==
  /\ texts \in [Pairs -> Nat] /\ lost \in [Pairs -> Nat] /\ overlaps \in [Pairs -> Nat]
  /\ served \subseteq Pairs
  /\ owing \in [Pairs -> SUBSET Workers] /\ told \in [Pairs -> SUBSET Workers]

\* A text too many has a delivery that was never recorded or a double claim for it.
Accounted == \A pr \in Pairs : texts[pr] <= 1 + lost[pr] + overlaps[pr]

\* A worker that begins a pair nobody is at and nobody served sends without an overlap.
MayBegin(pr) == IF At(pr) = {} /\ pr \notin served THEN 1 ELSE 0

\* The inductive form of Accounted: to the texts sent it adds the text each worker
\* still owes, and the one that may be begun for free.
Credit ==
  \A pr \in Pairs :
    texts[pr] + Cardinality(owing[pr]) + MayBegin(pr) <= 1 + lost[pr] + overlaps[pr]

-----------------------------------------------------------------------------

\* Initially nothing is sent and every pair may be begun once.
LEMMA LedgerInit == Init => TypeOK /\ Credit
<1> SUFFICES ASSUME Init PROVE TypeOK /\ Credit
  OBVIOUS
<1>1. TypeOK
  BY DEF Init, TypeOK
<1>2. \A pr \in Pairs : Cardinality(owing[pr]) = 0
  BY FS_EmptySet DEF Init
<1>3. Credit
  BY <1>2 DEF Init, Credit, MayBegin, At
<1> QED BY <1>1, <1>3

\* Every step of the ledger keeps the types.
LEMMA LedgerTypeStep == TypeOK /\ [Next]_vars => TypeOK'
<1> SUFFICES ASSUME TypeOK, [Next]_vars PROVE TypeOK'
  OBVIOUS
<1> USE DEF TypeOK
<1>1. ASSUME NEW p \in Workers, NEW q \in Pairs, Begin(p, q) PROVE TypeOK'
  BY <1>1 DEF Begin
<1>2. ASSUME NEW p \in Workers, NEW q \in Pairs, Send(p, q) PROVE TypeOK'
  BY <1>2 DEF Send
<1>3. ASSUME NEW p \in Workers, NEW q \in Pairs, Record(p, q) PROVE TypeOK'
  BY <1>3 DEF Record
<1>4. ASSUME NEW p \in Workers, NEW q \in Pairs, GiveUp(p, q) PROVE TypeOK'
  BY <1>4 DEF GiveUp
<1>5. CASE Crash
  BY <1>5 DEF Crash
<1>6. CASE UNCHANGED vars
  BY <1>6 DEF vars
<1> QED BY <1>1, <1>2, <1>3, <1>4, <1>5, <1>6 DEF Next

\* The sets of workers at a pair are finite.
LEMMA FiniteWork ==
  ASSUME IsFiniteSet(Workers), TypeOK, NEW pr \in Pairs
  PROVE  /\ IsFiniteSet(owing[pr]) /\ Cardinality(owing[pr]) \in Nat
         /\ Cardinality(owing[pr]) = 0 <=> owing[pr] = {}
<1>1. owing[pr] \subseteq Workers
  BY DEF TypeOK
<1>2. IsFiniteSet(owing[pr])
  BY <1>1, FS_Subset
<1> QED BY <1>2, FS_CardinalityType, FS_EmptySet

\* Every step of the ledger keeps the credit: a text is paid for by the worker that
\* owed it, and a worker that begins is paid for by the free beginning or an overlap.
LEMMA LedgerCreditStep ==
  IsFiniteSet(Workers) /\ TypeOK /\ Credit /\ [Next]_vars => Credit'
<1> SUFFICES ASSUME IsFiniteSet(Workers), TypeOK, Credit, [Next]_vars, NEW pr \in Pairs
             PROVE  (texts[pr] + Cardinality(owing[pr]) + MayBegin(pr)
                       <= 1 + lost[pr] + overlaps[pr])'
  BY DEF Credit
<1> USE DEF MayBegin, At
<1>a. texts[pr] + Cardinality(owing[pr]) + MayBegin(pr) <= 1 + lost[pr] + overlaps[pr]
  BY DEF Credit
<1>b. /\ texts[pr] \in Nat /\ lost[pr] \in Nat /\ overlaps[pr] \in Nat
      /\ Cardinality(owing[pr]) \in Nat
      /\ Cardinality(owing[pr]) = 0 <=> owing[pr] = {}
      /\ IsFiniteSet(owing[pr])
  BY FiniteWork DEF TypeOK
<1>1. ASSUME NEW p \in Workers, NEW q \in Pairs, Begin(p, q)
      PROVE  (texts[pr] + Cardinality(owing[pr]) + MayBegin(pr)
                <= 1 + lost[pr] + overlaps[pr])'
  <2>1. CASE q = pr
    <3>1. p \notin owing[pr] /\ owing'[pr] = owing[pr] \cup {p}
      BY <1>1, <2>1 DEF Begin, TypeOK
    <3>2. Cardinality(owing'[pr]) = Cardinality(owing[pr]) + 1
      BY <3>1, <1>b, FS_AddElement
    <3>3. overlaps'[pr] = IF At(pr) = {} THEN overlaps[pr] ELSE overlaps[pr] + 1
      BY <1>1, <2>1 DEF Begin, TypeOK
    <3>4. At(pr)' # {} /\ texts'[pr] = texts[pr] /\ lost'[pr] = lost[pr] /\ pr \notin served
      BY <1>1, <2>1, <3>1 DEF Begin
    <3> QED BY <1>a, <1>b, <3>2, <3>3, <3>4
  <2>2. CASE q # pr
    BY <1>1, <1>a, <2>2 DEF Begin, TypeOK
  <2> QED BY <2>1, <2>2
<1>2. ASSUME NEW p \in Workers, NEW q \in Pairs, Send(p, q)
      PROVE  (texts[pr] + Cardinality(owing[pr]) + MayBegin(pr)
                <= 1 + lost[pr] + overlaps[pr])'
  <2>1. CASE q = pr
    <3>1. /\ p \in owing[pr] /\ owing'[pr] = owing[pr] \ {p} /\ p \in told'[pr]
          /\ texts'[pr] = texts[pr] + 1
      BY <1>2, <2>1 DEF Send, TypeOK
    <3>2. Cardinality(owing'[pr]) = Cardinality(owing[pr]) - 1
      BY <3>1, <1>b, FS_RemoveElement
    <3> QED BY <1>2, <1>a, <1>b, <3>1, <3>2 DEF Send
  <2>2. CASE q # pr
    BY <1>2, <1>a, <2>2 DEF Send, TypeOK
  <2> QED BY <2>1, <2>2
<1>3. ASSUME NEW p \in Workers, NEW q \in Pairs, Record(p, q)
      PROVE  (texts[pr] + Cardinality(owing[pr]) + MayBegin(pr)
                <= 1 + lost[pr] + overlaps[pr])'
  BY <1>3, <1>a, <1>b DEF Record, TypeOK
<1>4. ASSUME NEW p \in Workers, NEW q \in Pairs, GiveUp(p, q)
      PROVE  (texts[pr] + Cardinality(owing[pr]) + MayBegin(pr)
                <= 1 + lost[pr] + overlaps[pr])'
  <2>1. CASE q = pr
    <3>1. /\ At(pr) # {} /\ owing'[pr] = owing[pr] \ {p}
          /\ texts'[pr] = texts[pr] /\ overlaps'[pr] = overlaps[pr]
          /\ lost'[pr] = IF p \in told[pr] THEN lost[pr] + 1 ELSE lost[pr]
      BY <1>4, <2>1 DEF GiveUp, TypeOK
    <3>2. Cardinality(owing'[pr]) =
            IF p \in owing[pr] THEN Cardinality(owing[pr]) - 1 ELSE Cardinality(owing[pr])
      <4>1. CASE p \in owing[pr]
        BY <4>1, <3>1, <1>b, FS_RemoveElement
      <4>2. CASE p \notin owing[pr]
        <5>1. owing[pr] \ {p} = owing[pr]
          BY <4>2
        <5> QED BY <4>2, <5>1, <3>1
      <4> QED BY <4>1, <4>2
    <3>3. p \in owing[pr] \/ p \in told[pr]
      BY <1>4, <2>1 DEF GiveUp
    <3> QED BY <1>a, <1>b, <3>1, <3>2, <3>3
  <2>2. CASE q # pr
    BY <1>4, <1>a, <2>2 DEF GiveUp, TypeOK
  <2> QED BY <2>1, <2>2
<1>5. CASE Crash
  <2>1. Cardinality(owing'[pr]) = 0 /\ At(pr)' = {}
    BY <1>5, FS_EmptySet DEF Crash
  <2>2. lost'[pr] = IF told[pr] # {} THEN lost[pr] + 1 ELSE lost[pr]
    BY <1>5 DEF Crash
  <2> QED BY <1>5, <1>a, <1>b, <2>1, <2>2 DEF Crash
<1>6. CASE UNCHANGED vars
  BY <1>6, <1>a DEF vars
<1> QED BY <1>1, <1>2, <1>3, <1>4, <1>5, <1>6 DEF Next

\* The credit bounds the texts.
LEMMA CreditBounds == IsFiniteSet(Workers) /\ TypeOK /\ Credit => Accounted
<1> SUFFICES ASSUME IsFiniteSet(Workers), TypeOK, Credit, NEW pr \in Pairs
             PROVE  texts[pr] <= 1 + lost[pr] + overlaps[pr]
  BY DEF Accounted
<1>1. texts[pr] + Cardinality(owing[pr]) + MayBegin(pr) <= 1 + lost[pr] + overlaps[pr]
  BY DEF Credit
<1> QED BY <1>1, FiniteWork DEF TypeOK, MayBegin

\* The ledger never holds a text too many that nobody accounts for.
THEOREM LedgerAccounted == IsFiniteSet(Workers) /\ Spec => [](TypeOK /\ Credit /\ Accounted)
<1> SUFFICES ASSUME IsFiniteSet(Workers) PROVE Spec => [](TypeOK /\ Credit /\ Accounted)
  OBVIOUS
<1>1. TypeOK /\ Credit /\ [Next]_vars => TypeOK' /\ Credit'
  BY LedgerTypeStep, LedgerCreditStep
<1>2. TypeOK /\ Credit => Accounted
  BY CreditBounds
<1> QED BY LedgerInit, <1>1, <1>2, PTL DEF Spec

=============================================================================
