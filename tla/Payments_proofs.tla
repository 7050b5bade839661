--------------------------- MODULE Payments_proofs ---------------------------
(***************************************************************************)
(* Proofs about Payments, for any quotes, keys and calls and any number of *)
(* crashes.                                                                *)
(***************************************************************************)
EXTENDS Payments, FiniteSetTheorems, TLAPS

Bound == {"bound", "lookup", "paying", "posted", "saved", "answer"}
Result == {"NONE", "OK", "FAILED", "CHALLENGE"}
QuoteType == [Quote -> [status : {"NONE", "BLOCKED", "QUOTED", "CONFIRMED", "SETTLED",
                                  "FAILED", "EXPIRED"}, key : Key \cup {NoKey}]]
CallType == [Call -> [at : Stage, quote : Quote, key : Key, result : Result]]

\* A key confirms one quote.
OneQuotePerKey ==
    \A p, q \in Quote : p # q /\ quote[p].key = quote[q].key => quote[p].key = NoKey

\* What a call knows of its quote and of the money.
CallsKnow ==
    \A c \in Call :
        /\ call[c].at \in Bound => quote[call[c].quote].key = call[c].key
        /\ call[c].at \in {"posted", "saved"} => <<call[c].quote, call[c].key>> \in paid
        /\ call[c].result = "OK" => <<call[c].quote, call[c].key>> \in paid
        /\ call[c].at \in {"saved", "answer"} => call[c].result # "NONE"

\* What the tables know of the money.
RowsKnow ==
    /\ \A k \in Key : row[k] = "OK" => \E q \in Quote : <<q, k>> \in paid
    /\ \A p \in paid : posted[p[2]] > 0

\* Each call that may post was let through by the row, by a clearing of the
\* row or by a lookup that found none.
Paying(k) == {c \in Call : call[c].at = "paying" /\ call[c].key = k}
Passes(k) == cleared[k] + unguarded[k] + (IF row[k] = "NONE" THEN 0 ELSE 1)
Budget == \A k \in Key : posted[k] + Cardinality(Paying(k)) <= Passes(k)

IInv ==
    /\ PaymentTypeOK
    /\ QuotePaysUnderItsKey
    /\ SettledIsPaid
    /\ OneQuotePerKey
    /\ CallsKnow
    /\ RowsKnow
    /\ Budget

\* How the size of a finite set changes with one element.
LEMMA Sizes ==
    ASSUME NEW S, IsFiniteSet(S), NEW T, NEW x
    PROVE  /\ Cardinality(S) \in Nat
           /\ T \subseteq S => Cardinality(T) \in Nat /\ Cardinality(T) <= Cardinality(S)
           /\ T \subseteq S \cup {x} => Cardinality(T) \in Nat /\ Cardinality(T) <= Cardinality(S) + 1
           /\ x \in S /\ T \subseteq S \ {x} =>
                  Cardinality(T) \in Nat /\ Cardinality(T) + 1 <= Cardinality(S)
<1>1. Cardinality(S) \in Nat
  BY FS_CardinalityType
<1>2. ASSUME T \subseteq S PROVE Cardinality(T) \in Nat /\ Cardinality(T) <= Cardinality(S)
  BY <1>2, FS_Subset, FS_CardinalityType
<1>3. ASSUME T \subseteq S \cup {x}
      PROVE  Cardinality(T) \in Nat /\ Cardinality(T) <= Cardinality(S) + 1
  <2>1. /\ IsFiniteSet(S \cup {x}) /\ Cardinality(S \cup {x}) \in Nat
        /\ Cardinality(S \cup {x}) <= Cardinality(S) + 1
    BY <1>1, FS_AddElement, FS_CardinalityType
  <2>2. IsFiniteSet(T) /\ Cardinality(T) <= Cardinality(S \cup {x})
    BY <1>3, <2>1, FS_Subset
  <2> QED BY <1>1, <2>1, <2>2, FS_CardinalityType
<1>4. ASSUME x \in S, T \subseteq S \ {x}
      PROVE  Cardinality(T) \in Nat /\ Cardinality(T) + 1 <= Cardinality(S)
  <2>1. IsFiniteSet(S \ {x}) /\ Cardinality(S \ {x}) = Cardinality(S) - 1
    BY <1>4, FS_RemoveElement
  <2>2. IsFiniteSet(T) /\ Cardinality(T) <= Cardinality(S \ {x})
    BY <1>4, <2>1, FS_Subset
  <2> QED BY <1>1, <2>1, <2>2, FS_CardinalityType
<1> QED BY <1>1, <1>2, <1>3, <1>4

\* One key's budget when one call moves.
LEMMA BudgetStep ==
    ASSUME IInv, NEW k \in Key, NEW c \in Call, posted'[k] \in Nat, Passes(k)' \in Nat,
           \/ /\ posted'[k] = posted[k] /\ Passes(k)' >= Passes(k)
              /\ Paying(k)' \subseteq Paying(k)
           \/ /\ posted'[k] = posted[k] /\ Passes(k)' >= Passes(k) + 1
              /\ Paying(k)' \subseteq Paying(k) \cup {c}
           \/ /\ posted'[k] = posted[k] + 1 /\ Passes(k)' >= Passes(k)
              /\ c \in Paying(k) /\ Paying(k)' \subseteq Paying(k) \ {c}
    PROVE  (posted[k] + Cardinality(Paying(k)) <= Passes(k))'
<1> DEFINE P == Paying(k)  Q == Paying(k)'
<1>1. /\ posted[k] \in Nat /\ Passes(k) \in Nat
      /\ posted[k] + Cardinality(P) <= Passes(k)
  BY DEF IInv, PaymentTypeOK, Budget, Passes
<1>2. P \in SUBSET Call
  BY DEF Paying
<1>3. IsFiniteSet(P)
  BY <1>2, FS_Subset, PaymentAssumption
<1> HIDE DEF P, Q
<1>4. /\ Cardinality(P) \in Nat
      /\ Q \subseteq P => Cardinality(Q) \in Nat /\ Cardinality(Q) <= Cardinality(P)
      /\ Q \subseteq P \cup {c} => Cardinality(Q) \in Nat /\ Cardinality(Q) <= Cardinality(P) + 1
      /\ c \in P /\ Q \subseteq P \ {c} => Cardinality(Q) \in Nat /\ Cardinality(Q) + 1 <= Cardinality(P)
  BY <1>3, Sizes
<1> QED BY <1>1, <1>4 DEF P, Q

\* A call that moves on keeps its quote and its key; the others keep all.
LEMMA Moved ==
    ASSUME PaymentTypeOK, NEW c \in Call, NEW s \in Stage, NEW r \in Result,
           Conclude(c, s, r) \/ (Go(c, s) /\ r = call[c].result)
    PROVE  /\ call' \in CallType /\ call'[c].at = s /\ call'[c].result = r
           /\ \A d \in Call : /\ call'[d].quote = call[d].quote /\ call'[d].key = call[d].key
                              /\ d # c => call'[d] = call[d]
BY DEF Go, Conclude, PaymentTypeOK, CallType, Result

\* The invariant holds before the first preview.
LEMMA InitIInv == Init => IInv
<1> SUFFICES ASSUME Init PROVE IInv
  OBVIOUS
<1> USE DEF Init
<1>1. PaymentTypeOK
  BY PaymentAssumption DEF PaymentTypeOK, NoQuote, Stage
<1>2. QuotePaysUnderItsKey /\ SettledIsPaid /\ OneQuotePerKey /\ CallsKnow /\ RowsKnow
  BY DEF QuotePaysUnderItsKey, SettledIsPaid, OneQuotePerKey, CallsKnow, RowsKnow, NoQuote, Bound
<1>3. ASSUME NEW k \in Key PROVE posted[k] + Cardinality(Paying(k)) <= Passes(k)
  <2>1. Paying(k) = {}
    BY DEF Paying
  <2> QED BY <2>1, FS_EmptySet DEF Passes
<1> QED BY <1>1, <1>2, <1>3 DEF IInv, Budget

\* A step that moves a quote, and neither a row nor money.
LEMMA QuoteStep ==
    ASSUME IInv, UNCHANGED <<row, history>>, late' \subseteq Quote, crashes' \in Nat,
           quote' \in QuoteType, call' \in CallType,
           \A d \in Call : /\ call'[d].quote = call[d].quote /\ call'[d].key = call[d].key
                           /\ call'[d].result = call[d].result
                           /\ call'[d].at \in {"paying", "posted", "saved", "answer"} =>
                                  call'[d].at = call[d].at
                           /\ call'[d].at \in Bound =>
                                  call[d].at \in Bound \/ quote'[call[d].quote].key = call[d].key,
           \A q \in Quote :
               /\ quote[q].key # NoKey => quote'[q].key = quote[q].key
               /\ quote'[q].key # NoKey => \/ quote'[q].key = quote[q].key
                                           \/ \A p \in Quote : quote[p].key # quote'[q].key
               /\ quote'[q].status \in {"NONE", "BLOCKED", "QUOTED"} => quote'[q].key = NoKey
               /\ quote'[q].status \in {"CONFIRMED", "SETTLED", "FAILED"} => quote'[q].key # NoKey
               /\ quote'[q].status = "SETTLED" => <<q, quote'[q].key>> \in paid,
           \A p, q \in Quote : quote'[p] # quote[p] /\ quote'[q] # quote[q] => p = q
    PROVE  IInv'
<1> USE DEF IInv
<1>0. UNCHANGED <<row, posted, paid, cleared, unguarded>>
  BY DEF history
<1>t. quote \in QuoteType /\ call \in CallType /\ paid \subseteq Quote \X Key
  BY DEF PaymentTypeOK, QuoteType, CallType, Result
<1>1. PaymentTypeOK'
  BY <1>0 DEF PaymentTypeOK, QuoteType, CallType, Result
<1>2. QuotePaysUnderItsKey'
  <2> SUFFICES ASSUME NEW p \in paid PROVE quote'[p[1]].key = p[2]
    BY <1>0 DEF QuotePaysUnderItsKey
  <2>1. p[1] \in Quote /\ p[2] \in Key /\ quote[p[1]].key = p[2] /\ p[2] # NoKey
    BY <1>t, PaymentAssumption DEF QuotePaysUnderItsKey
  <2> QED BY <2>1
<1>3. SettledIsPaid'
  BY <1>0 DEF SettledIsPaid
<1>4. OneQuotePerKey'
  <2> SUFFICES ASSUME NEW p \in Quote, NEW q \in Quote, p # q, quote'[p].key = quote'[q].key,
                      quote'[p].key # NoKey
               PROVE  FALSE
    BY DEF OneQuotePerKey
  <2>1. quote'[p] = quote[p] \/ quote'[q] = quote[q]
    OBVIOUS
  <2>2. ~(quote[p].key = quote[q].key /\ quote[p].key # NoKey)
    BY DEF OneQuotePerKey
  <2>3. \A r \in Quote : quote'[r].key # NoKey =>
            quote'[r].key = quote[r].key \/ \A t \in Quote : quote[t].key # quote'[r].key
    OBVIOUS
  <2>4. CASE quote'[p] = quote[p]
    BY <2>2, <2>3, <2>4
  <2>5. CASE quote'[q] = quote[q]
    BY <2>2, <2>3, <2>5
  <2> QED BY <2>1, <2>4, <2>5
<1>5. CallsKnow'
  <2> SUFFICES ASSUME NEW d \in Call
               PROVE  /\ call'[d].at \in Bound => quote'[call'[d].quote].key = call'[d].key
                      /\ call'[d].at \in {"posted", "saved"} => <<call'[d].quote, call'[d].key>> \in paid'
                      /\ call'[d].result = "OK" => <<call'[d].quote, call'[d].key>> \in paid'
                      /\ call'[d].at \in {"saved", "answer"} => call'[d].result # "NONE"
    BY DEF CallsKnow
  <2>1. call[d].quote \in Quote /\ call[d].key \in Key /\ call[d].key # NoKey
    BY <1>t, PaymentAssumption DEF CallType
  <2>2. call[d].at \in Bound => quote'[call[d].quote].key = call[d].key
    BY <2>1 DEF CallsKnow
  <2> QED BY <1>0, <2>2 DEF CallsKnow
<1>6. RowsKnow'
  BY <1>0 DEF RowsKnow
<1>7. ASSUME NEW k \in Key PROVE (posted[k] + Cardinality(Paying(k)) <= Passes(k))'
  <2>1. Passes(k)' = Passes(k) /\ Passes(k) \in Nat /\ posted[k] \in Nat /\ posted'[k] = posted[k]
    BY <1>0 DEF Passes, PaymentTypeOK
  <2>2. Paying(k)' \subseteq Paying(k)
    BY DEF Paying
  <2>3. CASE Call = {}
    <3>1. Paying(k)' = Paying(k)
      BY <2>2, <2>3 DEF Paying
    <3> QED BY <2>1, <3>1 DEF Budget
  <2>4. CASE Call # {}
    BY <2>1, <2>2, <2>4, BudgetStep
  <2> QED BY <2>3, <2>4
<1> QED BY <1>1, <1>2, <1>3, <1>4, <1>5, <1>6, <1>7 DEF Budget

\* A step of a call that leaves the quotes alone.
LEMMA KeyStep ==
    ASSUME IInv, NEW c \in Call, NEW k \in Key, k = call[c].key, UNCHANGED <<quote, late>>,
           call[c].at \in Bound \cup {"idle", "read", "expire"},
           crashes' \in Nat, call' \in CallType,
           \A d \in Call : /\ call'[d].quote = call[d].quote /\ call'[d].key = call[d].key
                           /\ d # c => call'[d] = call[d],
           call'[c].at \in Bound => call[c].at \in Bound,
           row' \in [Key -> {"NONE", "PROCESSING", "OK", "FAILED"}],
           \A j \in Key : row'[j] = "OK" =>
               row[j] = "OK" \/ (j = call[c].key /\ <<call[c].quote, j>> \in paid),
           call'[c].result = "OK" => call'[c].result = call[c].result \/ <<call[c].quote, call[c].key>> \in paid,
           call'[c].at \in {"saved", "answer"} => call'[c].result # "NONE",
           call'[c].at = "saved" => call[c].at = "posted",
           cleared' \in [Key -> Nat], unguarded' \in [Key -> Nat],
           \A j \in Key : Passes(j)' >= Passes(j),
           \/ /\ UNCHANGED <<posted, paid>> /\ call'[c].at \notin {"posted", "paying"}
           \/ /\ UNCHANGED <<posted, paid>> /\ call'[c].at = "paying"
              /\ Passes(k)' >= Passes(k) + 1
           \/ /\ call[c].at = "paying" /\ call'[c].at = "posted"
              /\ posted' = [posted EXCEPT ![call[c].key] = @ + 1]
              /\ paid' = paid \cup {<<call[c].quote, call[c].key>>}
    PROVE  IInv'
<1> DEFINE s == call'[c].at  r == call'[c].result
<1> USE DEF IInv
<1>t. /\ quote \in QuoteType /\ call \in CallType /\ paid \subseteq Quote \X Key
      /\ posted \in [Key -> Nat] /\ late \subseteq Quote
      /\ call[c].key \in Key /\ call[c].quote \in Quote
  BY DEF PaymentTypeOK, QuoteType, CallType, Result
<1>s. s \in Stage /\ r \in Result
  BY DEF CallType
<1>p. /\ posted' \in [Key -> Nat] /\ paid' \subseteq Quote \X Key /\ paid \subseteq paid'
      /\ \A j \in Key : posted'[j] >= posted[j]
      /\ \A p \in paid' : p \in paid \/ (p = <<call[c].quote, call[c].key>> /\ s = "posted")
      /\ s = "posted" => /\ <<call[c].quote, call[c].key>> \in paid'
                         /\ posted'[call[c].key] > 0 /\ call[c].at = "paying"
  <2>1. CASE UNCHANGED <<posted, paid>> /\ s # "posted"
    BY <1>t, <2>1
  <2>2. CASE /\ call[c].at = "paying" /\ s = "posted"
             /\ posted' = [posted EXCEPT ![call[c].key] = @ + 1]
             /\ paid' = paid \cup {<<call[c].quote, call[c].key>>}
    BY <1>t, <2>2
  <2> QED BY <2>1, <2>2
<1>1. PaymentTypeOK'
  BY <1>p DEF PaymentTypeOK, QuoteType, CallType, Result
<1>2. QuotePaysUnderItsKey'
  BY <1>t, <1>p DEF QuotePaysUnderItsKey, CallsKnow, Bound
<1>3. RowsKnow'
  <2>1. ASSUME NEW j \in Key, row'[j] = "OK" PROVE \E q \in Quote : <<q, j>> \in paid'
    BY <1>t, <1>p, <2>1 DEF RowsKnow
  <2>2. ASSUME NEW p \in paid' PROVE posted'[p[2]] > 0
    <3>1. CASE p \in paid
      <4>1. p[2] \in Key /\ posted[p[2]] > 0
        BY <1>t, <3>1 DEF RowsKnow
      <4> QED BY <1>t, <1>p, <4>1
    <3>2. CASE p = <<call[c].quote, call[c].key>> /\ s = "posted"
      BY <1>p, <3>2
    <3> QED BY <1>p, <2>2, <3>1, <3>2
  <2> QED BY <2>1, <2>2 DEF RowsKnow
<1>4. SettledIsPaid'
  <2>1. \A q \in Quote : quote'[q].status = "SETTLED" => <<q, quote'[q].key>> \in paid'
    BY <1>p DEF SettledIsPaid
  <2>2. \A j \in Key : row'[j] = "OK" => posted'[j] > 0
    BY <1>3 DEF RowsKnow
  <2> QED BY <2>1, <2>2 DEF SettledIsPaid
<1>5. OneQuotePerKey'
  BY DEF OneQuotePerKey
<1>6. CallsKnow'
  <2> SUFFICES ASSUME NEW d \in Call
               PROVE  /\ call'[d].at \in Bound => quote'[call'[d].quote].key = call'[d].key
                      /\ call'[d].at \in {"posted", "saved"} => <<call'[d].quote, call'[d].key>> \in paid'
                      /\ call'[d].result = "OK" => <<call'[d].quote, call'[d].key>> \in paid'
                      /\ call'[d].at \in {"saved", "answer"} => call'[d].result # "NONE"
    BY DEF CallsKnow
  <2>1. CASE d = c
    BY <1>p, <2>1 DEF CallsKnow
  <2>2. CASE d # c
    BY <1>p, <2>2 DEF CallsKnow
  <2> QED BY <2>1, <2>2
<1>7. ASSUME NEW j \in Key PROVE (posted[j] + Cardinality(Paying(j)) <= Passes(j))'
  <2>1. /\ Passes(j)' >= Passes(j) /\ Passes(j)' \in Nat /\ Passes(j) \in Nat
        /\ posted[j] \in Nat /\ posted'[j] \in Nat
    BY <1>t, <1>p DEF Passes, PaymentTypeOK
  <2>2. /\ Paying(j)' \subseteq Call
        /\ \A d \in Call \ {c} : d \in Paying(j)' <=> d \in Paying(j)
        /\ c \in Paying(j)' <=> s = "paying" /\ call[c].key = j
        /\ c \in Paying(j) <=> call[c].at = "paying" /\ call[c].key = j
    BY DEF Paying
  <2>3. CASE call[c].key # j
    <3>1. Paying(j)' \subseteq Paying(j) /\ posted'[j] = posted[j]
      BY <1>t, <2>2, <2>3
    <3> QED BY <2>1, <3>1, BudgetStep
  <2>4. CASE call[c].key = j /\ UNCHANGED <<posted, paid>> /\ s \notin {"posted", "paying"}
    <3>1. Paying(j)' \subseteq Paying(j)
      BY <2>2, <2>4
    <3> QED BY <2>1, <2>4, <3>1, BudgetStep
  <2>5. CASE /\ call[c].key = j /\ UNCHANGED <<posted, paid>> /\ s = "paying"
             /\ Passes(j)' >= Passes(j) + 1
    <3>1. Paying(j)' \subseteq Paying(j) \cup {c}
      BY <2>2
    <3> QED BY <2>1, <2>5, <3>1, BudgetStep
  <2>6. CASE /\ call[c].key = j /\ call[c].at = "paying" /\ s = "posted"
             /\ posted' = [posted EXCEPT ![call[c].key] = @ + 1]
    <3>1. /\ posted'[j] = posted[j] + 1 /\ c \in Paying(j)
          /\ Paying(j)' \subseteq Paying(j) \ {c}
      BY <1>t, <2>2, <2>6
    <3> QED BY <2>1, <3>1, BudgetStep
  <2> QED BY <2>3, <2>4, <2>5, <2>6
<1> QED BY <1>1, <1>2, <1>3, <1>4, <1>5, <1>6, <1>7 DEF Budget

\* Every step keeps the invariant.
LEMMA StepIInv == IInv /\ [Next]_vars => IInv'
<1> SUFFICES ASSUME IInv, [Next]_vars PROVE IInv'
  OBVIOUS
<1>t. /\ quote \in QuoteType /\ call \in CallType /\ paid \subseteq Quote \X Key
      /\ row \in [Key -> {"NONE", "PROCESSING", "OK", "FAILED"}] /\ late \subseteq Quote
      /\ cleared \in [Key -> Nat] /\ unguarded \in [Key -> Nat] /\ crashes \in Nat
      /\ PaymentTypeOK /\ CallsKnow
      /\ \A q \in Quote :
          /\ quote[q].status \in {"NONE", "BLOCKED", "QUOTED"} => quote[q].key = NoKey
          /\ quote[q].status \in {"CONFIRMED", "SETTLED", "FAILED"} => quote[q].key # NoKey
          /\ quote[q].status = "SETTLED" => <<q, quote[q].key>> \in paid
  BY DEF IInv, PaymentTypeOK, QuoteType, CallType, Result, SettledIsPaid
<1>c. \A c \in Call : /\ call[c].quote \in Quote /\ call[c].key \in Key /\ call[c].key # NoKey
                      /\ call[c].result \in Result
  BY <1>t, PaymentAssumption DEF CallType
<1>1. ASSUME NEW q \in Quote, Preview(q) \/ TimePasses(q) PROVE IInv'
  <2>1. /\ UNCHANGED <<row, call, history, crashes>> /\ late' \subseteq Quote /\ crashes' \in Nat
    BY <1>1, <1>t DEF Preview, TimePasses, tables
  <2>2. CASE Preview(q)
    <3>1. PICK s \in {"QUOTED", "BLOCKED"} : quote' = [quote EXCEPT ![q].status = s]
      BY <2>2 DEF Preview
    <3>2. quote[q].key = NoKey /\ quote[q].status = "NONE"
      BY <1>t, <2>2 DEF Preview
    <3> QED BY <1>t, <2>1, <3>1, <3>2, QuoteStep DEF QuoteType
  <2>3. CASE TimePasses(q)
    <3>1. UNCHANGED quote
      BY <2>3 DEF TimePasses, tables
    <3> QED BY <1>t, <2>1, <3>1, QuoteStep
  <2> QED BY <1>1, <2>2, <2>3
<1>2. ASSUME NEW c \in Call, BindRead(c) \/ WriteExpired(c) \/ BindWrite(c) \/ Mark(c) PROVE IInv'
  <2> DEFINE q == call[c].quote  k == call[c].key
  <2>1. PICK s \in {"expire", "bound", "read", "done"} : Go(c, s)
    BY <1>2 DEF BindRead, WriteExpired, BindWrite, Mark
  <2>2. /\ call' \in CallType /\ call'[c].at = s /\ call'[c].result = call[c].result
        /\ \A d \in Call : /\ call'[d].quote = call[d].quote /\ call'[d].key = call[d].key
                           /\ d # c => call'[d] = call[d]
    BY <1>c, <1>t, <2>1, Moved DEF Stage
  <2>3. UNCHANGED <<row, late, history, crashes>> /\ late' \subseteq Quote /\ crashes' \in Nat
    BY <1>2, <1>t DEF BindRead, WriteExpired, BindWrite, Mark, tables
  <2>4. q \in Quote /\ k \in Key /\ k # NoKey
    BY <1>c
  <2>5. CASE BindRead(c)
    <3>1. UNCHANGED quote /\ (s = "bound" => quote[q].key = k)
      BY <1>t, <2>2, <2>4, <2>5 DEF BindRead, RetryOf, tables, Go, CallType
    <3> QED BY <1>t, <2>1, <2>2, <2>3, <2>4, <3>1, QuoteStep DEF Bound
  <2>6. CASE WriteExpired(c)
    <3>1. s = "done" /\ quote' = [quote EXCEPT ![q].status = "EXPIRED"]
      BY <1>t, <2>2, <2>6 DEF WriteExpired, Go, CallType
    <3> HIDE DEF q, k
    <3>2. quote' \in QuoteType
      BY <1>t, <2>4, <3>1 DEF QuoteType
    <3>3. \A p \in Quote : /\ quote'[p].key = quote[p].key
                           /\ p # q => quote'[p] = quote[p]
                           /\ quote'[p].status = IF p = q THEN "EXPIRED" ELSE quote[p].status
      BY <1>t, <2>4, <3>1 DEF QuoteType
    <3>4. \A p \in Quote :
             /\ quote[p].key # NoKey => quote'[p].key = quote[p].key
             /\ quote'[p].key # NoKey => \/ quote'[p].key = quote[p].key
                                         \/ \A r \in Quote : quote[r].key # quote'[p].key
             /\ quote'[p].status \in {"NONE", "BLOCKED", "QUOTED"} => quote'[p].key = NoKey
             /\ quote'[p].status \in {"CONFIRMED", "SETTLED", "FAILED"} => quote'[p].key # NoKey
             /\ quote'[p].status = "SETTLED" => <<p, quote'[p].key>> \in paid
      <4> TAKE p \in Quote
      <4>1. CASE p = q
        BY <3>3, <4>1
      <4>2. CASE p # q
        BY <1>t, <3>3, <4>2
      <4> QED BY <4>1, <4>2
    <3>5. \A d \in Call : /\ call'[d].result = call[d].result
                          /\ call'[d].at \in {"paying", "posted", "saved", "answer"} =>
                                 call'[d].at = call[d].at
                          /\ call'[d].at \in Bound => call[d].at \in Bound
      BY <2>2, <3>1 DEF Bound
    <3> QED BY <2>2, <2>3, <3>2, <3>3, <3>4, <3>5, QuoteStep
  <2>7. CASE BindWrite(c)
    <3>1. CASE Bindable(q, k) /\ quote' = [quote EXCEPT ![q] = [status |-> "CONFIRMED", key |-> k]]
      <4>1. /\ quote[q].key = NoKey /\ \A p \in Quote : quote[p].key # k
            /\ quote'[q].key = k
        BY <1>t, <2>4, <3>1 DEF Bindable, QuoteType
      <4> QED BY <1>t, <2>1, <2>2, <2>3, <2>4, <3>1, <4>1, QuoteStep DEF Bound, QuoteType
    <3>2. CASE UNCHANGED quote /\ Go(c, IF RetryOf(c) THEN "bound" ELSE "done")
      <4>1. s = "bound" => quote[q].key = k
        BY <1>t, <2>2, <2>4, <3>2 DEF RetryOf, Go, CallType
      <4> QED BY <1>t, <2>1, <2>2, <2>3, <2>4, <3>2, <4>1, QuoteStep DEF Bound
    <3> QED BY <2>7, <3>1, <3>2 DEF BindWrite
  <2>8. CASE Mark(c)
    <3>1. /\ s = "done" /\ quote' = [quote EXCEPT ![q].status = Verdict(call[c].result)]
          /\ call[c].at \in {"answer", "saved"}
      BY <1>t, <2>2, <2>8 DEF Mark, Go, CallType, At
    <3>2. /\ quote[q].key = k /\ Verdict(call[c].result) \in {"SETTLED", "CONFIRMED", "FAILED"}
          /\ Verdict(call[c].result) = "SETTLED" => <<q, k>> \in paid
      BY <1>t, <3>1 DEF CallsKnow, Bound, Verdict
    <3> HIDE DEF q, k
    <3>3. quote' \in QuoteType /\ quote'[q].key = k /\ quote'[q].status = Verdict(call[c].result)
      BY <1>t, <2>4, <3>1, <3>2 DEF QuoteType
    <3>4. \A p \in Quote \ {q} : quote'[p] = quote[p]
      BY <1>t, <3>1 DEF QuoteType
    <3>5. \A p \in Quote : quote'[p].key = quote[p].key
      BY <3>2, <3>3, <3>4
    <3>6. \A p \in Quote :
             /\ quote'[p].status \in {"NONE", "BLOCKED", "QUOTED"} => quote'[p].key = NoKey
             /\ quote'[p].status \in {"CONFIRMED", "SETTLED", "FAILED"} => quote'[p].key # NoKey
             /\ quote'[p].status = "SETTLED" => <<p, quote'[p].key>> \in paid
      BY <1>t, <2>4, <3>2, <3>3, <3>4
    <3> QED BY <1>t, <2>2, <2>3, <2>4, <3>1, <3>3, <3>4, <3>5, <3>6, QuoteStep DEF Bound
  <2> QED BY <1>2, <2>5, <2>6, <2>7, <2>8
<1>3. ASSUME NEW c \in Call,
             Deny(c) \/ Register(c) \/ Lookup(c) \/ Refuse(c) \/ Challenge(c) \/ Stumble(c)
                 \/ Post(c) \/ Save(c) \/ Disown(c) \/ Crash(c)
      PROVE  IInv'
  <2> DEFINE q == call[c].quote
  <2>z. PICK k \in Key : k = call[c].key
    BY <1>c
  <2> USE <2>z
  <2>1. UNCHANGED <<quote, late>> /\ crashes' \in Nat
    BY <1>3, <1>t DEF Deny, Register, Lookup, Refuse, Challenge, Stumble, Post, Save, Disown, Crash, tables
  <2>2. q \in Quote /\ k \in Key
    BY <1>c
  <2>3. \A b \in {"OK", "FAILED"} :
           /\ Kept(k, b) \in [Key -> {"NONE", "PROCESSING", "OK", "FAILED"}]
           /\ \A j \in Key : /\ (row[j] = "NONE") = (Kept(k, b)[j] = "NONE")
                             /\ Kept(k, b)[j] = "OK" => row[j] = "OK" \/ (j = k /\ b = "OK")
    BY <1>t, <2>2 DEF Kept
  <2>4. ASSUME UNCHANGED <<row, cleared, unguarded>>
        PROVE  /\ row' \in [Key -> {"NONE", "PROCESSING", "OK", "FAILED"}]
               /\ cleared' \in [Key -> Nat] /\ unguarded' \in [Key -> Nat]
               /\ \A j \in Key : Passes(j)' >= Passes(j)
    BY <1>t, <2>4 DEF Passes
  <2>5. ASSUME NEW b \in {"OK", "FAILED"}, row' = Kept(k, b), UNCHANGED <<cleared, unguarded>>
        PROVE  /\ cleared' \in [Key -> Nat] /\ unguarded' \in [Key -> Nat]
               /\ \A j \in Key : Passes(j)' >= Passes(j)
    BY <1>t, <2>3, <2>5 DEF Passes
  <2>6. ASSUME ClearKey(k), UNCHANGED unguarded
        PROVE  /\ row' \in [Key -> {"NONE", "PROCESSING", "OK", "FAILED"}]
               /\ cleared' \in [Key -> Nat] /\ unguarded' \in [Key -> Nat]
               /\ \A j \in Key : Passes(j)' >= Passes(j)
               /\ \A j \in Key : row'[j] = "OK" => row[j] = "OK"
    BY <1>t, <2>2, <2>6 DEF Passes, ClearKey
  <2>p. \A s \in Stage, r \in Result :
           Conclude(c, s, r) \/ (Go(c, s) /\ r = call[c].result) =>
             /\ call' \in CallType /\ call'[c].at = s /\ call'[c].result = r
             /\ \A d \in Call : /\ call'[d].quote = call[d].quote /\ call'[d].key = call[d].key
                                /\ d # c => call'[d] = call[d]
    BY <1>t, Moved
  <2>s. Bound \cup {"idle", "read", "expire", "done"} \subseteq Stage /\ call[c].result \in Result
        /\ {"OK", "FAILED", "CHALLENGE"} \subseteq Result /\ call[c].at \in Stage
    BY <1>c, <1>t DEF Bound, Stage, Result, CallType
  <2>k. /\ call[c].at = "posted" => <<q, k>> \in paid
        /\ call[c].at \in {"saved", "answer"} => call[c].result # "NONE"
        /\ call[c].at \in Bound => quote[q].key = k
    BY <1>t DEF CallsKnow
  <2>7. CASE Deny(c) \/ Crash(c)
    <3>1. /\ Go(c, "done") /\ UNCHANGED <<row, cleared, unguarded, posted, paid>>
          /\ call[c].at \in Bound \cup {"idle", "read", "expire"}
      BY <2>7, <2>s DEF Deny, Crash, tables, history, At, Bound, Stage
    <3>2. /\ call' \in CallType /\ call'[c].at = "done" /\ call'[c].result = call[c].result
          /\ \A d \in Call : /\ call'[d].quote = call[d].quote /\ call'[d].key = call[d].key
                             /\ d # c => call'[d] = call[d]
      BY <2>p, <2>s, <3>1 DEF Bound
    <3> QED BY <2>1, <2>4, <2>s, <3>1, <3>2, KeyStep DEF Bound
  <2>8. CASE Register(c)
    <3>1. call[c].at = "bound" /\ UNCHANGED <<cleared, unguarded, posted, paid>>
      BY <2>8 DEF Register, At, history
    <3>2. CASE Free(k) /\ row' = [row EXCEPT ![k] = "PROCESSING"] /\ Go(c, "paying")
      <4>1. /\ row' \in [Key -> {"NONE", "PROCESSING", "OK", "FAILED"}] /\ row'[k] = "PROCESSING"
            /\ \A j \in Key \ {k} : row'[j] = row[j]
            /\ row[k] = "NONE" /\ cleared' \in [Key -> Nat] /\ unguarded' \in [Key -> Nat]
        BY <1>t, <2>2, <3>1, <3>2 DEF Free
      <4>2. \A j \in Key : cleared[j] \in Nat /\ unguarded[j] \in Nat /\ cleared'[j] = cleared[j]
                           /\ unguarded'[j] = unguarded[j]
        BY <1>t, <3>1
      <4>3. /\ \A j \in Key : Passes(j)' >= Passes(j)
            /\ Passes(k)' >= Passes(k) + 1
        <5>1. Passes(k)' >= Passes(k) + 1 /\ Passes(k)' >= Passes(k)
          BY <2>2, <4>1, <4>2 DEF Passes
        <5>2. ASSUME NEW j \in Key, j # k PROVE Passes(j)' >= Passes(j)
          <6>1. CASE row[j] = "NONE"
            BY <4>1, <4>2, <5>2, <6>1 DEF Passes
          <6>2. CASE row[j] # "NONE"
            BY <4>1, <4>2, <5>2, <6>2 DEF Passes
          <6> QED BY <6>1, <6>2
        <5> QED BY <5>1, <5>2
      <4>4. /\ call' \in CallType /\ call'[c].at = "paying" /\ call'[c].result = call[c].result
            /\ \A d \in Call : /\ call'[d].quote = call[d].quote /\ call'[d].key = call[d].key
                               /\ d # c => call'[d] = call[d]
        BY <2>p, <2>s, <3>2 DEF Bound
      <4> QED BY <2>1, <2>2, <3>1, <3>2, <4>1, <4>3, <4>4, KeyStep DEF Bound
    <3>3. CASE UNCHANGED row /\ Go(c, "lookup")
      <4>1. /\ call' \in CallType /\ call'[c].at = "lookup" /\ call'[c].result = call[c].result
            /\ \A d \in Call : /\ call'[d].quote = call[d].quote /\ call'[d].key = call[d].key
                               /\ d # c => call'[d] = call[d]
        BY <2>p, <2>s, <3>3 DEF Bound
      <4> QED BY <2>1, <2>4, <3>1, <3>3, <4>1, KeyStep DEF Bound
    <3> QED BY <2>8, <3>2, <3>3 DEF Register
  <2>9. CASE Lookup(c)
    <3>1. call[c].at = "lookup" /\ UNCHANGED <<row, cleared, posted, paid>>
      BY <2>9 DEF Lookup, At, tables
    <3>2. CASE Go(c, "done") /\ UNCHANGED unguarded
      <4>1. /\ call' \in CallType /\ call'[c].at = "done" /\ call'[c].result = call[c].result
            /\ \A d \in Call : /\ call'[d].quote = call[d].quote /\ call'[d].key = call[d].key
                               /\ d # c => call'[d] = call[d]
        BY <2>p, <2>s, <3>2 DEF Bound
      <4> QED BY <2>1, <2>4, <3>1, <3>2, <4>1, KeyStep DEF Bound
    <3>3. CASE row[k] \in {"OK", "FAILED"} /\ Answer(c, row[k]) /\ UNCHANGED unguarded
      <4>1. row[k] = "OK" => <<q, k>> \in paid
        <5> SUFFICES ASSUME row[k] = "OK" PROVE <<q, k>> \in paid
          OBVIOUS
        <5>1. PICK p \in Quote : <<p, k>> \in paid
          BY <2>2 DEF IInv, RowsKnow
        <5>2. quote[p].key = k
          BY <5>1 DEF IInv, QuotePaysUnderItsKey
        <5>3. p = q
          BY <1>c, <2>2, <2>k, <3>1, <5>2 DEF IInv, OneQuotePerKey, Bound
        <5> QED BY <5>1, <5>3
      <4> DEFINE b == row[k]
      <4>2. b \in Result /\ b # "NONE" /\ Conclude(c, "answer", b)
        BY <3>3 DEF Answer, Result
      <4> HIDE DEF b
      <4>3. b = "OK" => <<q, k>> \in paid
        BY <4>1 DEF b
      <4>4. /\ call' \in CallType /\ call'[c].at = "answer" /\ call'[c].result = b
            /\ \A d \in Call : /\ call'[d].quote = call[d].quote /\ call'[d].key = call[d].key
                               /\ d # c => call'[d] = call[d]
        BY <2>p, <2>s, <4>2 DEF Bound
      <4> QED BY <2>1, <2>4, <3>1, <3>3, <4>2, <4>3, <4>4, KeyStep DEF Bound
    <3>4. CASE Go(c, "paying") /\ unguarded' = [unguarded EXCEPT ![k] = @ + 1]
      <4>1. /\ unguarded' \in [Key -> Nat] /\ cleared' \in [Key -> Nat]
            /\ row' \in [Key -> {"NONE", "PROCESSING", "OK", "FAILED"}]
            /\ unguarded'[k] = unguarded[k] + 1 /\ \A j \in Key : unguarded'[j] >= unguarded[j]
        BY <1>t, <2>2, <3>1, <3>4
      <4>2. \A j \in Key : cleared[j] \in Nat /\ unguarded[j] \in Nat /\ unguarded'[j] \in Nat
                           /\ cleared'[j] = cleared[j] /\ row'[j] = row[j]
        BY <1>t, <3>1, <4>1
      <4>3. /\ \A j \in Key : Passes(j)' >= Passes(j)
            /\ Passes(k)' >= Passes(k) + 1
        <5>1. Passes(k)' >= Passes(k) + 1 /\ Passes(k)' >= Passes(k)
          BY <2>2, <4>1, <4>2 DEF Passes
        <5>2. ASSUME NEW j \in Key, j # k PROVE Passes(j)' >= Passes(j)
          <6>1. CASE row[j] = "NONE"
            BY <4>1, <4>2, <5>2, <6>1 DEF Passes
          <6>2. CASE row[j] # "NONE"
            BY <4>1, <4>2, <5>2, <6>2 DEF Passes
          <6> QED BY <6>1, <6>2
        <5> QED BY <5>1, <5>2
      <4>4. /\ call' \in CallType /\ call'[c].at = "paying" /\ call'[c].result = call[c].result
            /\ \A d \in Call : /\ call'[d].quote = call[d].quote /\ call'[d].key = call[d].key
                               /\ d # c => call'[d] = call[d]
        BY <2>p, <2>s, <3>4 DEF Bound
      <4> QED BY <2>1, <2>2, <3>1, <3>4, <4>1, <4>3, <4>4, KeyStep DEF Bound
    <3> QED BY <2>9, <3>2, <3>3, <3>4 DEF Lookup
  <2>10. CASE Refuse(c) \/ Disown(c)
    <3>1. /\ call[c].at \in {"paying", "posted", "saved"} /\ Conclude(c, "answer", "FAILED")
          /\ row' = Kept(k, "FAILED") /\ UNCHANGED <<cleared, unguarded, posted, paid>>
      BY <2>10 DEF Refuse, Disown, At, Answer, history
    <3>2. /\ call' \in CallType /\ call'[c].at = "answer" /\ call'[c].result = "FAILED"
          /\ \A d \in Call : /\ call'[d].quote = call[d].quote /\ call'[d].key = call[d].key
                             /\ d # c => call'[d] = call[d]
      BY <2>p, <2>s, <3>1 DEF Bound
    <3> QED BY <2>1, <2>3, <2>5, <3>1, <3>2, KeyStep DEF Bound
  <2>11. CASE Challenge(c) \/ Stumble(c)
    <3>1. /\ call[c].at \in {"paying", "posted"} /\ ClearKey(k) /\ UNCHANGED <<unguarded, posted, paid>>
          /\ \E b \in {"FAILED", "CHALLENGE"} : Conclude(c, "answer", b)
      BY <2>11 DEF Challenge, Stumble, At, Answer
    <3>2. PICK b \in {"FAILED", "CHALLENGE"} : Conclude(c, "answer", b)
      BY <3>1
    <3>3. /\ call' \in CallType /\ call'[c].at = "answer" /\ call'[c].result = b
          /\ \A d \in Call : /\ call'[d].quote = call[d].quote /\ call'[d].key = call[d].key
                             /\ d # c => call'[d] = call[d]
      BY <2>p, <2>s, <3>2 DEF Bound
    <3> QED BY <2>1, <2>6, <3>1, <3>3, KeyStep DEF Bound
  <2>12. CASE Post(c)
    <3>1. /\ call[c].at = "paying" /\ Go(c, "posted") /\ UNCHANGED <<row, cleared, unguarded>>
          /\ posted' = [posted EXCEPT ![k] = @ + 1] /\ paid' = paid \cup {<<q, k>>}
      BY <2>12 DEF Post, At, tables
    <3>2. /\ call' \in CallType /\ call'[c].at = "posted" /\ call'[c].result = call[c].result
          /\ \A d \in Call : /\ call'[d].quote = call[d].quote /\ call'[d].key = call[d].key
                             /\ d # c => call'[d] = call[d]
      BY <2>p, <2>s, <3>1 DEF Bound
    <3> QED BY <2>1, <2>4, <3>1, <3>2, KeyStep DEF Bound
  <2>13. CASE Save(c)
    <3>1. /\ call[c].at = "posted" /\ Conclude(c, "saved", "OK")
          /\ row' = Kept(k, "OK") /\ UNCHANGED <<cleared, unguarded, posted, paid>>
      BY <2>13 DEF Save, At, history
    <3>2. /\ call' \in CallType /\ call'[c].at = "saved" /\ call'[c].result = "OK"
          /\ \A d \in Call : /\ call'[d].quote = call[d].quote /\ call'[d].key = call[d].key
                             /\ d # c => call'[d] = call[d]
      BY <2>p, <2>s, <3>1 DEF Bound
    <3> QED BY <2>1, <2>3, <2>5, <2>k, <3>1, <3>2, KeyStep DEF Bound
  <2> QED BY <1>3, <2>7, <2>8, <2>9, <2>10, <2>11, <2>12, <2>13
<1>4. ASSUME UNCHANGED vars PROVE IInv'
  BY <1>4 DEF vars, tables, history, IInv, PaymentTypeOK, QuotePaysUnderItsKey, SettledIsPaid,
     OneQuotePerKey, CallsKnow, RowsKnow, Budget, Paying, Passes
<1> QED BY <1>1, <1>2, <1>3, <1>4 DEF Next

(* The strengthened invariant: a key confirms one quote, a bound call        *)
(* carries the key of its quote, and each call that may post was let through *)
(* by the key's row, by a clearing of it or by a lookup that found none.     *)
THEOREM Inductive == PaymentSpec => []IInv
BY InitIInv, StepIInv, PTL DEF PaymentSpec

(* The variables keep their types, and a confirmed quote its key.            *)
THEOREM PaymentTypes == PaymentSpec => []PaymentTypeOK
<1>1. IInv => PaymentTypeOK
  BY DEF IInv
<1> QED BY <1>1, Inductive, PTL

(* A quote is only ever paid under the key that confirmed it.                *)
THEOREM QuoteKeepsItsKey == PaymentSpec => []QuotePaysUnderItsKey
<1>1. IInv => QuotePaysUnderItsKey
  BY DEF IInv
<1> QED BY <1>1, Inductive, PTL

(* Settled quotes, and keys that answer with success, were paid.             *)
THEOREM SettledWasPaid == PaymentSpec => []SettledIsPaid
<1>1. IInv => SettledIsPaid
  BY DEF IInv
<1> QED BY <1>1, Inductive, PTL

(* A key posts once, and once more at most for each time its row was cleared *)
(* or was not there to be found.                                             *)
THEOREM PostingsBounded == PaymentSpec => []PostingsAccounted
<1>1. IInv => PostingsAccounted
  <2> SUFFICES ASSUME IInv, NEW k \in Key
               PROVE  posted[k] <= 1 + cleared[k] + unguarded[k]
    BY DEF PostingsAccounted
  <2>1. Paying(k) \in SUBSET Call
    BY DEF Paying
  <2>2. Cardinality(Paying(k)) \in Nat
    BY <2>1, FS_Subset, FS_CardinalityType, PaymentAssumption
  <2>3. posted[k] \in Nat /\ cleared[k] \in Nat /\ unguarded[k] \in Nat
    BY DEF IInv, PaymentTypeOK
  <2>4. posted[k] + Cardinality(Paying(k)) <= cleared[k] + unguarded[k] + (IF row[k] = "NONE" THEN 0 ELSE 1)
    BY DEF IInv, Budget, Passes
  <2> QED BY <2>2, <2>3, <2>4
<1> QED BY <1>1, Inductive, PTL
=============================================================================
