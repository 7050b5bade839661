------------------------ MODULE ProviderEvents_proofs ------------------------
(***************************************************************************)
(* Proofs about ProviderEvents, for any movements, reports, keys and       *)
(* deliveries and any number of faults, parse failures and crashes.        *)
(***************************************************************************)
EXTENDS ProviderEvents, FiniteSetTheorems, TLAPS

Calls == [Call -> [at : Stage, report : Report \cup {NoReport}, again : BOOLEAN]]
Receipts == [Key -> Handled \cup {"NONE", "received", "failed"}]
Movements == [Movement -> [status : {"NONE", "initiated", "recorded", "processing",
                                     "failed", "completed"}, paid : BOOLEAN]]

\* What a delivery knows of the report it carries.
Carries(c) ==
    /\ call[c].at # "idle" => call[c].report \in Report /\ receipt[KeyOf(c)] # "NONE"
    /\ call[c].at \in Applying \cup {"parse", "claim"} =>
           (ReportOf[call[c].report].route = "signed" => ReportOf[call[c].report].genuine)
    /\ call[c].at \in {"post", "posted"} => Says(c) = "completed"
    /\ call[c].at = "write" => RecordOnly(Of(c)) \/ Says(c) # "completed"
    /\ call[c].at = "posted" => call[c].report \in moved
Carried == \A c \in Call : Carries(c)

\* A receipt that can still be claimed counts as one more that may apply.
Open(k) == IF receipt[k] \in Handled THEN 0 ELSE 1
\* Deliveries that may still post, or will let another one post again.
Spending == {"find", "write", "post", "failed"}
Spenders(k) == {c \in Call : call[c].at \in Spending /\ KeyOf(c) = k}

Claims == \A k \in Key : Cardinality(Appliers(k)) + Open(k) <= 1 + unparsed[k]
Budget ==
    \A k \in Key :
        Cardinality(Spenders(k)) + Open(k) + posted[k] <= 1 + faults[k] + unparsed[k]

IInv ==
    /\ ProviderTypeOK
    /\ Carried
    /\ GenuineBeforeMoney
    /\ Claims
    /\ Budget

\* How many a call counts for.
Count(at, stages) == IF at \in stages THEN 1 ELSE 0

\* How the size of a finite set changes with one element.
LEMMA Sizes ==
    ASSUME NEW S, IsFiniteSet(S), NEW T, NEW x, S \ {x} = T \ {x}
    PROVE  /\ Cardinality(S) \in Nat /\ Cardinality(T) \in Nat
           /\ x \in S /\ x \in T => Cardinality(T) = Cardinality(S)
           /\ x \in S /\ x \notin T => Cardinality(T) = Cardinality(S) - 1
           /\ x \notin S /\ x \in T => Cardinality(T) = Cardinality(S) + 1
           /\ x \notin S /\ x \notin T => Cardinality(T) = Cardinality(S)
<1>1. Cardinality(S) \in Nat
  BY FS_CardinalityType
<1>2. CASE x \in S /\ x \in T
  <2>1. T = S
    BY <1>2
  <2> QED BY <1>1, <1>2, <2>1
<1>3. CASE x \in S /\ x \notin T
  <2>1. T = S \ {x}
    BY <1>3
  <2>2. IsFiniteSet(T) /\ Cardinality(T) = Cardinality(S) - 1
    BY <1>3, <2>1, FS_RemoveElement
  <2> QED BY <1>1, <1>3, <2>2, FS_CardinalityType
<1>4. CASE x \notin S /\ x \in T
  <2>1. T = S \cup {x}
    BY <1>4
  <2>2. IsFiniteSet(T) /\ Cardinality(T) = Cardinality(S) + 1
    BY <1>4, <2>1, FS_AddElement
  <2> QED BY <1>1, <1>4, <2>2, FS_CardinalityType
<1>5. CASE x \notin S /\ x \notin T
  <2>1. T = S
    BY <1>5
  <2> QED BY <1>1, <1>5, <2>1
<1> QED BY <1>2, <1>3, <1>4, <1>5

\* A call c enters or leaves some stages: the calls at them, under its key k,
\* change by that one, and those under another key stay.
LEMMA Counted ==
    ASSUME NEW c \in Call, NEW k \in Key, NEW j \in Key, NEW stages, "idle" \notin stages,
           \A d \in Call \ {c} : call'[d] = call[d],
           call[c].at # "idle" => KeyOf(c) = k, KeyOf(c)' = k
    PROVE  LET S == {d \in Call : call[d].at \in stages /\ KeyOf(d) = j}
               T == {d \in Call : call'[d].at \in stages /\ KeyOf(d)' = j}
           IN  /\ Cardinality(S) \in Nat /\ Cardinality(T) \in Nat
               /\ j # k => Cardinality(T) = Cardinality(S)
               /\ j = k => Cardinality(T) + Count(call[c].at, stages)
                              = Cardinality(S) + Count(call'[c].at, stages)
<1> DEFINE S == {d \in Call : call[d].at \in stages /\ KeyOf(d) = j}
           T == {d \in Call : call'[d].at \in stages /\ KeyOf(d)' = j}
<1>1. S \in SUBSET Call
  OBVIOUS
<1>2. IsFiniteSet(S)
  BY <1>1, FS_Subset, ProviderAssumption
<1>3. \A d \in Call \ {c} : d \in S <=> d \in T
  BY DEF KeyOf
<1>4. S \ {c} = T \ {c}
  BY <1>3
<1>5. c \in S <=> call[c].at \in stages /\ j = k
  OBVIOUS
<1>6. c \in T <=> call'[c].at \in stages /\ j = k
  OBVIOUS
<1> HIDE DEF S, T
<1>7. /\ Cardinality(S) \in Nat /\ Cardinality(T) \in Nat
      /\ c \in S /\ c \in T => Cardinality(T) = Cardinality(S)
      /\ c \in S /\ c \notin T => Cardinality(T) = Cardinality(S) - 1
      /\ c \notin S /\ c \in T => Cardinality(T) = Cardinality(S) + 1
      /\ c \notin S /\ c \notin T => Cardinality(T) = Cardinality(S)
  BY <1>2, <1>4, Sizes
<1>8. /\ j # k => Cardinality(T) = Cardinality(S)
      /\ j = k => Cardinality(T) + Count(call[c].at, stages)
                     = Cardinality(S) + Count(call'[c].at, stages)
  BY <1>5, <1>6, <1>7 DEF Count
<1> QED BY <1>7, <1>8 DEF S, T

\* A call that moves on keeps its report, and the other calls keep all.
LEMMA Moves ==
    ASSUME ProviderTypeOK, NEW c \in Call, NEW s \in Stage, Go(c, s)
    PROVE  /\ call' \in Calls
           /\ call'[c].at = s /\ call'[c].report = call[c].report
           /\ \A d \in Call \ {c} : call'[d] = call[d]
BY DEF Go, ProviderTypeOK, Calls

\* The invariant holds before the first report.
LEMMA InitIInv == Init => IInv
<1> SUFFICES ASSUME Init PROVE IInv
  OBVIOUS
<1> USE DEF Init, Idle
<1>1. ProviderTypeOK
  BY ProviderAssumption DEF ProviderTypeOK, Stage, Handled, Settled
<1>2. Carried /\ GenuineBeforeMoney
  BY DEF Carried, Carries, GenuineBeforeMoney, Applying
<1>3. ASSUME NEW k \in Key
      PROVE  /\ Cardinality(Appliers(k)) + Open(k) <= 1 + unparsed[k]
             /\ Cardinality(Spenders(k)) + Open(k) + posted[k] <= 1 + faults[k] + unparsed[k]
  <2>1. Appliers(k) = {} /\ Spenders(k) = {}
    BY DEF Appliers, Applying, Spenders, Spending
  <2>2. Open(k) = 1
    BY DEF Open, Handled
  <2> QED BY <2>1, <2>2, FS_EmptySet
<1> QED BY <1>1, <1>2, <1>3 DEF IInv, Claims, Budget

\* A step that moves no delivery, no receipt and no money.
LEMMA QuietStep ==
    ASSUME IInv, UNCHANGED <<receipt, call, books, bounds>>, ProviderTypeOK'
    PROVE  IInv'
<1> USE DEF IInv, books, bounds
<1>1. Carried'
  BY DEF Carried, Carries, Of, Says, KeyOf, RecordOnly
<1>2. GenuineBeforeMoney'
  BY DEF GenuineBeforeMoney
<1>3. Claims' /\ Budget'
  BY DEF Claims, Budget, Appliers, Spenders, Open, KeyOf
<1> QED BY <1>1, <1>2, <1>3

\* A movement is made or reaped, a replay key runs out.
LEMMA MovementsStep ==
    ASSUME IInv, NEW m \in Movement, Initiate(m) \/ ReapRead(m) \/ ReapWrite(m)
    PROVE  IInv'
<1>1. UNCHANGED <<receipt, remembered, call, books, bounds>>
  BY DEF Initiate, ReapRead, ReapWrite, rows
<1>2. movement \in Movements /\ reaping \subseteq Movement
  BY DEF IInv, ProviderTypeOK, Movements
<1>3. /\ movement' \in Movements /\ reaping' \subseteq Movement
      /\ \A n \in Movement : Settled(n)' => Settled(n)
  <2>1. CASE Initiate(m)
    BY <1>2, <2>1 DEF Initiate, Settled, Movements
  <2>2. CASE ReapRead(m)
    BY <1>2, <2>2 DEF ReapRead, Settled, rows
  <2>3. CASE ReapWrite(m)
    BY <1>2, <2>3 DEF ReapWrite, Settled, Movements
  <2> QED BY <2>1, <2>2, <2>3
<1>4. ProviderTypeOK'
  BY <1>1, <1>3 DEF IInv, ProviderTypeOK, Movements, books, bounds
<1> QED BY <1>1, <1>4, QuietStep

LEMMA ForgetStep ==
    ASSUME IInv, NEW k \in Key, Forget(k)
    PROVE  IInv'
<1>1. UNCHANGED <<rows, call, reaping, books, bounds>> /\ remembered' \subseteq Key
  BY DEF Forget, IInv, ProviderTypeOK
<1>2. ProviderTypeOK'
  BY <1>1 DEF IInv, ProviderTypeOK, Settled, rows, books, bounds
<1> QED BY <1>1, <1>2, QuietStep DEF rows

\* A step of one delivery, under its key. The last two hypotheses are what it
\* does to the counts of that key: nothing may be gained without a parse
\* failure, or for the postings a fault.
LEMMA DeliveryStep ==
    ASSUME IInv, NEW c \in Call, NEW k \in Key, call' \in Calls,
           \A d \in Call \ {c} : call'[d] = call[d],
           call[c].at # "idle" => KeyOf(c) = k, KeyOf(c)' = k,
           Carries(c)', receipt' \in Receipts, receipt'[k] # "NONE",
           \A j \in Key \ {k} : /\ receipt'[j] = receipt[j] /\ posted'[j] = posted[j]
                                 /\ faults'[j] = faults[j] /\ unparsed'[j] = unparsed[j],
           remembered' \subseteq Key, reaping' = reaping, movement' \in Movements,
           posted' \in [Key -> Nat], faults' \in [Key -> Nat], unparsed' \in [Key -> Nat],
           crashes' \in Nat, moved \subseteq moved', moved' \subseteq Report,
           \A r \in moved' \ moved : /\ ReportOf[r].says = "completed" /\ ReportOf[r].key = k
                                     /\ ReportOf[r].route = "signed" => ReportOf[r].genuine,
           \A m \in Movement : Settled(m)' => \/ Settled(m) \/ DirectionOf[m] = "RECORD"
                                              \/ \E r \in moved : ReportOf[r].of = m,
           Count(call'[c].at, Applying) + Open(k)' + unparsed[k]
               <= Count(call[c].at, Applying) + Open(k) + unparsed'[k],
           Count(call'[c].at, Spending) + Open(k)' + posted'[k] + faults[k] + unparsed[k]
               <= Count(call[c].at, Spending) + Open(k) + posted[k] + faults'[k] + unparsed'[k]
    PROVE  IInv'
<1> USE DEF IInv
<1>1. ProviderTypeOK'
  <2>1. \A m \in Movement : Settled(m)' => \/ DirectionOf[m] = "RECORD"
                                           \/ \E r \in moved' : ReportOf[r].of = m
    BY DEF ProviderTypeOK
  <2>2. reaping' \subseteq Movement
    BY DEF ProviderTypeOK
  <2> QED BY <2>1, <2>2 DEF ProviderTypeOK, Calls, Receipts, Movements
<1>2. Carried'
  <2> SUFFICES ASSUME NEW d \in Call, d # c PROVE Carries(d)'
    BY DEF Carried
  <2>1. Carries(d) /\ call'[d] = call[d]
    BY DEF Carried
  <2>2. call[d].report \in Report => KeyOf(d) \in Key
    BY ProviderAssumption DEF KeyOf
  <2> QED BY <2>1, <2>2 DEF Carries, Of, Says, KeyOf, RecordOnly
<1>3. GenuineBeforeMoney'
  <2> SUFFICES ASSUME NEW r \in moved'
               PROVE  /\ ReportOf[r].says = "completed" /\ receipt'[ReportOf[r].key] # "NONE"
                      /\ ReportOf[r].route = "signed" => ReportOf[r].genuine
    BY DEF GenuineBeforeMoney
  <2>1. r \in Report /\ ReportOf[r].key \in Key
    BY ProviderAssumption
  <2> QED BY <2>1 DEF GenuineBeforeMoney
<1>4. ASSUME NEW j \in Key
      PROVE  /\ Cardinality(Appliers(j)') + Open(j)' <= 1 + unparsed'[j]
             /\ Cardinality(Spenders(j)') + Open(j)' + posted'[j] <= 1 + faults'[j] + unparsed'[j]
  <2> DEFINE A == Appliers(j)  B == Appliers(j)'  S == Spenders(j)  T == Spenders(j)'
  <2>1. /\ Cardinality(A) \in Nat /\ Cardinality(B) \in Nat
        /\ j # k => Cardinality(B) = Cardinality(A)
        /\ j = k => Cardinality(B) + Count(call[c].at, Applying)
                       = Cardinality(A) + Count(call'[c].at, Applying)
    <3>1. "idle" \notin Applying
      BY DEF Applying
    <3> QED BY <3>1, Counted DEF Appliers
  <2>2. /\ Cardinality(S) \in Nat /\ Cardinality(T) \in Nat
        /\ j # k => Cardinality(T) = Cardinality(S)
        /\ j = k => Cardinality(T) + Count(call[c].at, Spending)
                       = Cardinality(S) + Count(call'[c].at, Spending)
    <3>1. "idle" \notin Spending
      BY DEF Spending
    <3> QED BY <3>1, Counted DEF Spenders
  <2>3. /\ Cardinality(A) + Open(j) <= 1 + unparsed[j]
        /\ Cardinality(S) + Open(j) + posted[j] <= 1 + faults[j] + unparsed[j]
    BY DEF Claims, Budget
  <2>4. /\ posted[j] \in Nat /\ faults[j] \in Nat /\ unparsed[j] \in Nat
        /\ posted'[j] \in Nat /\ faults'[j] \in Nat /\ unparsed'[j] \in Nat
    BY DEF ProviderTypeOK
  <2>5. /\ Open(j) \in Nat /\ Open(j)' \in Nat
        /\ j # k => Open(j)' = Open(j)
    BY DEF Open
  <2>6. \A x, y : Count(x, y) \in Nat
    BY DEF Count
  <2> HIDE DEF A, B, S, T
  <2>7. CASE j = k
    BY <2>1, <2>2, <2>3, <2>4, <2>5, <2>6, <2>7 DEF A, B, S, T
  <2>8. CASE j # k
    BY <2>1, <2>2, <2>3, <2>4, <2>5, <2>8 DEF A, B, S, T
  <2> QED BY <2>7, <2>8
<1> QED BY <1>1, <1>2, <1>3, <1>4 DEF Claims, Budget

\* What the type invariant says of the values before a step.
LEMMA Typed ==
    ASSUME IInv
    PROVE  /\ call \in Calls /\ receipt \in Receipts /\ movement \in Movements
           /\ remembered \subseteq Key /\ moved \subseteq Report /\ crashes \in Nat
           /\ posted \in [Key -> Nat] /\ faults \in [Key -> Nat] /\ unparsed \in [Key -> Nat]
           /\ \A r \in Report : /\ ReportOf[r].key \in Key /\ ReportOf[r].of \in Movement
                                 /\ ReportOf[r].says \in {"completed", "processing", "failed"}
BY ProviderAssumption DEF IInv, ProviderTypeOK, Calls, Receipts, Movements

\* A call past its start has a report, and a key of its own.
LEMMA Keyed ==
    ASSUME IInv, NEW c \in Call, call[c].at # "idle"
    PROVE  /\ call[c].report \in Report /\ receipt[KeyOf(c)] # "NONE" /\ KeyOf(c) \in Key
           /\ Of(c) \in Movement /\ Says(c) \in {"completed", "processing", "failed"}
           /\ Carries(c)
<1>1. Carries(c)
  BY DEF IInv, Carried
<1>2. call[c].report \in Report /\ receipt[KeyOf(c)] # "NONE"
  BY <1>1 DEF Carries
<1> QED BY <1>1, <1>2, Typed DEF KeyOf, Of, Says

LEMMA ReceiveStep ==
    ASSUME IInv, NEW c \in Call, NEW r \in Report, Receive(c, r)
    PROVE  IInv'
<1> DEFINE k == ReportOf[r].key
           s == IF receipt[k] \in Handled THEN "done" ELSE Route(r)
<1>1. k \in Key /\ s \in {"verify", "claim", "done"}
  BY Typed DEF Route
<1>2. s = "claim" => ReportOf[r].route # "signed"
  BY DEF Route
<1>3. /\ receipt' = [receipt EXCEPT ![k] = IF @ = "NONE" THEN "received" ELSE @]
      /\ call' = [call EXCEPT ![c] = [at |-> s, report |-> r, again |-> FALSE]]
      /\ call[c].at = "idle"
      /\ UNCHANGED <<movement, remembered, reaping, books, bounds>>
  BY DEF Receive, At
<1> HIDE DEF k, s
<1>4. /\ call' \in Calls /\ call'[c].at = s /\ call'[c].report = r
      /\ \A d \in Call \ {c} : call'[d] = call[d]
  BY <1>1, <1>3, Typed DEF Calls, Stage
<1>5. KeyOf(c)' = k
  BY <1>4 DEF KeyOf, k
<1>6. /\ receipt' \in Receipts /\ receipt'[k] # "NONE" /\ Open(k)' = Open(k)
      /\ \A j \in Key \ {k} : receipt'[j] = receipt[j]
  BY <1>1, <1>3, Typed DEF Receipts, Open, Handled
<1>7. Carries(c)'
  BY <1>1, <1>2, <1>4, <1>5, <1>6 DEF Carries, Applying
<1>8. /\ Count(call'[c].at, Applying) = 0 /\ Count(call'[c].at, Spending) = 0
      /\ Count(call[c].at, Applying) = 0 /\ Count(call[c].at, Spending) = 0
  BY <1>1, <1>3, <1>4 DEF Count, Applying, Spending
<1>9. posted[k] \in Nat /\ faults[k] \in Nat /\ unparsed[k] \in Nat /\ Open(k) \in Nat
  BY <1>1, Typed DEF Open
<1>10. UNCHANGED <<movement, remembered, reaping, moved, posted, faults, unparsed, crashes>>
  BY <1>3 DEF books, bounds
<1>11. \A m \in Movement : Settled(m)' => Settled(m)
  BY <1>10 DEF Settled
<1>12. /\ Count(call'[c].at, Applying) + Open(k)' + unparsed[k]
              <= Count(call[c].at, Applying) + Open(k) + unparsed'[k]
       /\ Count(call'[c].at, Spending) + Open(k)' + posted'[k] + faults[k] + unparsed[k]
              <= Count(call[c].at, Spending) + Open(k) + posted[k] + faults'[k] + unparsed'[k]
  BY <1>6, <1>8, <1>9, <1>10
<1> QED BY <1>1, <1>3, <1>4, <1>5, <1>6, <1>7, <1>10, <1>11, <1>12, Typed, DeliveryStep

\* A delivery on its way to the claim, or closing its receipt.
LEMMA ReceiptStep ==
    ASSUME IInv, NEW c \in Call,
           Verify(c) \/ Reject(c) \/ Parse(c) \/ ParseFails(c) \/ Claim(c) \/ Finish(c)
    PROVE  IInv'
<1>1. /\ call[c].at \in {"verify", "reject", "parse", "claim", "applied", "failed"}
      /\ call[c].at # "idle"
  BY DEF Verify, Reject, Parse, ParseFails, Claim, Finish, At
<1>k. PICK k \in Key : k = KeyOf(c)
  BY <1>1, Keyed
<1>2. /\ call[c].report \in Report /\ receipt[k] # "NONE" /\ Carries(c)
  BY <1>1, <1>k, Keyed
<1>3. PICK t \in {"parse", "reject", "claim", "find", "done"} : Go(c, t)
  BY DEF Verify, Reject, Parse, ParseFails, Claim, Finish
<1>4. /\ call' \in Calls /\ call'[c].at = t /\ call'[c].report = call[c].report
      /\ \A d \in Call \ {c} : call'[d] = call[d]
      /\ \A x \in Stage : Go(c, x) => x = t
  BY <1>3, Moves DEF IInv, Stage
<1>5. KeyOf(c)' = k
  BY <1>4, <1>k DEF KeyOf
<1>6. /\ UNCHANGED <<movement, reaping, books, faults, crashes>>
      /\ remembered' \subseteq Key
  BY <1>2, <1>k, Typed DEF Verify, Reject, Parse, ParseFails, Claim, Finish, rows, bounds, KeyOf
<1> DEFINE u == receipt'[k]
\* What each step does to the receipt and to the parse failures of its key.
<1>7. /\ receipt' = [receipt EXCEPT ![k] = u]
      /\ \/ /\ t \notin {"find"} /\ u = receipt[k] /\ UNCHANGED unparsed
            /\ call[c].at \notin {"applied", "failed"}
         \/ t = "done" /\ u = "rejected" /\ UNCHANGED unparsed
         \/ /\ t = "done" /\ u = "failed" /\ unparsed' = [unparsed EXCEPT ![k] = @ + 1]
            /\ call[c].at = "parse"
         \/ /\ t = "find" /\ receipt[k] \in {"received", "failed"} /\ u = "processing"
            /\ UNCHANGED unparsed /\ call[c].at = "claim"
         \/ /\ t = "done" /\ u = call[c].at /\ UNCHANGED unparsed
            /\ call[c].at \in {"applied", "failed"}
      /\ t \in {"parse", "claim", "find"} =>
             (ReportOf[call[c].report].route = "signed" => ReportOf[call[c].report].genuine)
  <2>1. \A f \in Receipts : f = [f EXCEPT ![k] = f[k]]
    BY <1>2 DEF Receipts
  <2> USE <1>2, <1>k, <1>4, <2>1, Typed DEF Stage
  <2>2. CASE Verify(c)
    BY <2>2 DEF Verify, rows, bounds, At, KeyOf
  <2>3. CASE Reject(c)
    BY <2>3 DEF Reject, Receipts, bounds, KeyOf
  <2>4. CASE Parse(c)
    BY <2>4 DEF Parse, rows, bounds, At, Carries
  <2>5. CASE ParseFails(c)
    BY <2>5 DEF ParseFails, Receipts, At
  <2>6. CASE Claim(c)
    BY <2>6 DEF Claim, Claimable, Receipts, rows, bounds, At, Carries
  <2>7. CASE Finish(c)
    BY <2>7 DEF Finish, Receipts, bounds, At
  <2> QED BY <2>2, <2>3, <2>4, <2>5, <2>6, <2>7
<1> HIDE DEF u
<1>8. /\ receipt' \in Receipts /\ receipt'[k] # "NONE"
      /\ \A j \in Key \ {k} : receipt'[j] = receipt[j] /\ unparsed'[j] = unparsed[j]
      /\ unparsed' \in [Key -> Nat]
  <2>1. u \in Handled \cup {"received", "failed"} /\ u # "NONE"
    BY <1>2, <1>7, Typed DEF Handled, Receipts, u
  <2> QED BY <1>2, <1>7, <2>1, Typed DEF Receipts, u
<1>9. Carries(c)'
  BY <1>2, <1>4, <1>5, <1>7, <1>8 DEF Carries, Applying
<1>10. /\ Count(call'[c].at, Applying) + Open(k)' + unparsed[k]
              <= Count(call[c].at, Applying) + Open(k) + unparsed'[k]
       /\ Count(call'[c].at, Spending) + Open(k)' + posted'[k] + faults[k] + unparsed[k]
              <= Count(call[c].at, Spending) + Open(k) + posted[k] + faults'[k] + unparsed'[k]
  <2>1. posted[k] \in Nat /\ faults[k] \in Nat /\ unparsed[k] \in Nat
    BY <1>2, Typed
  <2>2. posted'[k] = posted[k] /\ faults'[k] = faults[k] /\ u = receipt'[k]
    BY <1>6 DEF books, u
  <2>3. unparsed'[k] = unparsed[k] \/ unparsed'[k] = unparsed[k] + 1
    BY <1>2, <1>7, Typed
  <2> QED BY <1>1, <1>4, <1>7, <2>1, <2>2, <2>3, <1>2, Typed
      DEF Count, Applying, Spending, Open, Handled, Receipts, u
<1> QED BY <1>k, <1>1, <1>2, <1>4, <1>5, <1>6, <1>8, <1>9, <1>10, Typed, DeliveryStep
    DEF books, Settled

\* A delivery that applies its report, before it closes the receipt.
LEMMA ApplyingStep ==
    ASSUME IInv, NEW c \in Call,
           Find(c) \/ Write(c) \/ Post(c) \/ Complete(c) \/ Throw(c)
    PROVE  IInv'
<1> DEFINE s == call'[c].at
<1>1. call[c].at \in {"find", "write", "post", "posted"} /\ call[c].at # "idle"
  BY DEF Find, Write, Post, Complete, Throw, At
<1>k. PICK k \in Key : k = KeyOf(c)
  BY <1>1, Keyed
<1>2. /\ call[c].report \in Report /\ receipt[k] # "NONE" /\ Carries(c)
      /\ Of(c) \in Movement /\ Says(c) \in {"completed", "processing", "failed"}
  BY <1>1, <1>k, Keyed
<1>3. /\ call' \in Calls /\ s \in Applying /\ call'[c].report = call[c].report
      /\ \A d \in Call \ {c} : call'[d] = call[d]
  <2>1. CASE Throw(c)
    <3>1. PICK b \in BOOLEAN, t \in {"find", "failed"} :
             call' = [call EXCEPT ![c] = [at |-> t, report |-> call[c].report, again |-> b]]
      BY <2>1, Typed DEF Throw, Calls
    <3> QED BY <1>2, <3>1, Typed DEF Calls, Stage, Applying
  <2>2. CASE ~ Throw(c)
    <3>1. PICK t \in Applying : Go(c, t)
      BY <2>2 DEF Find, Write, Post, Complete, Applying
    <3>2. t \in Stage
      BY DEF Applying, Stage
    <3> QED BY <3>1, <3>2, Moves DEF IInv
  <2> QED BY <2>1, <2>2
<1>4. KeyOf(c)' = k /\ Says(c)' = Says(c) /\ Of(c)' = Of(c)
  BY <1>k, <1>3 DEF KeyOf, Says, Of
<1>5. UNCHANGED <<receipt, remembered, reaping, unparsed, crashes>>
  BY DEF Find, Write, Post, Complete, Throw, rows, bounds
\* What each step does to the movement, the money and the faults.
<1>6. /\ movement' \in Movements
      /\ \A m \in Movement : Settled(m)' => \/ Settled(m) \/ DirectionOf[m] = "RECORD"
                                             \/ \E r \in moved : ReportOf[r].of = m
      /\ s \in {"post", "posted"} => Says(c) = "completed"
      /\ s = "write" => RecordOnly(Of(c)) \/ Says(c) # "completed"
      /\ \/ s # "posted" /\ call[c].at \in {"find"} /\ UNCHANGED <<books, faults>>
         \/ s = "applied" /\ UNCHANGED <<books, faults>>
         \/ /\ s = "posted" /\ call[c].at = "post" /\ UNCHANGED faults
            /\ posted' = [posted EXCEPT ![k] = @ + 1] /\ moved' = moved \cup {call[c].report}
         \/ /\ s \in {"find", "failed"} /\ UNCHANGED books
            /\ faults' = [faults EXCEPT ![k] = @ + 1]
  <2>0. \A m \in Movement : movement[m] = movement'[m] => (Settled(m)' <=> Settled(m))
    BY DEF Settled
  <2>1. CASE Find(c)
    BY <1>3, <2>0, <2>1, Typed DEF Find, rows, bounds, books, Go, At, Settles, Calls
  <2>2. CASE Write(c)
    <3>1. /\ s = "applied" /\ UNCHANGED <<books, faults>>
          /\ movement' = [movement EXCEPT ![Of(c)].status = Says(c)]
      BY <1>3, <2>2, Typed DEF Write, Go, bounds, Calls
    <3>2. /\ movement' \in Movements
          /\ \A m \in Movement : Settled(m)' => Settled(m) \/ DirectionOf[m] = "RECORD"
      BY <1>2, <2>2, <3>1, Typed DEF Settled, Carries, RecordOnly, Write, At, Movements
    <3> QED BY <3>1, <3>2
  <2>3. CASE Post(c)
    <3>1. s = "posted" /\ call[c].at = "post" /\ Says(c) = "completed"
      BY <1>2, <1>3, <2>3, Typed DEF Post, Go, At, Calls, Carries
    <3> QED BY <1>k, <2>0, <2>3, <3>1, Typed DEF Post, rows, bounds
  <2>4. CASE Complete(c)
    <3>1. /\ s = "applied" /\ UNCHANGED <<books, faults>> /\ call[c].report \in moved
          /\ movement' = [movement EXCEPT ![Of(c)] = [status |-> "completed", paid |-> TRUE]]
      BY <1>2, <1>3, <2>4, Typed DEF Complete, Go, At, bounds, Calls, Carries
    <3>2. /\ movement' \in Movements
          /\ \A m \in Movement \ {Of(c)} : movement'[m] = movement[m]
      BY <1>2, <3>1, Typed DEF Movements
    <3>3. ReportOf[call[c].report].of = Of(c)
      BY DEF Of
    <3> QED BY <2>0, <3>1, <3>2, <3>3
  <2>5. CASE Throw(c)
    <3>1. s \in {"find", "failed"}
      BY <2>5, Typed DEF Throw, Calls
    <3> QED BY <1>k, <2>0, <2>5, <3>1, Typed DEF Throw, rows
  <2> QED BY <2>1, <2>2, <2>3, <2>4, <2>5
<1> HIDE DEF s
<1>7. /\ posted' \in [Key -> Nat] /\ faults' \in [Key -> Nat]
      /\ \A j \in Key \ {k} : posted'[j] = posted[j] /\ faults'[j] = faults[j]
      /\ moved \subseteq moved' /\ moved' \subseteq Report
      /\ \A r \in moved' \ moved : r = call[c].report /\ call[c].at = "post"
  BY <1>2, <1>6, Typed DEF books
<1>8. ReportOf[call[c].report].route = "signed" => ReportOf[call[c].report].genuine
  BY <1>1, <1>2 DEF Carries, Applying
<1>9. \A r \in moved' \ moved :
         /\ ReportOf[r].says = "completed" /\ ReportOf[r].key = k
         /\ ReportOf[r].route = "signed" => ReportOf[r].genuine
  BY <1>k, <1>2, <1>7, <1>8 DEF Carries, Says, KeyOf
<1>10. Carries(c)'
  <2>1. s = "posted" => call[c].report \in moved'
    BY <1>6
  <2> QED BY <1>2, <1>3, <1>4, <1>5, <1>6, <1>8, <2>1 DEF Carries, s, RecordOnly
<1>11. Open(k)' = Open(k) /\ Open(k) \in Nat
  BY <1>5 DEF Open
<1>12. /\ Count(call'[c].at, Applying) + Open(k)' + unparsed[k]
              <= Count(call[c].at, Applying) + Open(k) + unparsed'[k]
       /\ Count(call'[c].at, Spending) + Open(k)' + posted'[k] + faults[k] + unparsed[k]
              <= Count(call[c].at, Spending) + Open(k) + posted[k] + faults'[k] + unparsed'[k]
  <2>1. posted[k] \in Nat /\ faults[k] \in Nat /\ unparsed[k] \in Nat /\ unparsed'[k] = unparsed[k]
    BY <1>2, <1>5, Typed
  <2>2. Count(call'[c].at, Applying) = 1 /\ Count(call[c].at, Applying) = 1
    BY <1>1, <1>3 DEF Count, Applying, s
  <2>3. \/ /\ posted'[k] = posted[k] /\ faults'[k] = faults[k]
           /\ Count(call'[c].at, Spending) <= Count(call[c].at, Spending)
        \/ /\ posted'[k] = posted[k] + 1 /\ faults'[k] = faults[k]
           /\ Count(call'[c].at, Spending) = 0 /\ Count(call[c].at, Spending) = 1
        \/ posted'[k] = posted[k] /\ faults'[k] = faults[k] + 1
    BY <1>2, <1>3, <1>6, Typed DEF Count, Applying, Spending, books, s
  <2>4. Count(call'[c].at, Spending) \in {0, 1} /\ Count(call[c].at, Spending) \in {0, 1}
    BY DEF Count
  <2> QED BY <1>11, <2>1, <2>2, <2>3, <2>4
<1> QED BY <1>k, <1>1, <1>2, <1>3, <1>4, <1>5, <1>6, <1>7, <1>9, <1>10, <1>12, Typed, DeliveryStep

\* A node dies.
LEMMA CrashStep ==
    ASSUME IInv, NEW c \in Call, Crash(c)
    PROVE  IInv'
<1>1. /\ call[c].at # "idle" /\ Go(c, "done") /\ crashes' \in Nat
      /\ UNCHANGED <<rows, remembered, reaping, books, faults, unparsed>>
  BY Typed DEF Crash
<1>k. PICK k \in Key : k = KeyOf(c)
  BY <1>1, Keyed
<1>2. call[c].report \in Report /\ receipt[k] # "NONE"
  BY <1>1, <1>k, Keyed
<1>3. /\ call' \in Calls /\ call'[c].at = "done" /\ call'[c].report = call[c].report
      /\ \A d \in Call \ {c} : call'[d] = call[d]
  BY <1>1, Moves DEF IInv, Stage
<1>4. KeyOf(c)' = k /\ Open(k)' = Open(k) /\ Open(k) \in Nat
  BY <1>k, <1>1, <1>3 DEF KeyOf, Open, rows
<1>5. Carries(c)'
  BY <1>1, <1>2, <1>3, <1>4 DEF Carries, Applying, rows
<1>6. /\ Count(call'[c].at, Applying) = 0 /\ Count(call'[c].at, Spending) = 0
      /\ Count(call[c].at, Applying) \in {0, 1} /\ Count(call[c].at, Spending) \in {0, 1}
  BY <1>3 DEF Count, Applying, Spending
<1>7. posted[k] \in Nat /\ faults[k] \in Nat /\ unparsed[k] \in Nat
  BY <1>2, Typed
<1>8. /\ UNCHANGED <<receipt, movement, reaping, moved, posted, faults, unparsed>>
      /\ remembered' \subseteq Key
  BY <1>1, Typed DEF rows, books
<1>9. /\ Count(call'[c].at, Applying) + Open(k)' + unparsed[k]
              <= Count(call[c].at, Applying) + Open(k) + unparsed'[k]
       /\ Count(call'[c].at, Spending) + Open(k)' + posted'[k] + faults[k] + unparsed[k]
              <= Count(call[c].at, Spending) + Open(k) + posted[k] + faults'[k] + unparsed'[k]
  BY <1>4, <1>6, <1>7, <1>8
<1> QED BY <1>k, <1>1, <1>2, <1>3, <1>4, <1>5, <1>8, <1>9, Typed, DeliveryStep DEF Settled

\* Every step keeps the invariant.
LEMMA StepIInv == IInv /\ [Next]_vars => IInv'
<1> SUFFICES ASSUME IInv, [Next]_vars PROVE IInv'
  OBVIOUS
<1>1. ASSUME NEW m \in Movement, Initiate(m) \/ ReapRead(m) \/ ReapWrite(m) PROVE IInv'
  BY <1>1, MovementsStep
<1>2. ASSUME NEW k \in Key, Forget(k) PROVE IInv'
  BY <1>2, ForgetStep
<1>3. ASSUME NEW c \in Call, NEW r \in Report, Receive(c, r) PROVE IInv'
  BY <1>3, ReceiveStep
<1>4. ASSUME NEW c \in Call,
             Verify(c) \/ Reject(c) \/ Parse(c) \/ ParseFails(c) \/ Claim(c) \/ Finish(c)
      PROVE  IInv'
  BY <1>4, ReceiptStep
<1>5. ASSUME NEW c \in Call, Find(c) \/ Write(c) \/ Post(c) \/ Complete(c) \/ Throw(c)
      PROVE  IInv'
  BY <1>5, ApplyingStep
<1>6. ASSUME NEW c \in Call, Crash(c) PROVE IInv'
  BY <1>6, CrashStep
<1>7. ASSUME UNCHANGED vars PROVE IInv'
  <2>1. UNCHANGED <<receipt, call, books, bounds>> /\ ProviderTypeOK'
    BY <1>7 DEF vars, rows, books, bounds, IInv, ProviderTypeOK, Settled
  <2> QED BY <2>1, QuietStep
<1> QED BY <1>1, <1>2, <1>3, <1>4, <1>5, <1>6, <1>7 DEF Next

(* The strengthened invariant: the deliveries that apply a key's report, and *)
(* its receipt while it can be claimed, are one and the parse failures more; *)
(* each posting under a key is paid for by its one claim, a fault or a parse *)
(* failure; and a delivery past verification may take its report for         *)
(* genuine.                                                                  *)
THEOREM Inductive == ProviderSpec => []IInv
BY InitIInv, StepIInv, PTL DEF ProviderSpec

(* The variables keep their types, and what says it was paid was paid.       *)
THEOREM ProviderTypes == ProviderSpec => []ProviderTypeOK
<1>1. IInv => ProviderTypeOK
  BY DEF IInv
<1> QED BY <1>1, Inductive, PTL

(* What arrives under a key is applied by one delivery at a time, and by one *)
(* more for each delivery of it that parsing stopped.                        *)
THEOREM ClaimIsExclusive == ProviderSpec => []OneClaimAtATime
<1>1. IInv => OneClaimAtATime
  <2> SUFFICES ASSUME IInv, NEW k \in Key PROVE Cardinality(Appliers(k)) <= 1 + unparsed[k]
    BY DEF OneClaimAtATime
  <2>1. Appliers(k) \in SUBSET Call
    BY DEF Appliers
  <2>2. Cardinality(Appliers(k)) \in Nat
    BY <2>1, FS_Subset, FS_CardinalityType, ProviderAssumption
  <2>3. Open(k) \in Nat /\ unparsed[k] \in Nat
    BY Typed DEF Open
  <2> QED BY <2>2, <2>3 DEF IInv, Claims
<1> QED BY <1>1, Inductive, PTL

(* Without a report of completion no money moves, and where signatures are   *)
(* checked, not without a genuine one.                                       *)
THEOREM NoMoneyWithoutReport == ProviderSpec => []GenuineBeforeMoney
<1>1. IInv => GenuineBeforeMoney
  BY DEF IInv
<1> QED BY <1>1, Inductive, PTL

(* Under a key the ledger posts at most once, and once more for each         *)
(* statement that threw and each delivery that parsing stopped, whatever is  *)
(* redelivered, raced or crashed.                                            *)
THEOREM PostingsBounded == ProviderSpec => []PostedPerKey
<1>1. IInv => PostedPerKey
  <2> SUFFICES ASSUME IInv, NEW k \in Key PROVE posted[k] <= 1 + faults[k] + unparsed[k]
    BY DEF PostedPerKey
  <2>1. Spenders(k) \in SUBSET Call
    BY DEF Spenders
  <2>2. Cardinality(Spenders(k)) \in Nat
    BY <2>1, FS_Subset, FS_CardinalityType, ProviderAssumption
  <2>3. Open(k) \in Nat /\ unparsed[k] \in Nat /\ posted[k] \in Nat /\ faults[k] \in Nat
    BY Typed DEF Open
  <2> QED BY <2>2, <2>3 DEF IInv, Budget
<1> QED BY <1>1, Inductive, PTL
=============================================================================
