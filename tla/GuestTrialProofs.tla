----------------------------- MODULE GuestTrialProofs -----------------------------
(* What a guest's rounds, the end of its trial and its conversion guarantee for   *)
(* every set of requests and workers, every stake and payout table, every limit   *)
(* of recent rounds and every number of crashes.                                  *)
EXTENDS GuestTrial, SequenceTheorems, FiniteSetTheorems, WellFoundedInduction, TLAPS

\* A round under way past its wager carries the committed proof, and past its
\* settlement it is paid.
PlaySound ==
  \A w \in Workers :
    /\ At(w, "settle") \/ At(w, "publish") =>
         /\ play[w].multiple \in Multiples
         /\ wagers[play[w].round] = [stake |-> play[w].stake, multiple |-> play[w].multiple]
    /\ At(w, "publish") /\ play[w].multiple # 0 =>
         settlements[play[w].round] = play[w].stake * play[w].multiple

\* A settlement row pays what its round's wager row says.
SettledByWager ==
  \A r \in Rounds : settlements[r] # None =>
    /\ wagers[r] # None
    /\ settlements[r] = wagers[r].stake * wagers[r].multiple

\* The inductive invariant of the rounds.
RoundInv == WagerTypeOK /\ PlaySound /\ SettledByWager /\ PublishedIsPaid

\* A task past its claim runs on a trial that is ending or ended, a task past its
\* adoption on a player that has its account.
TaskSound ==
  \A w \in Workers : task[w] # None =>
    /\ task[w].step \in TeardownSteps \ {"claim"} => status \in {"ending", "ended"}
    /\ task[w].step \in {"complete", "revoke", "close"} => account

\* The guest's status tells who may touch the player.
StatusSound ==
  /\ status \in {"ending", "ended"} => ~account
  /\ status = "converted" => account
  /\ status \in {"active", "converted"} =>
       terminal = None /\ player = "active" /\ analytics # "ended"

\* The inductive invariant of the trial.
TrialInv == TypeOK /\ TaskSound /\ StatusSound

-----------------------------------------------------------------------------------
(* Sums: SumFunction folds over a set in an order nobody chose.  What it gives is  *)
(* settled here by the least counterexample, in the size of the set.               *)

LEMMA LeastNumber ==
    ASSUME NEW T \in SUBSET Nat, T # {} PROVE \E n \in T : \A m \in T : n <= m
<1> DEFINE R == {p \in Nat \X Nat : p[1] < p[2]}
<1>1. IsWellFoundedOn(R, Nat)
  <2>1. R = OpToRel(<, Nat)
    BY DEF OpToRel
  <2> QED BY <2>1, NatLessThanWellFounded
<1>2. PICK n \in T : \A m \in T : <<m, n>> \notin R
  BY <1>1, WFMin
<1>3. ASSUME NEW m \in T PROVE n <= m
  <2>1. ~(<<m, n>> \in R)
    BY <1>2
  <2>2. <<m, n>>[1] = m /\ <<m, n>>[2] = n /\ <<m, n>> \in Nat \X Nat
    OBVIOUS
  <2>3. ~(m < n)
    BY <2>1, <2>2
  <2> QED BY <2>3
<1> QED BY <1>3

Pick(s) == CHOOSE x \in s : TRUE

\* One step of the fold that a sum is.
SumStep(f, g, s) == IF s = {} THEN 0 ELSE f[Pick(s)] + g[s \ {Pick(s)}]
Summing(f, g) == g = [s \in SUBSET DOMAIN f |-> SumStep(f, g, s)]

LEMMA SumUnfolds ==
    ASSUME NEW f, NEW g, Summing(f, g)
    PROVE  \E h : Summing(f, h) /\ SumFunction(f) = h[DOMAIN f]
<1> DEFINE h == CHOOSE iter : iter = [s \in SUBSET DOMAIN f |->
                   IF s = {} THEN 0 ELSE f[CHOOSE x \in s : TRUE] + iter[s \ {CHOOSE x \in s : TRUE}]]
<1>1. SumFunction(f) = h[DOMAIN f]
  BY DEF SumFunction, SumFunctionOnSet, FoldFunctionOnSet, MapThenFoldSet
<1>2. \E iter : iter = [s \in SUBSET DOMAIN f |->
                   IF s = {} THEN 0 ELSE f[CHOOSE x \in s : TRUE] + iter[s \ {CHOOSE x \in s : TRUE}]]
  BY DEF Summing, SumStep, Pick
<1>3. h = [s \in SUBSET DOMAIN f |->
                   IF s = {} THEN 0 ELSE f[CHOOSE x \in s : TRUE] + h[s \ {CHOOSE x \in s : TRUE}]]
  BY <1>2
<1>4. Summing(f, h)
  BY <1>3 DEF Summing, SumStep, Pick
<1> QED BY <1>1, <1>4

LEMMA SubsetCard ==
    ASSUME NEW D, IsFiniteSet(D), NEW s \in SUBSET D
    PROVE  /\ IsFiniteSet(s) /\ Cardinality(s) \in Nat /\ Cardinality(s) <= Cardinality(D)
           /\ s = {} <=> Cardinality(s) = 0
           /\ \A x \in s : Cardinality(s \ {x}) = Cardinality(s) - 1
<1>1. IsFiniteSet(s) /\ Cardinality(s) <= Cardinality(D)
  BY FS_Subset
<1>2. Cardinality(s) \in Nat /\ (s = {} <=> Cardinality(s) = 0)
  BY <1>1, FS_CardinalityType, FS_EmptySet
<1>3. \A x \in s : Cardinality(s \ {x}) = Cardinality(s) - 1
  BY <1>1, FS_RemoveElement
<1> QED BY <1>1, <1>2, <1>3

LEMMA PickIn ==
    ASSUME NEW s, s # {} PROVE Pick(s) \in s
BY DEF Pick

\* The recursion of a sum is well founded: some function carries it out.
LEMMA SumExists ==
    ASSUME NEW f, IsFiniteSet(DOMAIN f)
    PROVE  \E g : Summing(f, g)
<1> DEFINE Subsets == SUBSET DOMAIN f
           Upto(g, n) == \A s \in Subsets : Cardinality(s) <= n => g[s] = SumStep(f, g, s)
           Bad == {n \in Nat : ~\E g : g = [s \in Subsets |-> g[s]] /\ Upto(g, n)}
<1>1. Bad = {}
  <2>1. SUFFICES ASSUME Bad # {} PROVE FALSE
    OBVIOUS
  <2>2. PICK n \in Bad : \A m \in Bad : n <= m
    <3>1. Bad \in SUBSET Nat
      OBVIOUS
    <3> HIDE DEF Bad
    <3> QED BY <2>1, <3>1, LeastNumber
  <2>3. PICK g : /\ g = [s \in Subsets |-> g[s]]
                 /\ \A s \in Subsets : Cardinality(s) < n => g[s] = SumStep(f, g, s)
    <3>1. CASE n = 0
      <4> DEFINE g0 == [s \in Subsets |-> 0]
      <4>1. g0 = [s \in Subsets |-> g0[s]]
        OBVIOUS
      <4>2. \A s \in Subsets : ~(Cardinality(s) < 0)
        BY SubsetCard
      <4> HIDE DEF g0
      <4> QED BY <3>1, <4>1, <4>2
    <3>2. CASE n # 0
      <4>1. n \in Nat /\ n - 1 \in Nat /\ ~(n <= n - 1)
        BY <3>2
      <4>2. n - 1 \notin Bad
        BY <2>2, <4>1
      <4>3. PICK g : g = [s \in Subsets |-> g[s]] /\ Upto(g, n - 1)
        BY <4>1, <4>2
      <4>4. \A s \in Subsets : Cardinality(s) < n => Cardinality(s) <= n - 1
        BY <4>1, SubsetCard
      <4> QED BY <4>3, <4>4
    <3> QED BY <3>1, <3>2
  <2> DEFINE h == [s \in Subsets |-> SumStep(f, g, s)]
  <2>4. \A s \in Subsets : h[s] = SumStep(f, g, s)
    OBVIOUS
  <2>5. h = [s \in Subsets |-> h[s]]
    OBVIOUS
  <2> HIDE DEF h
  <2>6. \A s \in Subsets : Cardinality(s) < n => h[s] = g[s]
    BY <2>3, <2>4
  <2>7. ASSUME NEW s \in Subsets, Cardinality(s) <= n PROVE h[s] = SumStep(f, h, s)
    <3>1. CASE s = {}
      BY <3>1, <2>4 DEF SumStep
    <3>2. CASE s # {}
      <4>1. Pick(s) \in s
        BY <3>2, PickIn
      <4>2. Cardinality(s \ {Pick(s)}) < n
        BY <2>7, <4>1, SubsetCard
      <4>3. s \ {Pick(s)} \in Subsets
        OBVIOUS
      <4>4. h[s \ {Pick(s)}] = g[s \ {Pick(s)}]
        BY <2>6, <4>2, <4>3
      <4> QED BY <2>4, <3>2, <4>4 DEF SumStep
    <3> QED BY <3>1, <3>2
  <2>8. Upto(h, n)
    BY <2>7
  <2> QED BY <2>2, <2>5, <2>8
<1>2. Cardinality(DOMAIN f) \in Nat
  BY FS_CardinalityType
<1>3. PICK g : g = [s \in Subsets |-> g[s]] /\ Upto(g, Cardinality(DOMAIN f))
  BY <1>1, <1>2
<1>4. \A s \in Subsets : g[s] = SumStep(f, g, s)
  BY <1>3, SubsetCard
<1>5. g = [s \in Subsets |-> SumStep(f, g, s)]
  BY <1>3, <1>4
<1> QED BY <1>5 DEF Summing

LEMMA SumTypes ==
    ASSUME NEW f, NEW g, Summing(f, g), IsFiniteSet(DOMAIN f), \A x \in DOMAIN f : f[x] \in Int
    PROVE  /\ g[{}] = 0
           /\ \A s \in SUBSET DOMAIN f : g[s] \in Int
<1> DEFINE Bad == {n \in Nat : \E s \in SUBSET DOMAIN f : Cardinality(s) = n /\ g[s] \notin Int}
<1>1. g[{}] = 0
  BY DEF Summing, SumStep
<1>2. \A s \in SUBSET DOMAIN f : s # {} => g[s] = f[Pick(s)] + g[s \ {Pick(s)}]
  BY DEF Summing, SumStep
<1>3. Bad = {}
  <2>1. SUFFICES ASSUME Bad # {} PROVE FALSE
    OBVIOUS
  <2>2. PICK n \in Bad : \A m \in Bad : n <= m
    <3>1. Bad \in SUBSET Nat
      OBVIOUS
    <3> HIDE DEF Bad
    <3> QED BY <2>1, <3>1, LeastNumber
  <2>3. PICK s \in SUBSET DOMAIN f : Cardinality(s) = n /\ g[s] \notin Int
    BY <2>2
  <2>4. s # {}
    BY <1>1, <2>3
  <2>5. PICK p \in s : g[s] = f[p] + g[s \ {p}]
    BY <1>2, <2>4, PickIn
  <2>6. Cardinality(s \ {p}) = n - 1 /\ n - 1 \in Nat /\ ~(n <= n - 1)
    <3>1. n \in Nat /\ n # 0 /\ Cardinality(s \ {p}) = n - 1
      BY <2>3, <2>4, SubsetCard
    <3> QED BY <3>1
  <2>7. s \ {p} \in SUBSET DOMAIN f /\ n - 1 \notin Bad
    BY <2>2, <2>6
  <2>8. g[s \ {p}] \in Int
    BY <2>6, <2>7
  <2> QED BY <2>3, <2>5, <2>8
<1> QED BY <1>1, <1>3, SubsetCard

\* A sum does not depend on the order of its terms.
LEMMA SumAnyOrder ==
    ASSUME NEW f, NEW g, Summing(f, g), IsFiniteSet(DOMAIN f), \A x \in DOMAIN f : f[x] \in Int
    PROVE  \A s \in SUBSET DOMAIN f : \A x \in s : g[s] = f[x] + g[s \ {x}]
<1> DEFINE Good(s) == \A x \in s : g[s] = f[x] + g[s \ {x}]
           Bad == {n \in Nat : \E s \in SUBSET DOMAIN f : Cardinality(s) = n /\ ~Good(s)}
<1>2. \A s \in SUBSET DOMAIN f : s # {} => g[s] = f[Pick(s)] + g[s \ {Pick(s)}]
  BY DEF Summing, SumStep
<1>3. Bad = {}
  <2>1. SUFFICES ASSUME Bad # {} PROVE FALSE
    OBVIOUS
  <2>2. PICK n \in Bad : \A m \in Bad : n <= m
    <3>1. Bad \in SUBSET Nat
      OBVIOUS
    <3> HIDE DEF Bad
    <3> QED BY <2>1, <3>1, LeastNumber
  <2>3. PICK s \in SUBSET DOMAIN f : Cardinality(s) = n /\ ~Good(s)
    BY <2>2
  <2>4. s # {}
    BY <2>3
  <2>5. PICK p \in s : g[s] = f[p] + g[s \ {p}]
    BY <1>2, <2>4, PickIn
  <2>6. ASSUME NEW x \in s PROVE Good(s \ {x})
    <3>1. Cardinality(s \ {x}) = n - 1 /\ n \in Nat /\ n # 0
      BY <2>3, <2>4, SubsetCard
    <3>2. n - 1 \in Nat /\ ~(n <= n - 1)
      BY <3>1
    <3>3. n - 1 \notin Bad
      BY <2>2, <3>2
    <3>4. s \ {x} \in SUBSET DOMAIN f
      OBVIOUS
    <3> QED BY <3>1, <3>2, <3>3, <3>4
  <2>8. ASSUME NEW x \in s PROVE g[s] = f[x] + g[s \ {x}]
    <3>1. CASE x = p
      BY <2>5, <3>1
    <3>2. CASE x # p
      <4>1. x \in s \ {p} /\ p \in s \ {x}
        BY <3>2
      <4>2. (s \ {p}) \ {x} = (s \ {x}) \ {p} /\ (s \ {p}) \ {x} \in SUBSET DOMAIN f
        OBVIOUS
      <4>3. g[s \ {p}] = f[x] + g[(s \ {p}) \ {x}]
        BY <2>6, <4>1
      <4>4. g[s \ {x}] = f[p] + g[(s \ {x}) \ {p}]
        BY <2>6, <4>1
      <4>5. g[(s \ {p}) \ {x}] \in Int /\ f[x] \in Int /\ f[p] \in Int
        BY <4>2, SumTypes
      <4>6. PICK r, a, b : r = g[(s \ {p}) \ {x}] /\ a = f[x] /\ b = f[p]
        OBVIOUS
      <4>7. r \in Int /\ a \in Int /\ b \in Int
        BY <4>5, <4>6
      <4>8. g[s] = b + (a + r) /\ g[s \ {x}] = b + r
        BY <2>5, <4>2, <4>3, <4>4, <4>6
      <4>9. b + (a + r) = a + (b + r)
        BY <4>7
      <4> QED BY <4>6, <4>8, <4>9
    <3> QED BY <3>1, <3>2
  <2> QED BY <2>3, <2>8
<1>4. ASSUME NEW s \in SUBSET DOMAIN f PROVE Good(s)
  BY <1>3, SubsetCard
<1> QED BY <1>4

\* Sums of functions that agree are the same.
LEMMA SumsAgree ==
    ASSUME NEW f, NEW g, Summing(f, g), IsFiniteSet(DOMAIN f),
           NEW f2, NEW g2, Summing(f2, g2), DOMAIN f \subseteq DOMAIN f2,
           \A x \in DOMAIN f : f2[x] = f[x]
    PROVE  \A s \in SUBSET DOMAIN f : g2[s] = g[s]
<1> DEFINE Bad == {n \in Nat : \E s \in SUBSET DOMAIN f : Cardinality(s) = n /\ g2[s] # g[s]}
<1>1. \A s \in SUBSET DOMAIN f : g[s] = SumStep(f, g, s) /\ g2[s] = SumStep(f2, g2, s)
  BY DEF Summing
<1>2. Bad = {}
  <2>1. SUFFICES ASSUME Bad # {} PROVE FALSE
    OBVIOUS
  <2>2. PICK n \in Bad : \A m \in Bad : n <= m
    <3>1. Bad \in SUBSET Nat
      OBVIOUS
    <3> HIDE DEF Bad
    <3> QED BY <2>1, <3>1, LeastNumber
  <2>3. PICK s \in SUBSET DOMAIN f : Cardinality(s) = n /\ g2[s] # g[s]
    BY <2>2
  <2>4. s # {}
    BY <1>1, <2>3 DEF SumStep
  <2>5. PICK p \in s : p = Pick(s)
    BY <2>4, PickIn
  <2>6. Cardinality(s \ {p}) = n - 1 /\ n - 1 \in Nat /\ ~(n <= n - 1)
    <3>1. n \in Nat /\ n # 0 /\ Cardinality(s \ {p}) = n - 1
      BY <2>3, <2>4, SubsetCard
    <3> QED BY <3>1
  <2>7. s \ {p} \in SUBSET DOMAIN f /\ n - 1 \notin Bad
    BY <2>2, <2>6
  <2>8. g2[s \ {p}] = g[s \ {p}] /\ f2[p] = f[p]
    BY <2>6, <2>7
  <2> QED BY <1>1, <2>3, <2>4, <2>5, <2>8 DEF SumStep
<1> QED BY <1>2, SubsetCard

\* What the sum of a function is: nothing for the empty one, and one term more for
\* each element of the domain.
LEMMA SumEmpty ==
    ASSUME NEW f, DOMAIN f = {} PROVE SumFunction(f) = 0
<1>1. IsFiniteSet(DOMAIN f)
  BY FS_EmptySet
<1>2. PICK g : Summing(f, g) /\ SumFunction(f) = g[DOMAIN f]
  BY <1>1, SumExists, SumUnfolds
<1> QED BY <1>2 DEF Summing, SumStep

LEMMA SumIsInt ==
    ASSUME NEW f, IsFiniteSet(DOMAIN f), \A x \in DOMAIN f : f[x] \in Int
    PROVE  SumFunction(f) \in Int
<1>1. PICK g : Summing(f, g) /\ SumFunction(f) = g[DOMAIN f]
  BY SumExists, SumUnfolds
<1> QED BY <1>1, SumTypes

LEMMA SumAdds ==
    ASSUME NEW f, IsFiniteSet(DOMAIN f), NEW f2, NEW x,
           x \notin DOMAIN f, DOMAIN f2 = DOMAIN f \cup {x},
           \A y \in DOMAIN f2 : f2[y] \in Int,
           \A y \in DOMAIN f : f2[y] = f[y]
    PROVE  SumFunction(f2) = f2[x] + SumFunction(f)
<1>1. PICK g : Summing(f, g) /\ SumFunction(f) = g[DOMAIN f]
  BY SumExists, SumUnfolds
<1>2. IsFiniteSet(DOMAIN f2)
  BY FS_AddElement
<1>3. PICK g2 : Summing(f2, g2) /\ SumFunction(f2) = g2[DOMAIN f2]
  BY <1>2, SumExists, SumUnfolds
<1>4. DOMAIN f2 \in SUBSET DOMAIN f2 /\ x \in DOMAIN f2 /\ DOMAIN f2 \ {x} = DOMAIN f
  OBVIOUS
<1>5. g2[DOMAIN f2] = f2[x] + g2[DOMAIN f]
  BY <1>2, <1>3, <1>4, SumAnyOrder
<1>6. g2[DOMAIN f] = g[DOMAIN f]
  BY <1>1, <1>3, SumsAgree
<1> QED BY <1>1, <1>3, <1>5, <1>6

-----------------------------------------------------------------------------------
(* Rounds *)

\* A ledger row, once there, stays; then what is paid stays paid.
LEMMA PaidStays ==
  ASSUME NEW result, Paid(result), result.round \in Rounds,
         wagers[result.round] # None, result.multiple # 0 => settlements[result.round] # None,
         \A r \in Rounds : wagers[r] # None => wagers'[r] = wagers[r],
         \A r \in Rounds : settlements[r] # None => settlements'[r] = settlements[r]
  PROVE  Paid(result)'
BY DEF Paid

\* What a published round says is a result, and its wager is committed.
LEMMA ResultProof ==
  ASSUME NEW result \in Result
  PROVE  /\ result.round \in Rounds
         /\ [stake |-> result.stake, multiple |-> result.multiple] \in Proof
         /\ [stake |-> result.stake, multiple |-> result.multiple] # None
BY NoneAssumption DEF Result, Proof, NoneAssumption

\* The return of a stake is an amount.
LEMMA ReturnType ==
  ASSUME NEW s \in Stakes, NEW m \in Multiples
  PROVE  s * m \in Nat /\ s * m # None
<1>1. s \in Nat /\ m \in Nat
  BY WagerAssumption DEF WagerAssumption
<1>2. s * m \in Nat
  BY <1>1, SMT
<1>. QED BY <1>2, NoneAssumption DEF NoneAssumption

\* Rows are only added, and nobody but a publication touches what is told: then
\* what was published is paid still.
LEMMA TellingStays ==
  ASSUME RoundInv,
         \A r \in Rounds : wagers[r] # None => wagers'[r] = wagers[r],
         \A r \in Rounds : settlements[r] # None => settlements'[r] = settlements[r],
         UNCHANGED recent,
         \A a \in answers' : a \in answers \/ \E i \in DOMAIN recent : a = recent[i]
  PROVE  PublishedIsPaid'
<1>1. ASSUME NEW result \in Result, Paid(result)
      PROVE  Paid(result)'
  <2>1. wagers[result.round] # None
    BY <1>1, ResultProof DEF Paid
  <2>2. result.multiple # 0 => settlements[result.round] # None
    BY <1>1, ReturnType DEF Paid, Result
  <2>. QED BY <1>1, <2>1, <2>2, ResultProof, PaidStays
<1>2. /\ \A i \in DOMAIN recent : recent[i] \in Result /\ Paid(recent[i])
      /\ \A a \in answers : a \in Result /\ Paid(a)
  BY DEF RoundInv, PublishedIsPaid, WagerTypeOK
<1>. QED BY <1>1, <1>2 DEF PublishedIsPaid

LEMMA RequestInv ==
  ASSUME RoundInv, NEW w \in Workers, Request(w)
  PROVE  RoundInv'
<1>1. PICK r \in Rounds, s \in Stakes :
        play' = [play EXCEPT ![w] = [round |-> r, stake |-> s, step |-> "load", multiple |-> None]]
  BY DEF Request
<1>2. UNCHANGED <<wallet, wagers, settlements, recent, answers, crashes>>
  BY DEF Request
<1>3. WagerTypeOK'
  BY <1>1, <1>2 DEF RoundInv, WagerTypeOK, Steps
<1>4. PlaySound'
  BY <1>1, <1>2 DEF RoundInv, WagerTypeOK, PlaySound, At
<1>5. SettledByWager'
  BY <1>2 DEF RoundInv, SettledByWager
<1>6. PublishedIsPaid'
  BY <1>2, TellingStays
<1>. QED BY <1>3, <1>4, <1>5, <1>6 DEF RoundInv

LEMMA LoadInv ==
  ASSUME RoundInv, NEW w \in Workers, Load(w)
  PROVE  RoundInv'
<1>1. /\ play[w] # None
      /\ UNCHANGED <<wallet, wagers, settlements, recent, crashes>>
      /\ \/ play' = [play EXCEPT ![w].step = "wager"]
         \/ play' = [play EXCEPT ![w] = None]
  BY DEF Load, Goto, Leave, At
<1>2. \A a \in answers' : a \in answers \/ \E i \in DOMAIN recent : a = recent[i]
  BY DEF Load, Tell, Published
<1>3. answers' \subseteq Result
  BY <1>2 DEF RoundInv, WagerTypeOK
<1>4. WagerTypeOK'
  BY <1>1, <1>3 DEF RoundInv, WagerTypeOK, Steps
<1>5. PlaySound'
  BY <1>1 DEF RoundInv, WagerTypeOK, PlaySound, At
<1>6. SettledByWager'
  BY <1>1 DEF RoundInv, SettledByWager
<1>7. PublishedIsPaid'
  BY <1>1, <1>2, TellingStays
<1>. QED BY <1>4, <1>5, <1>6, <1>7 DEF RoundInv

LEMMA WagerInv ==
  ASSUME RoundInv, NEW w \in Workers, Wager(w)
  PROVE  RoundInv'
<1> DEFINE p == play[w]
<1>1. PICK m \in Multiples :
        LET proof == CommittedProof(p.round, [stake |-> p.stake, multiple |-> m])
        IN  /\ \/ /\ wagers[p.round] = None
                  /\ CoversStake(p.stake)
                  /\ wallet' = wallet - p.stake
                  /\ wagers' = [wagers EXCEPT ![p.round] = proof]
               \/ /\ wagers[p.round] # None
                  /\ wagers[p.round].stake = p.stake
                  /\ UNCHANGED <<wallet, wagers>>
            /\ play' = [play EXCEPT ![w] = [p EXCEPT !.step = AfterWager(proof.multiple),
                                                     !.multiple = proof.multiple]]
  BY DEF Wager
<1> DEFINE proof == CommittedProof(p.round, [stake |-> p.stake, multiple |-> m])
<1>2. /\ p \in [round : Rounds, stake : Stakes, step : Steps, multiple : Multiples \union {None}]
      /\ UNCHANGED <<settlements, recent, answers, crashes>>
  BY DEF Wager, At, RoundInv, WagerTypeOK
<1>3. proof \in Proof /\ proof.stake = p.stake
  BY <1>1, <1>2 DEF CommittedProof, Proof, RoundInv, WagerTypeOK
<1>4. wagers'[p.round] = proof /\ proof # None
  BY <1>1, <1>2, <1>3, NoneAssumption
     DEF CommittedProof, RoundInv, WagerTypeOK, NoneAssumption
<1>5. \A r \in Rounds : wagers[r] # None => wagers'[r] = wagers[r]
  BY <1>1, <1>2 DEF RoundInv, WagerTypeOK
<1>6. wallet' \in Nat
  <2>1. p.stake \in Nat
    BY <1>2, WagerAssumption DEF WagerAssumption
  <2>. QED BY <1>1, <2>1 DEF CoversStake, RoundInv, WagerTypeOK
<1>7. WagerTypeOK'
  <2>1. wagers' \in [Rounds -> Proof \union {None}]
    BY <1>1, <1>2, <1>3 DEF RoundInv, WagerTypeOK
  <2>2. AfterWager(proof.multiple) \in Steps /\ proof.multiple \in Multiples
    BY <1>3 DEF AfterWager, Steps, Proof
  <2>. QED BY <1>1, <1>2, <1>6, <2>1, <2>2 DEF RoundInv, WagerTypeOK
<1>8. PlaySound'
  <2>1. play'[w].round = p.round /\ play'[w].stake = p.stake
        /\ play'[w].multiple = proof.multiple /\ play'[w].step = AfterWager(proof.multiple)
    BY <1>1, <1>2 DEF RoundInv, WagerTypeOK
  <2>2. wagers'[play'[w].round] = [stake |-> play'[w].stake, multiple |-> play'[w].multiple]
    BY <1>3, <1>4, <2>1 DEF Proof
  <2>3. (play'[w].step = "publish") => play'[w].multiple = 0
    BY <2>1 DEF AfterWager
  <2>4. ASSUME NEW v \in Workers, v # w
        PROVE  /\ play'[v] = play[v]
               /\ play[v] # None => play[v].round \in Rounds
               /\ At(v, "settle") \/ At(v, "publish") =>
                    wagers'[play[v].round] = wagers[play[v].round]
    <3>1. play'[v] = play[v] /\ (play[v] # None => play[v].round \in Rounds)
      BY <1>1, <2>4 DEF RoundInv, WagerTypeOK
    <3>2. ASSUME At(v, "settle") \/ At(v, "publish")
          PROVE  wagers[play[v].round] # None
      <4>1. /\ play[v].stake \in Stakes
            /\ play[v].multiple \in Multiples
            /\ wagers[play[v].round] = [stake |-> play[v].stake, multiple |-> play[v].multiple]
        BY <3>2 DEF At, RoundInv, WagerTypeOK, PlaySound
      <4>. QED BY <4>1, NoneAssumption DEF NoneAssumption, Proof
    <3>. QED BY <3>1, <3>2, <1>5 DEF At
  <2>. QED BY <1>2, <1>3, <2>1, <2>2, <2>3, <2>4 DEF PlaySound, At, RoundInv, Proof
<1>9. SettledByWager'
  BY <1>2, <1>5 DEF RoundInv, SettledByWager
<1>10. PublishedIsPaid'
  BY <1>2, <1>5, TellingStays
<1>. QED BY <1>7, <1>8, <1>9, <1>10 DEF RoundInv

\* A worker that leaves its round, by refusal or death, leaves all else alone.
LEMMA LeavingInv ==
  ASSUME RoundInv, NEW w \in Workers, Leave(w), crashes' \in 0 .. MaxCrashes,
         UNCHANGED <<wallet, wagers, settlements, recent, answers>>
  PROVE  RoundInv'
<1>1. WagerTypeOK'
  BY DEF RoundInv, WagerTypeOK, Leave
<1>2. PlaySound'
  BY DEF RoundInv, WagerTypeOK, PlaySound, At, Leave
<1>3. SettledByWager'
  BY DEF RoundInv, SettledByWager
<1>4. PublishedIsPaid'
  BY TellingStays
<1>. QED BY <1>1, <1>2, <1>3, <1>4 DEF RoundInv

LEMMA SettleInv ==
  ASSUME RoundInv, NEW w \in Workers, Settle(w)
  PROVE  RoundInv'
<1> DEFINE p == play[w]
           return == p.stake * p.multiple
<1>1. /\ p # None
      /\ p.round \in Rounds /\ p.stake \in Stakes /\ p.multiple \in Multiples
      /\ wagers[p.round] = [stake |-> p.stake, multiple |-> p.multiple]
  BY DEF Settle, At, RoundInv, WagerTypeOK, PlaySound
<1>2. return \in Nat /\ return # None
  BY <1>1, ReturnType
<1>3. /\ play' = [play EXCEPT ![w].step = "publish"]
      /\ UNCHANGED <<wagers, recent, answers, crashes>>
      /\ \/ settlements[p.round] # None /\ UNCHANGED <<wallet, settlements>>
         \/ /\ settlements[p.round] = None
            /\ wallet' = wallet + return
            /\ settlements' = [settlements EXCEPT ![p.round] = return]
  BY DEF Settle, Goto, Settled
<1>4. settlements'[p.round] = return
  BY <1>1, <1>3 DEF RoundInv, SettledByWager, WagerTypeOK
<1>5. \A r \in Rounds : settlements[r] # None => settlements'[r] = settlements[r]
  BY <1>1, <1>3 DEF RoundInv, WagerTypeOK
<1>6. WagerTypeOK'
  BY <1>1, <1>2, <1>3 DEF RoundInv, WagerTypeOK, Steps
<1>7. PlaySound'
  <2>1. /\ play'[w].round = p.round /\ play'[w].stake = p.stake
        /\ play'[w].multiple = p.multiple
    BY <1>1, <1>3 DEF RoundInv, WagerTypeOK
  <2>2. ASSUME NEW v \in Workers, v # w
        PROVE  /\ play'[v] = play[v]
               /\ At(v, "publish") /\ play[v].multiple # 0 =>
                    settlements'[play[v].round] = settlements[play[v].round]
    <3>1. play'[v] = play[v]
      BY <1>3, <2>2 DEF RoundInv, WagerTypeOK
    <3>2. ASSUME At(v, "publish"), play[v].multiple # 0
          PROVE  settlements[play[v].round] # None /\ play[v].round \in Rounds
      <4>1. /\ play[v].stake \in Stakes /\ play[v].multiple \in Multiples
            /\ play[v].round \in Rounds
            /\ settlements[play[v].round] = play[v].stake * play[v].multiple
        BY <3>2 DEF At, RoundInv, WagerTypeOK, PlaySound
      <4>. QED BY <4>1, ReturnType
    <3>. QED BY <3>1, <3>2, <1>5
  <2>. QED BY <1>1, <1>3, <1>4, <2>1, <2>2 DEF PlaySound, At, RoundInv
<1>8. SettledByWager'
  <2>1. ASSUME NEW r \in Rounds, settlements'[r] # None
        PROVE  wagers[r] # None /\ settlements'[r] = wagers[r].stake * wagers[r].multiple
    <3>1. CASE r = p.round
      <4>1. wagers[r] # None
        BY <1>1, <3>1, NoneAssumption DEF NoneAssumption, Proof
      <4>2. wagers[r].stake = p.stake /\ wagers[r].multiple = p.multiple
        BY <1>1, <3>1
      <4>. QED BY <1>4, <3>1, <4>1, <4>2
    <3>2. CASE r # p.round
      <4>1. settlements'[r] = settlements[r]
        BY <1>3, <3>2 DEF RoundInv, WagerTypeOK
      <4>. QED BY <2>1, <4>1 DEF RoundInv, SettledByWager
    <3>. QED BY <3>1, <3>2
  <2>. QED BY <1>3, <2>1 DEF SettledByWager
<1>9. PublishedIsPaid'
  BY <1>3, <1>5, TellingStays
<1>. QED BY <1>6, <1>7, <1>8, <1>9 DEF RoundInv

\* What is published after a new result was put in front is that result or was
\* published before.
LEMMA FrontAndCut ==
  ASSUME NEW s \in Seq(Result), NEW result \in Result, NEW n \in 1 .. Len(s) + 1
  PROVE  LET cut == SubSeq(<<result>> \o s, 1, n)
         IN  /\ cut \in Seq(Result)
             /\ Len(cut) = n
             /\ \A i \in DOMAIN cut : cut[i] = result \/ \E j \in DOMAIN s : cut[i] = s[j]
<1> DEFINE grown == <<result>> \o s
           cut == SubSeq(grown, 1, n)
<1>1. /\ grown \in Seq(Result)
      /\ Len(grown) = 1 + Len(s)
      /\ grown[1] = result
      /\ \A i \in 2 .. Len(grown) : grown[i] = s[i - 1]
  OBVIOUS
<1>2. /\ cut \in Seq(Result)
      /\ Len(cut) = n
      /\ \A i \in 1 .. n : cut[i] = grown[i]
  BY <1>1
<1>3. ASSUME NEW i \in 1 .. n
      PROVE  cut[i] = result \/ \E j \in DOMAIN s : cut[i] = s[j]
  <2>1. CASE i = 1
    BY <1>1, <1>2, <2>1
  <2>2. CASE i # 1
    <3>1. i \in 2 .. Len(grown) /\ i - 1 \in 1 .. Len(s)
      BY <1>1, <1>3, <2>2
    <3>. QED BY <1>1, <1>2, <3>1
  <2>. QED BY <2>1, <2>2
<1>. QED BY <1>2, <1>3

LEMMA PublishInv ==
  ASSUME RoundInv, NEW w \in Workers, Publish(w)
  PROVE  RoundInv'
<1> DEFINE p == play[w]
           result == [round |-> p.round, stake |-> p.stake, multiple |-> p.multiple]
           grown == <<result>> \o recent
           kept == IF Len(grown) < RecentLimit THEN Len(grown) ELSE RecentLimit
<1>1. /\ p # None
      /\ p.round \in Rounds /\ p.stake \in Stakes /\ p.multiple \in Multiples
      /\ wagers[p.round] = [stake |-> p.stake, multiple |-> p.multiple]
      /\ p.multiple # 0 => settlements[p.round] = p.stake * p.multiple
  BY DEF Publish, At, RoundInv, WagerTypeOK, PlaySound
<1>2. result \in Result /\ Paid(result)
  BY <1>1 DEF Result, Paid
<1>3. /\ play' = [play EXCEPT ![w] = None]
      /\ UNCHANGED <<wallet, wagers, settlements, crashes>>
      /\ recent' = recent \/ recent' = SubSeq(grown, 1, kept)
      /\ answers' = answers \/ answers' = answers \union {result}
  BY DEF Publish, Leave, Tell
<1>4. kept \in 1 .. Len(recent) + 1 /\ kept <= RecentLimit
  BY <1>2, WagerAssumption DEF WagerAssumption, RoundInv, WagerTypeOK
<1>5. /\ recent' \in Seq(Result) /\ Len(recent') <= RecentLimit
      /\ \A i \in DOMAIN recent' :
           recent'[i] = result \/ \E j \in DOMAIN recent : recent'[i] = recent[j]
  <2>1. recent \in Seq(Result) /\ Len(recent) <= RecentLimit /\ result \in Result
    BY <1>2 DEF RoundInv, WagerTypeOK
  <2>2. ASSUME NEW n \in 1 .. Len(recent) + 1
        PROVE  /\ SubSeq(grown, 1, n) \in Seq(Result)
               /\ Len(SubSeq(grown, 1, n)) = n
               /\ \A i \in DOMAIN SubSeq(grown, 1, n) :
                    \/ SubSeq(grown, 1, n)[i] = result
                    \/ \E j \in DOMAIN recent : SubSeq(grown, 1, n)[i] = recent[j]
    BY <2>1, <2>2, FrontAndCut
  <2> HIDE DEF result, grown, kept
  <2>3. CASE recent' = recent
    BY <2>1, <2>3
  <2>4. CASE recent' = SubSeq(grown, 1, kept)
    BY <1>4, <2>2, <2>4
  <2>. QED BY <1>3, <2>3, <2>4
<1>6. WagerTypeOK'
  BY <1>2, <1>3, <1>5 DEF RoundInv, WagerTypeOK
<1>7. PlaySound'
  BY <1>3 DEF RoundInv, WagerTypeOK, PlaySound, At
<1>8. SettledByWager'
  BY <1>3 DEF RoundInv, SettledByWager
<1>9. PublishedIsPaid'
  BY <1>2, <1>3, <1>5 DEF RoundInv, PublishedIsPaid, Paid
<1>. QED BY <1>6, <1>7, <1>8, <1>9 DEF RoundInv

\* Every step of a round preserves the rounds' invariant.
LEMMA PlayStepInv ==
  ASSUME RoundInv, NEW w \in Workers, PlayStep(w)
  PROVE  RoundInv'
<1>1. CASE WagerRefused(w)
  BY <1>1, LeavingInv DEF WagerRefused, RoundInv, WagerTypeOK
<1>. QED BY <1>1, LoadInv, WagerInv, SettleInv, PublishInv DEF PlayStep

\* A step of a trial moves the wallet at most, and keeps it an amount.
LEMMA OutsideRounds ==
  ASSUME RoundInv, wallet' \in Nat, crashes' \in 0 .. MaxCrashes,
         UNCHANGED <<wagers, settlements, recent, play, answers>>
  PROVE  RoundInv'
<1>1. WagerTypeOK'
  BY DEF RoundInv, WagerTypeOK
<1>2. PlaySound' /\ SettledByWager'
  BY DEF RoundInv, PlaySound, SettledByWager, At
<1>3. PublishedIsPaid'
  BY TellingStays
<1>. QED BY <1>1, <1>2, <1>3 DEF RoundInv

-----------------------------------------------------------------------------------
(* The trial *)

\* A step of a trial that is no round keeps the rounds' invariant.
LEMMA TaskRoundInv ==
  ASSUME RoundInv, TrialInv, NEW w \in Workers,
         StartTeardown(w) \/ StartConversion(w) \/ TaskStep(w) \/ DieInTask(w)
  PROVE  RoundInv'
<1>1. wallet \in Nat /\ crashes \in 0 .. MaxCrashes
  BY DEF RoundInv, WagerTypeOK
<1>2. MaxCrashes \in Nat
  BY WagerAssumption DEF WagerAssumption
<1>3. CASE StartTeardown(w) \/ StartConversion(w)
  BY <1>1, <1>3, OutsideRounds DEF StartTeardown, StartConversion, wagerVars
<1>4. CASE DieInTask(w)
  <2>1. crashes' \in 0 .. MaxCrashes
    BY <1>1, <1>2, <1>4 DEF DieInTask
  <2>. QED BY <1>1, <1>4, <2>1, OutsideRounds DEF DieInTask
<1>5. CASE ReadBalance(w)
  <2>1. crashes' \in 0 .. MaxCrashes
    BY <1>1, <1>2, <1>5 DEF ReadBalance
  <2>. QED BY <1>1, <1>5, <2>1, OutsideRounds DEF ReadBalance
<1>6. CASE Debit(w)
  <2>1. task[w] # None /\ task[w].balance \in Nat \union {None}
    BY <1>6 DEF Debit, Doing, TrialInv, TypeOK
  <2>2. wallet' \in Nat
    BY <1>1, <1>6, <2>1 DEF Debit
  <2>. QED BY <1>1, <1>6, <2>2, OutsideRounds DEF Debit
<1>7. CASE Claim(w) \/ DeleteSessions(w) \/ StopAutoplay(w) \/ Check(w) \/ EndPlayer(w)
           \/ RecordEnded(w) \/ Finalize(w) \/ Bind(w) \/ Complete(w) \/ RevokeSessions(w)
           \/ CloseAnalytics(w)
  <2>1. UNCHANGED wagerVars
    BY <1>7 DEF Claim, DeleteSessions, StopAutoplay, Check, EndPlayer, RecordEnded, Finalize,
                Bind, Complete, RevokeSessions, CloseAnalytics
  <2>. QED BY <1>1, <2>1, OutsideRounds DEF wagerVars
<1>. QED BY <1>3, <1>4, <1>5, <1>6, <1>7 DEF TaskStep

LEMMA InitInv == Init => RoundInv /\ TrialInv
<1> SUFFICES ASSUME Init PROVE RoundInv /\ TrialInv
  OBVIOUS
<1>1. Opening \in Nat /\ RecentLimit \in Nat \ {0} /\ MaxCrashes \in Nat
  BY WagerAssumption DEF WagerAssumption
<1>2. WagerTypeOK
  <2>1. <<>> \in Seq(Result) /\ Len(<<>>) = 0
    OBVIOUS
  <2>. QED BY <1>1, <2>1 DEF Init, WagerInit, WagerTypeOK
<1>3. PlaySound /\ SettledByWager /\ PublishedIsPaid
  BY DEF Init, WagerInit, PlaySound, SettledByWager, PublishedIsPaid, At
<1>4. TypeOK
  BY <1>2 DEF Init, TypeOK
<1>5. TaskSound /\ StatusSound
  BY DEF Init, TaskSound, StatusSound
<1>. QED BY <1>2, <1>3, <1>4, <1>5 DEF RoundInv, TrialInv

\* Rounds do not touch the trial.
LEMMA RoundsTrialInv ==
  ASSUME TrialInv, WagerTypeOK', UNCHANGED guestVars
  PROVE  TrialInv'
<1>1. TypeOK'
  BY DEF TrialInv, TypeOK, guestVars
<1>2. TaskSound' /\ StatusSound'
  BY DEF TrialInv, TaskSound, StatusSound, guestVars
<1>. QED BY <1>1, <1>2 DEF TrialInv

\* A worker that starts a task, or ends one, knows nothing new of the trial.
LEMMA StartStopTrialInv ==
  ASSUME TrialInv, RoundInv', NEW w \in Workers,
         StartTeardown(w) \/ StartConversion(w) \/ DieInTask(w)
  PROVE  TrialInv'
<1>1. UNCHANGED <<status, account, session, autoplay, terminal, player, analytics>>
  BY DEF StartTeardown, StartConversion, DieInTask
<1>2. \/ task' = [task EXCEPT ![w] = [step |-> "claim", balance |-> None]]
      \/ task' = [task EXCEPT ![w] = [step |-> "bind", balance |-> None]]
      \/ task' = [task EXCEPT ![w] = None]
      \/ /\ task' = [task EXCEPT ![w] = [step |-> "revoke", balance |-> None]]
         /\ account
      \/ /\ task' = [task EXCEPT ![w] = [step |-> "complete", balance |-> None]]
         /\ account
  BY DEF StartTeardown, StartConversion, DieInTask, Begin, Stop, TrialInv, StatusSound
<1>3. TypeOK'
  BY <1>1, <1>2 DEF TrialInv, TypeOK, RoundInv, TeardownSteps, ConversionSteps
<1>4. TaskSound'
  BY <1>1, <1>2 DEF TrialInv, TypeOK, TaskSound, TeardownSteps
<1>5. StatusSound'
  BY <1>1 DEF TrialInv, StatusSound
<1>. QED BY <1>3, <1>4, <1>5 DEF TrialInv

\* A teardown past its claim owns the player: no account has it.
LEMMA TeardownOwns ==
  ASSUME TrialInv, NEW w \in Workers, task[w] # None,
         task[w].step \in TeardownSteps \ {"claim"}
  PROVE  status \in {"ending", "ended"} /\ ~account
BY DEF TrialInv, TaskSound, StatusSound

LEMMA TeardownTrialInv ==
  ASSUME TrialInv, RoundInv', NEW w \in Workers,
         \/ Claim(w) \/ ReadBalance(w) \/ DeleteSessions(w) \/ StopAutoplay(w) \/ Debit(w)
         \/ Check(w) \/ EndPlayer(w) \/ RecordEnded(w) \/ Finalize(w)
  PROVE  TrialInv'
<1> USE DEF Doing, Proceed, Stop
<1>1. CASE Claim(w)
  <2>1. TypeOK'
    BY <1>1 DEF Claim, MayClaim, TrialInv, TypeOK, RoundInv, TeardownSteps
  <2>2. StatusSound'
    BY <1>1 DEF Claim, MayClaim, TrialInv, StatusSound
  <2>3. TaskSound'
    BY <1>1 DEF Claim, MayClaim, TrialInv, TypeOK, TaskSound, StatusSound, TeardownSteps
  <2>. QED BY <2>1, <2>2, <2>3 DEF TrialInv
<1>2. CASE ReadBalance(w) \/ DeleteSessions(w) \/ StopAutoplay(w) \/ Debit(w) \/ Check(w)
           \/ EndPlayer(w) \/ RecordEnded(w)
  <2>1. /\ task[w] # None
        /\ task[w].step \in TeardownSteps \ {"claim"}
        /\ UNCHANGED <<status, account>>
    BY <1>2 DEF ReadBalance, DeleteSessions, StopAutoplay, Debit, Check, EndPlayer,
                RecordEnded, TeardownSteps
  <2>2. status \in {"ending", "ended"} /\ ~account
    BY <2>1, TeardownOwns
  <2>3. wallet \in Nat
    BY DEF TrialInv, TypeOK, WagerTypeOK
  <2>4. TypeOK'
    <3>1. task' \in [Workers -> {None} \union [step : TeardownSteps \union ConversionSteps,
                                              balance : Nat \union {None}]]
      BY <1>2, <2>3 DEF ReadBalance, DeleteSessions, StopAutoplay, Debit, Check, EndPlayer,
                        RecordEnded, TrialInv, TypeOK, TeardownSteps
    <3>2. {account', session', autoplay'} \subseteq BOOLEAN
      <4>1. {account, session, autoplay} \subseteq BOOLEAN
        BY DEF TrialInv, TypeOK
      <4>2. account' = account /\ session' \in {session, FALSE} /\ autoplay' \in {autoplay, FALSE}
        BY <1>2, Zenon DEF ReadBalance, DeleteSessions, StopAutoplay, Debit, Check, EndPlayer,
                           RecordEnded
      <4>. QED BY <4>1, <4>2, Zenon
    <3>3. terminal' \in Nat \union {None}
      BY <1>2, <2>1, <2>3 DEF ReadBalance, DeleteSessions, StopAutoplay, Debit, Check, EndPlayer,
                              RecordEnded, TrialInv, TypeOK
    <3>4. player' \in {"active", "ended"} /\ analytics' \in {"open", "ended", "converted"}
      BY <1>2 DEF ReadBalance, DeleteSessions, StopAutoplay, Debit, Check, EndPlayer,
                  RecordEnded, EndedAs, TrialInv, TypeOK
    <3>. QED BY <2>1, <3>1, <3>2, <3>3, <3>4 DEF TrialInv, TypeOK, RoundInv
  <2>5. TaskSound'
    BY <1>2, <2>1, <2>2 DEF ReadBalance, DeleteSessions, StopAutoplay, Debit, Check,
                EndPlayer, RecordEnded, TrialInv, TypeOK, TaskSound, TeardownSteps
  <2>6. StatusSound'
    BY <2>1, <2>2 DEF StatusSound
  <2>. QED BY <2>4, <2>5, <2>6 DEF TrialInv
<1>3. CASE Finalize(w)
  <2>1. task[w] # None /\ task[w].step \in TeardownSteps \ {"claim"}
    BY <1>3 DEF Finalize, TeardownSteps
  <2>2. status \in {"ending", "ended"} /\ ~account
    BY <2>1, TeardownOwns
  <2>3. TypeOK'
    BY <1>3 DEF Finalize, TrialInv, TypeOK, RoundInv
  <2>4. TaskSound' /\ StatusSound'
    BY <1>3, <2>2 DEF Finalize, TrialInv, TypeOK, TaskSound, StatusSound
  <2>. QED BY <2>3, <2>4 DEF TrialInv
<1>. QED BY <1>1, <1>2, <1>3

LEMMA ConversionTrialInv ==
  ASSUME TrialInv, RoundInv', NEW w \in Workers,
         Bind(w) \/ Complete(w) \/ RevokeSessions(w) \/ CloseAnalytics(w)
  PROVE  TrialInv'
<1> USE DEF Doing, Proceed, Stop
<1>1. CASE Bind(w)
  <2>1. TypeOK'
    <3>1. account' \in BOOLEAN
      BY <1>1, Zenon DEF Bind
    <3>2. task' \in [Workers -> {None} \union [step : TeardownSteps \union ConversionSteps,
                                              balance : Nat \union {None}]]
      BY <1>1 DEF Bind, TrialInv, TypeOK, ConversionSteps
    <3>3. UNCHANGED <<status, session, autoplay, terminal, player, analytics>>
      BY <1>1 DEF Bind
    <3>. QED BY <3>1, <3>2, <3>3 DEF TrialInv, TypeOK, RoundInv
  <2>2. TaskSound'
    <3>1. /\ account => account'
          /\ MayAdopt \/ account => account'
          /\ status' = status
      BY <1>1, Zenon DEF Bind
    <3>2. task' = IF MayAdopt \/ account THEN [task EXCEPT ![w].step = "complete"]
                                        ELSE [task EXCEPT ![w] = None]
      BY <1>1 DEF Bind
    <3>3. task[w] # None
      BY <1>1 DEF Bind
    <3>. QED BY <3>1, <3>2, <3>3 DEF TrialInv, TypeOK, TaskSound, TeardownSteps
  <2>3. StatusSound'
    BY <1>1 DEF Bind, MayAdopt, TrialInv, StatusSound
  <2>. QED BY <2>1, <2>2, <2>3 DEF TrialInv
<1>2. CASE Complete(w)
  <2>1. account
    BY <1>2 DEF Complete, TrialInv, TaskSound
  <2>2. status \in {"active", "converted"}
    BY <2>1 DEF TrialInv, TypeOK, StatusSound
  <2>3. TypeOK'
    BY <1>2 DEF Complete, TrialInv, TypeOK, RoundInv, ConversionSteps
  <2>4. TaskSound'
    BY <1>2, <2>1, <2>2 DEF Complete, TrialInv, TypeOK, TaskSound, TeardownSteps
  <2>5. StatusSound'
    BY <1>2, <2>1, <2>2 DEF Complete, TrialInv, StatusSound
  <2>. QED BY <2>3, <2>4, <2>5 DEF TrialInv
<1>3. CASE RevokeSessions(w) \/ CloseAnalytics(w)
  <2>1. account
    BY <1>3 DEF RevokeSessions, CloseAnalytics, TrialInv, TaskSound
  <2>2. TypeOK'
    BY <1>3 DEF RevokeSessions, CloseAnalytics, EndedAs, TrialInv, TypeOK, RoundInv,
                ConversionSteps
  <2>3. TaskSound'
    BY <1>3 DEF RevokeSessions, CloseAnalytics, TrialInv, TypeOK, TaskSound, TeardownSteps
  <2>4. StatusSound'
    BY <1>3 DEF RevokeSessions, CloseAnalytics, EndedAs, TrialInv, StatusSound
  <2>. QED BY <2>2, <2>3, <2>4 DEF TrialInv
<1>. QED BY <1>1, <1>2, <1>3

\* Every step preserves both inductive invariants.
LEMMA NextInv == RoundInv /\ TrialInv /\ [Next]_vars => RoundInv' /\ TrialInv'
<1> SUFFICES ASSUME RoundInv, TrialInv, [Next]_vars PROVE RoundInv' /\ TrialInv'
  OBVIOUS
<1>1. ASSUME NEW w \in Workers,
             AcceptRequest(w) \/ InPlay(w) \/ (DieInPlay(w) /\ UNCHANGED guestVars)
      PROVE  RoundInv' /\ TrialInv'
  <2>1. UNCHANGED guestVars
    BY <1>1 DEF AcceptRequest, InPlay
  <2>2. CASE DieInPlay(w)
    <3>1. crashes' \in 0 .. MaxCrashes
      BY <2>2, WagerAssumption DEF DieInPlay, WagerAssumption, RoundInv, WagerTypeOK
    <3>. QED BY <2>2, <3>1, LeavingInv, <2>1, RoundsTrialInv DEF DieInPlay, RoundInv
  <2>3. CASE Request(w) \/ PlayStep(w)
    <3>1. RoundInv'
      BY <2>3, RequestInv, PlayStepInv
    <3>. QED BY <2>1, <3>1, RoundsTrialInv DEF RoundInv
  <2>. QED BY <1>1, <2>2, <2>3 DEF AcceptRequest, InPlay
<1>2. ASSUME NEW w \in Workers,
             StartTeardown(w) \/ StartConversion(w) \/ TaskStep(w) \/ DieInTask(w)
      PROVE  RoundInv' /\ TrialInv'
  <2>1. RoundInv'
    BY <1>2, TaskRoundInv
  <2>. QED BY <1>2, <2>1, StartStopTrialInv, TeardownTrialInv, ConversionTrialInv DEF TaskStep
<1>3. CASE UNCHANGED vars
  <2>1. UNCHANGED wagerVars /\ UNCHANGED guestVars
    BY <1>3 DEF vars
  <2>2. wallet \in Nat /\ crashes \in 0 .. MaxCrashes
    BY DEF RoundInv, WagerTypeOK
  <2>3. RoundInv'
    BY <2>1, <2>2, OutsideRounds DEF wagerVars
  <2>. QED BY <2>1, <2>3, RoundsTrialInv DEF RoundInv
<1>. QED BY <1>1, <1>2, <1>3 DEF Next

LEMMA Invariance == Spec => [](RoundInv /\ TrialInv)
BY InitInv, NextInv, PTL DEF Spec

-----------------------------------------------------------------------------------
(* What follows for every reachable state *)

\* No request, retry or terminal debit overdraws the wallet, and the trial's
\* records stay in their sets.
\* (ledger.py debit_once, auth.py end_guest_trial)
THEOREM TrialTypes == Spec => []TypeOK
BY Invariance, PTL DEF TrialInv

\* Every round anyone can see was paid for and paid out as it says.
\* (simple_game.py play and _publish_round)
THEOREM RoundsArePaid == Spec => []PublishedIsPaid
BY Invariance, PTL DEF RoundInv

\* All answers under one request tell one round: both agree with its wager row.
\* (simple_game.py play, settlement.py apply_action_once)
THEOREM RetriesAgree == Spec => []OneOutcome
<1>1. RoundInv => OneOutcome
  <2> SUFFICES ASSUME RoundInv, NEW a \in answers, NEW b \in answers, a.round = b.round
               PROVE  a = b
    BY DEF OneOutcome
  <2>1. a \in Result /\ b \in Result
    BY DEF RoundInv, WagerTypeOK
  <2>2. [stake |-> a.stake, multiple |-> a.multiple] = [stake |-> b.stake, multiple |-> b.multiple]
    BY DEF RoundInv, PublishedIsPaid, Paid
  <2>3. a.stake = b.stake /\ a.multiple = b.multiple
    BY <2>2
  <2>. QED BY <2>1, <2>3 DEF Result
<1>. QED BY <1>1, Invariance, PTL

\* A trial is ended or adopted, never both, however teardown, conversion, crashes
\* and retries interleave.
\* (auth.py _claim_guest_teardown and create_user, guest_conversion.py convert)
THEOREM AdoptionIsSafe == Spec => []AdoptedIsSpared
<1>1. TrialInv => AdoptedIsSpared
  BY DEF TrialInv, TypeOK, StatusSound, AdoptedIsSpared
<1>. QED BY <1>1, Invariance, PTL

-----------------------------------------------------------------------------------
(* The wallet                                                                      *)

\* What the committed rounds staked and the settled ones returned, round by round.
StakeOf == [r \in Committed |-> wagers[r].stake]
ReturnOf == [r \in PaidOut |-> wagers[r].stake * wagers[r].multiple]

\* Only so many rounds as steps were taken have a row, so that the sums are sums.
WalletInv == IsFiniteSet(Committed) /\ WalletMatchesRounds

\* The tables hold amounts, and finitely many.
LEMMA TableTypes ==
  ASSUME RoundInv, IsFiniteSet(Committed)
  PROVE  /\ DOMAIN StakeOf = Committed /\ DOMAIN ReturnOf = PaidOut
         /\ IsFiniteSet(Committed) /\ IsFiniteSet(PaidOut)
         /\ \A r \in Committed : StakeOf[r] \in Int /\ wagers[r] \in Proof
         /\ \A r \in PaidOut : ReturnOf[r] \in Int
         /\ Staked \in Int /\ Returned \in Int
<1>1. \A r \in Committed : wagers[r] \in Proof
  BY DEF Committed, RoundInv, WagerTypeOK
<1>2. \A r \in Committed : wagers[r].stake \in Stakes /\ wagers[r].multiple \in Multiples
  BY <1>1 DEF Proof
<1>3. ASSUME NEW r \in Committed
      PROVE  wagers[r].stake \in Int /\ wagers[r].stake * wagers[r].multiple \in Int
  <2>1. wagers[r].stake \in Stakes /\ wagers[r].multiple \in Multiples
    BY <1>2
  <2>2. wagers[r].stake \in Nat
    BY <2>1, WagerAssumption DEF WagerAssumption
  <2>3. wagers[r].stake * wagers[r].multiple \in Nat
    BY <2>1, ReturnType
  <2>. QED BY <2>2, <2>3
<1>4. PaidOut \subseteq Committed
  BY DEF PaidOut
<1>5. IsFiniteSet(PaidOut)
  BY <1>4, FS_Subset
<1>6. /\ DOMAIN StakeOf = Committed /\ DOMAIN ReturnOf = PaidOut
      /\ \A r \in Committed : StakeOf[r] \in Int
      /\ \A r \in PaidOut : ReturnOf[r] \in Int
  BY <1>3, <1>4 DEF StakeOf, ReturnOf
<1>7. SumFunction(StakeOf) \in Int
  BY <1>6, SumIsInt
<1>8. SumFunction(ReturnOf) \in Int
  BY <1>5, <1>6, SumIsInt
<1>. QED BY <1>1, <1>5, <1>6, <1>7, <1>8 DEF Staked, Returned, StakeOf, ReturnOf

\* A step that leaves the rows, the wallet and the terminal debit alone.
LEMMA WalletStays ==
  ASSUME WalletInv, UNCHANGED <<wallet, wagers, settlements, terminal>>
  PROVE  WalletInv'
<1>1. Committed' = Committed
  BY DEF Committed
<1>2. PaidOut' = PaidOut
  BY <1>1 DEF PaidOut
<1>3. StakeOf' = StakeOf /\ ReturnOf' = ReturnOf
  BY <1>1, <1>2 DEF StakeOf, ReturnOf
<1>4. Staked' = Staked /\ Returned' = Returned
  BY <1>3 DEF Staked, Returned, StakeOf, ReturnOf
<1>5. IsFiniteSet(Committed)'
  BY <1>1 DEF WalletInv
<1>6. WalletMatchesRounds'
  BY <1>4 DEF WalletInv, WalletMatchesRounds
<1>. QED BY <1>5, <1>6 DEF WalletInv

\* A new wager row takes its stake and returns nothing yet.
LEMMA WagerMoves ==
  ASSUME RoundInv, RoundInv', WalletInv, NEW r \in Rounds, NEW proof \in Proof,
         wagers[r] = None, wagers' = [wagers EXCEPT ![r] = proof],
         wallet' = wallet - proof.stake, UNCHANGED <<settlements, terminal>>,
         terminal \in Nat \union {None}
  PROVE  WalletInv'
<1>1. wagers \in [Rounds -> Proof \union {None}] /\ proof # None /\ wallet \in Nat
  BY NoneAssumption DEF RoundInv, WagerTypeOK, NoneAssumption
<1>2. r \notin Committed /\ Committed' = Committed \union {r} /\ wagers'[r] = proof
  BY <1>1 DEF Committed
<1>3. \A q \in Committed : wagers'[q] = wagers[q]
  BY <1>1, <1>2
<1>4. settlements[r] = None
  BY DEF RoundInv, SettledByWager
<1>5. PaidOut' = PaidOut
  BY <1>2, <1>4 DEF PaidOut
<1>6. ReturnOf' = ReturnOf
  BY <1>3, <1>5 DEF ReturnOf, PaidOut
<1>7. Returned' = Returned
  BY <1>6 DEF Returned, ReturnOf
<1>8. IsFiniteSet(Committed)
  BY DEF WalletInv
<1>9. IsFiniteSet(Committed \union {r})
  BY <1>8, FS_AddElement
<1>10. IsFiniteSet(Committed)'
  BY <1>2, <1>9
<1>11. Staked \in Int /\ Returned \in Int /\ proof.stake \in Nat
  BY <1>8, TableTypes, WagerAssumption DEF Proof, WagerAssumption
<1>12. Staked' = proof.stake + Staked
  <2>1. PICK f2 : f2 = StakeOf'
    OBVIOUS
  <2>2. DOMAIN f2 = Committed \union {r} /\ DOMAIN StakeOf = Committed
    BY <1>2, <2>1 DEF StakeOf
  <2>3. f2[r] = proof.stake /\ \A q \in DOMAIN StakeOf : f2[q] = StakeOf[q]
    BY <1>2, <1>3, <2>1 DEF StakeOf
  <2>4. \A q \in DOMAIN f2 : f2[q] \in Int
    BY <1>8, <1>11, <2>2, <2>3, TableTypes
  <2>5. SumFunction(f2) = f2[r] + SumFunction(StakeOf)
    BY <1>2, <1>8, <2>2, <2>3, <2>4, SumAdds
  <2>6. SumFunction(f2) = Staked'
    BY <2>1 DEF Staked, StakeOf
  <2>. QED BY <2>3, <2>5, <2>6 DEF Staked, StakeOf
<1>13. WalletMatchesRounds'
  BY <1>1, <1>7, <1>11, <1>12, NoneAssumption, WagerAssumption
  DEF WalletInv, WalletMatchesRounds, NoneAssumption, WagerAssumption
<1>. QED BY <1>10, <1>13 DEF WalletInv

\* A new settlement row pays what its round's wager row says.
LEMMA SettlementMoves ==
  ASSUME RoundInv, RoundInv', WalletInv, NEW r \in Rounds, wagers[r] # None,
         settlements[r] = None,
         NEW return \in Nat, return = wagers[r].stake * wagers[r].multiple,
         settlements' = [settlements EXCEPT ![r] = return],
         wallet' = wallet + return, UNCHANGED <<wagers, terminal>>,
         terminal \in Nat \union {None}
  PROVE  WalletInv'
<1>1. settlements \in [Rounds -> Nat \union {None}] /\ return # None /\ wallet \in Nat
  BY NoneAssumption DEF RoundInv, WagerTypeOK, NoneAssumption
<1>2. Committed' = Committed /\ r \in Committed
  BY DEF Committed
<1>3. r \notin PaidOut /\ PaidOut' = PaidOut \union {r}
  BY <1>1, <1>2 DEF PaidOut
<1>4. StakeOf' = StakeOf
  BY <1>2 DEF StakeOf
<1>5. Staked' = Staked
  BY <1>4 DEF Staked, StakeOf
<1>6. IsFiniteSet(Committed)
  BY DEF WalletInv
<1>7. IsFiniteSet(Committed)'
  BY <1>2, <1>6
<1>8. IsFiniteSet(PaidOut)
  BY <1>6, TableTypes
<1>9. Returned' = return + Returned
  <2>1. PICK f2 : f2 = ReturnOf'
    OBVIOUS
  <2>2. DOMAIN f2 = PaidOut \union {r} /\ DOMAIN ReturnOf = PaidOut
    BY <1>3, <2>1 DEF ReturnOf
  <2>3. f2[r] = return /\ \A q \in DOMAIN ReturnOf : f2[q] = ReturnOf[q]
    BY <1>3, <2>1 DEF ReturnOf
  <2>4. \A q \in DOMAIN f2 : f2[q] \in Int
    BY <1>6, <2>2, <2>3, TableTypes
  <2>5. SumFunction(f2) = f2[r] + SumFunction(ReturnOf)
    BY <1>3, <1>8, <2>2, <2>3, <2>4, SumAdds
  <2>6. SumFunction(f2) = Returned'
    BY <2>1 DEF Returned, ReturnOf
  <2>. QED BY <2>3, <2>5, <2>6 DEF Returned, ReturnOf
<1>10. Staked \in Int /\ Returned \in Int
  BY <1>6, TableTypes
<1>11. WalletMatchesRounds'
  BY <1>1, <1>5, <1>9, <1>10, WagerAssumption DEF WalletInv, WalletMatchesRounds, WagerAssumption
<1>. QED BY <1>7, <1>11 DEF WalletInv

LEMMA InPlayWallet ==
  ASSUME RoundInv, RoundInv', TrialInv, WalletInv, NEW w \in Workers, InPlay(w)
  PROVE  WalletInv'
<1>1. terminal' = terminal /\ terminal \in Nat \union {None}
  BY DEF InPlay, guestVars, TrialInv, TypeOK
<1>2. CASE Load(w) \/ WagerRefused(w) \/ Publish(w)
  BY <1>1, <1>2, WalletStays DEF Load, WagerRefused, Publish
<1>3. CASE Wager(w)
  <2> DEFINE p == play[w]
  <2>1. p \in [round : Rounds, stake : Stakes, step : Steps, multiple : Multiples \union {None}]
    BY <1>3 DEF Wager, At, RoundInv, WagerTypeOK
  <2>2. p.round \in Rounds /\ p.stake \in Stakes
    BY <2>1
  <2> HIDE DEF p
  <2>3. PICK m \in Multiples :
          \/ /\ wagers[p.round] = None
             /\ wallet' = wallet - p.stake
             /\ wagers' = [wagers EXCEPT ![p.round] = [stake |-> p.stake, multiple |-> m]]
          \/ UNCHANGED <<wallet, wagers>>
    BY <1>3 DEF Wager, CommittedProof, p
  <2>4. PICK proof \in Proof : proof = [stake |-> p.stake, multiple |-> m]
    BY <2>2 DEF Proof
  <2>5. proof.stake = p.stake /\ UNCHANGED settlements
    BY <1>3, <2>4 DEF Wager
  <2>6. CASE UNCHANGED <<wallet, wagers>>
    BY <1>1, <2>5, <2>6, WalletStays
  <2>. QED BY <1>1, <2>2, <2>3, <2>4, <2>5, <2>6, WagerMoves
<1>4. CASE Settle(w)
  <2> DEFINE p == play[w]
  <2>1. p \in [round : Rounds, stake : Stakes, step : Steps, multiple : Multiples \union {None}]
    BY <1>4 DEF Settle, At, RoundInv, WagerTypeOK
  <2>2. /\ p.round \in Rounds /\ p.stake \in Stakes /\ p.multiple \in Multiples
        /\ wagers[p.round] = [stake |-> p.stake, multiple |-> p.multiple]
    BY <1>4, <2>1 DEF Settle, RoundInv, PlaySound
  <2> HIDE DEF p
  <2>3. \/ UNCHANGED <<wallet, settlements>>
        \/ /\ settlements[p.round] = None
           /\ wallet' = wallet + p.stake * p.multiple
           /\ settlements' = [settlements EXCEPT ![p.round] = p.stake * p.multiple]
    BY <1>4 DEF Settle, Settled, p
  <2>4. PICK return \in Nat : return = p.stake * p.multiple
    BY <2>2, ReturnType
  <2>5. return = wagers[p.round].stake * wagers[p.round].multiple /\ wagers[p.round] # None
    <3>1. [stake |-> p.stake, multiple |-> p.multiple] \in Proof
      BY <2>2 DEF Proof
    <3>. QED BY <2>2, <2>4, <3>1, NoneAssumption DEF NoneAssumption
  <2>6. UNCHANGED wagers
    BY <1>4 DEF Settle
  <2>7. CASE UNCHANGED <<wallet, settlements>>
    BY <1>1, <2>6, <2>7, WalletStays
  <2>. QED BY <1>1, <2>2, <2>3, <2>4, <2>5, <2>6, <2>7, SettlementMoves
<1>. QED BY <1>2, <1>3, <1>4 DEF InPlay, PlayStep

\* The terminal debit is made once, of what it takes from the wallet.
LEMMA DebitWallet ==
  ASSUME RoundInv, TrialInv, WalletInv, NEW w \in Workers, Debit(w)
  PROVE  WalletInv'
<1>1. task[w] # None /\ task[w].balance \in Nat \union {None} /\ wallet \in Nat
  BY DEF Debit, Doing, TrialInv, TypeOK, RoundInv, WagerTypeOK
<1>2. PICK b \in Nat \union {None} : b = task[w].balance
  BY <1>1
<1>3. UNCHANGED <<wagers, settlements>>
  BY DEF Debit
<1>4. CASE UNCHANGED <<wallet, terminal>>
  BY <1>3, <1>4, WalletStays
<1>5. CASE terminal = None /\ b # None /\ wallet' = wallet - b /\ terminal' = b
  <2>1. Committed' = Committed /\ PaidOut' = PaidOut
    BY <1>3 DEF Committed, PaidOut
  <2>2. StakeOf' = StakeOf /\ ReturnOf' = ReturnOf
    BY <1>3, <2>1 DEF StakeOf, ReturnOf
  <2>3. Staked' = Staked /\ Returned' = Returned
    BY <2>2 DEF Staked, Returned, StakeOf, ReturnOf
  <2>4. IsFiniteSet(Committed) /\ IsFiniteSet(Committed)'
    BY <2>1 DEF WalletInv
  <2>5. Staked \in Int /\ Returned \in Int
    BY <2>4, TableTypes
  <2>6. WalletMatchesRounds'
    BY <1>1, <1>2, <1>5, <2>3, <2>5, WagerAssumption
    DEF WalletInv, WalletMatchesRounds, WagerAssumption
  <2>. QED BY <2>4, <2>6 DEF WalletInv
<1>. QED BY <1>2, <1>4, <1>5 DEF Debit

LEMMA WalletInit == Init => WalletInv
<1>. SUFFICES ASSUME Init PROVE WalletInv
  OBVIOUS
<1>1. Committed = {}
  BY DEF Init, WagerInit, Committed
<1>2. PaidOut = {}
  BY <1>1 DEF PaidOut
<1>3. DOMAIN StakeOf = {} /\ DOMAIN ReturnOf = {}
  BY <1>1, <1>2 DEF StakeOf, ReturnOf
<1>4. Staked = 0 /\ Returned = 0
  BY <1>3, SumEmpty DEF Staked, Returned, StakeOf, ReturnOf
<1>5. IsFiniteSet(Committed)
  BY <1>1, FS_EmptySet
<1>6. WalletMatchesRounds
  BY <1>4, WagerAssumption DEF Init, WagerInit, WalletMatchesRounds, WagerAssumption
<1>. QED BY <1>5, <1>6 DEF WalletInv

LEMMA WalletNext == RoundInv /\ RoundInv' /\ TrialInv /\ WalletInv /\ [Next]_vars => WalletInv'
<1> SUFFICES ASSUME RoundInv, RoundInv', TrialInv, WalletInv, [Next]_vars PROVE WalletInv'
  OBVIOUS
<1>1. ASSUME NEW w \in Workers, AcceptRequest(w) \/ (DieInPlay(w) /\ UNCHANGED guestVars)
      PROVE  WalletInv'
  BY <1>1, WalletStays DEF AcceptRequest, Request, DieInPlay, guestVars
<1>2. ASSUME NEW w \in Workers, StartTeardown(w) \/ StartConversion(w) \/ DieInTask(w)
      PROVE  WalletInv'
  BY <1>2, WalletStays DEF StartTeardown, StartConversion, DieInTask, wagerVars
<1>3. ASSUME NEW w \in Workers, TaskStep(w), ~Debit(w) PROVE WalletInv'
  BY <1>3, WalletStays
  DEF TaskStep, Claim, ReadBalance, DeleteSessions, StopAutoplay, Check, EndPlayer, RecordEnded,
      Finalize, Bind, Complete, RevokeSessions, CloseAnalytics, wagerVars
<1>4. CASE UNCHANGED vars
  BY <1>4, WalletStays DEF vars, wagerVars, guestVars
<1>. QED BY <1>1, <1>2, <1>3, <1>4, InPlayWallet, DebitWallet DEF Next

\* The wallet is what the rounds and the terminal debit left in it: no stake, no
\* return and no terminal debit is taken twice or lost, whoever dies and retries.
\* (settlement.py apply_action_once, auth.py end_guest_trial)
THEOREM WalletIsAccounted == Spec => []WalletMatchesRounds
<1>1. WalletInv => WalletMatchesRounds
  BY DEF WalletInv
<1>. QED BY <1>1, Invariance, WalletInit, WalletNext, PTL DEF Spec
===============================================================================
