------------------------ MODULE JsonGameActionProofs ------------------------
(* That the JSON provider keeps the promise of all providers, for every number   *)
(* of wallets, keys, epochs, crashes and failed writes: the inductive invariant  *)
(* says what each step of an operation may find on disk, which is what a crash   *)
(* before it leaves.                                                             *)
EXTENDS JsonGameAction, FiniteSetTheorems, WellFoundedInduction, TLAPS

AfterReceipt == {"receipt_committed", "cleanup"}
AfterState   == {"state_applied", "receipt"} \cup AfterReceipt
AfterWallets == {"wallet_applied", "rows", "ledger_applied", "states"} \cup AfterState
CarryingOut  == {"claim", "wallets"} \cup AfterWallets
Resetting    == ResetSteps \cup {"restore", "discard"}

ReceiptOf(k) == receipts[epoch.current][k]
ClaimOf(k) == claims[epoch.current][k]
Executes(v) == [variant |-> v, disposition |-> "execute"]

\* What the request in hand is, and what was found for it.
RequestSound ==
  /\ pc = "idle" => req = NoRequest
  /\ pc # "idle" => req \in Request
  /\ pc = "plan" => req.kind = "execute"
  /\ pc = "cancel" => req.kind = "resolve" /\ ReceiptOf(req.key) = None /\ ClaimOf(req.key) = None
  /\ req.kind = "reset" /\ backup = None => epoch.current < MaxEpoch

\* The data root is whole unless a backup says otherwise, and then only the reset works.
WholeSound ==
  /\ backup = None => wallet \in Balances /\ epoch.phase = "ready" /\ pc \notin Resetting
  /\ backup # None => journal = None /\ pc \in Resetting \cup {"idle"}
                      /\ backup.epoch.current < MaxEpoch

\* How far a reset, or its rollback, has come.
ResetSound ==
  /\ pc \in ResetSteps \ {"erase"} => state = 0 /\ rows = <<>>
  /\ pc \in {"keepClaims", "advance", "bootstrap", "ready", "unlink"} =>
       receipts = backup.receipts
  /\ pc \in {"advance", "bootstrap", "ready", "unlink"} => claims = backup.claims
  /\ pc \in {"bootstrap", "ready", "unlink"} => epoch.current = backup.epoch.current + 1
  /\ pc \in {"ready", "unlink"} => wallet = [w \in Wallets |-> Opening]
  /\ pc = "unlink" => epoch.phase = "ready"
  /\ pc = "discard" =>
       /\ wallet = backup.wallet /\ rows = backup.rows /\ state = backup.state
       /\ claims = backup.claims /\ receipts = backup.receipts /\ epoch = backup.epoch

\* What a plan in the journal finds.
PlanSound(r) ==
  /\ r \in Receipt /\ r.key = journal.key /\ r.variant = journal.variant
  /\ r.before \in Balances /\ r.after \in Balances
  /\ wallet \in {r.before, r.after}
  /\ state \in {r.version, r.version + 1}
  /\ ClaimOf(r.key) \in {None, Executes(r.variant)}
  /\ ReceiptOf(r.key) \in {None, r}

JournalSound ==
  journal # None =>
    /\ journal.epoch = epoch.current
    /\ pc \in {"idle", "recover", "plan"} \cup CarryingOut
    /\ ~Planned => /\ pc \in {"idle", "recover", "plan"}
                   /\ ReceiptOf(journal.key) = None /\ ClaimOf(journal.key) = None
    /\ Planned => pc # "plan" /\ PlanSound(journal.receipt)

\* How far a plan has come.
ProgressSound ==
  /\ pc = "plan" => /\ journal # None /\ journal.stage = "prepared"
                    /\ journal.key = req.key /\ journal.variant = req.variant
  /\ pc \in CarryingOut => Planned
  /\ pc \in CarryingOut \ {"claim"} => ClaimOf(journal.key) = Executes(journal.variant)
  /\ pc \in AfterWallets => wallet = journal.receipt.after
  /\ pc \in AfterState => state = journal.receipt.version + 1
  /\ pc \in AfterReceipt => ReceiptOf(journal.key) = journal.receipt

\* The inductive invariant.
JsonInv ==
  /\ TypeOK /\ RequestSound /\ WholeSound /\ ResetSound /\ JournalSound /\ ProgressSound

-------------------------------------------------------------------------------
(* Sums of movements: the recursion of Moved is carried out by some function,    *)
(* and what it gives follows by the least counterexample.                        *)

LEMMA LeastNumber ==
  ASSUME NEW T \in SUBSET Nat, T # {} PROVE \E n \in T : \A m \in T : n <= m
<1> DEFINE R == {p \in Nat \X Nat : p[1] < p[2]}
<1>1. IsWellFoundedOn(R, Nat)
  <2>1. R = OpToRel(<, Nat)
    BY DEF OpToRel
  <2> QED BY <2>1, NatLessThanWellFounded
<1>2. PICK n \in T : \A m \in T : <<m, n>> \notin R
  BY <1>1, WFMin
<1>3. ASSUME NEW m \in T PROVE n <= m
  <2>1. ~(<<m, n>> \in R)
    BY <1>2
  <2>2. <<m, n>>[1] = m /\ <<m, n>>[2] = n /\ <<m, n>> \in Nat \X Nat
    OBVIOUS
  <2>3. ~(m < n)
    BY <2>1, <2>2
  <2> QED BY <2>3
<1> QED BY <1>3

\* One step of the recursion by which movements add up.
MovedStep(moves, w, f, i) ==
  IF i = 0 THEN 0 ELSE f[i - 1] + IF moves[i].wallet = w THEN moves[i].amount ELSE 0

\* A function with a step for every number of movements exists.
LEMMA MovedExists ==
  ASSUME NEW moves \in Seq(Movement), NEW w
  PROVE  \E f : f = [i \in 0..Len(moves) |-> MovedStep(moves, w, f, i)]
<1> DEFINE Numbers == 0..Len(moves)
           Upto(f, n) == \A i \in Numbers : i <= n => f[i] = MovedStep(moves, w, f, i)
           Bad == {n \in Nat : ~\E f : f = [i \in Numbers |-> f[i]] /\ Upto(f, n)}
<1>1. Len(moves) \in Nat /\ Numbers \subseteq Nat
  OBVIOUS
<1>2. Bad = {}
  <2>1. SUFFICES ASSUME Bad # {} PROVE FALSE
    OBVIOUS
  <2>2. PICK n \in Bad : \A m \in Bad : n <= m
    <3>1. Bad \in SUBSET Nat
      OBVIOUS
    <3>. HIDE DEF Bad
    <3>. QED BY <2>1, <3>1, LeastNumber
  <2>3. PICK g : /\ g = [i \in Numbers |-> g[i]]
                 /\ \A i \in Numbers : i < n => g[i] = MovedStep(moves, w, g, i)
    <3>1. CASE n = 0
      <4>. DEFINE none == [i \in Numbers |-> 0]
      <4>1. none = [i \in Numbers |-> none[i]]
        OBVIOUS
      <4>2. \A i \in Numbers : ~(i < 0)
        BY <1>1
      <4>. HIDE DEF none
      <4>. QED BY <3>1, <4>1, <4>2
    <3>2. CASE n # 0
      <4>1. n - 1 \in Nat /\ ~(n <= n - 1)
        BY <3>2
      <4>2. n - 1 \notin Bad
        BY <2>2, <4>1
      <4>3. PICK g : g = [i \in Numbers |-> g[i]] /\ Upto(g, n - 1)
        BY <4>1, <4>2
      <4>4. \A i \in Numbers : i < n => i <= n - 1
        BY <1>1, <4>1
      <4>. QED BY <4>3, <4>4
    <3>. QED BY <3>1, <3>2
  <2>. DEFINE h == [i \in Numbers |-> MovedStep(moves, w, g, i)]
  <2>4. h = [i \in Numbers |-> h[i]] /\ \A i \in Numbers : h[i] = MovedStep(moves, w, g, i)
    OBVIOUS
  <2>. HIDE DEF h
  <2>5. \A i \in Numbers : i < n => h[i] = g[i]
    BY <2>3, <2>4
  <2>6. ASSUME NEW i \in Numbers, i <= n PROVE h[i] = MovedStep(moves, w, h, i)
    <3>1. CASE i = 0
      BY <2>4, <3>1 DEF MovedStep
    <3>2. CASE i # 0
      <4>1. i - 1 \in Numbers /\ i - 1 < n
        BY <1>1, <2>6, <3>2
      <4>2. h[i - 1] = g[i - 1]
        BY <2>5, <4>1
      <4>. QED BY <2>4, <3>2, <4>2 DEF MovedStep
    <3>. QED BY <3>1, <3>2
  <2>7. Upto(h, n)
    BY <2>6
  <2>. QED BY <2>2, <2>4, <2>7
<1>3. PICK f : f = [i \in Numbers |-> f[i]] /\ Upto(f, Len(moves))
  BY <1>1, <1>2
<1>4. \A i \in Numbers : f[i] = MovedStep(moves, w, f, i)
  BY <1>1, <1>3
<1>5. f = [i \in Numbers |-> MovedStep(moves, w, f, i)]
  BY <1>3, <1>4
<1>. QED BY <1>5

\* What movements do to a wallet: none does nothing, each adds its amount to its own
\* wallet and leaves the others alone.
LEMMA MovedSums ==
  ASSUME NEW moves \in Seq(Movement), NEW w
  PROVE  /\ Moved(moves, 0, w) = 0
         /\ \A n \in 0..Len(moves) : Moved(moves, n, w) \in Int
         /\ \A n \in 1..Len(moves) :
               moves[n].wallet # w => Moved(moves, n, w) = Moved(moves, n - 1, w)
<1>. DEFINE f == CHOOSE f : f = [i \in 0..Len(moves) |->
                    IF i = 0 THEN 0
                    ELSE f[i - 1] + IF moves[i].wallet = w THEN moves[i].amount ELSE 0]
<1>1. \A n : Moved(moves, n, w) = f[n]
  BY DEF Moved
<1>2. \E g : g = [i \in 0..Len(moves) |->
                    IF i = 0 THEN 0
                    ELSE g[i - 1] + IF moves[i].wallet = w THEN moves[i].amount ELSE 0]
  BY MovedExists DEF MovedStep
<1>3. f = [i \in 0..Len(moves) |->
              IF i = 0 THEN 0
              ELSE f[i - 1] + IF moves[i].wallet = w THEN moves[i].amount ELSE 0]
  BY <1>2
<1>4. \A i \in 0..Len(moves) : f[i] = MovedStep(moves, w, f, i)
  BY <1>3 DEF MovedStep
<1>. HIDE DEF f
<1>5. /\ Len(moves) \in Nat
      /\ \A i \in 1..Len(moves) :
            moves[i].amount \in Int /\ i - 1 \in 0..Len(moves) /\ i \in 0..Len(moves) /\ i # 0
  <2>1. Len(moves) \in Nat /\ \A i \in 1..Len(moves) : moves[i] \in Movement
    OBVIOUS
  <2>2. \A i \in 1..Len(moves) : moves[i].amount \in Int
    BY <2>1 DEF Movement
  <2>3. \A i \in 1..Len(moves) : i - 1 \in 0..Len(moves) /\ i \in 0..Len(moves) /\ i # 0
    BY <2>1
  <2>. QED BY <2>1, <2>2, <2>3
<1>6. f[0] = 0
  BY <1>4, <1>5 DEF MovedStep
<1>7. \A i \in 1..Len(moves) :
        f[i] = f[i - 1] + IF moves[i].wallet = w THEN moves[i].amount ELSE 0
  BY <1>4, <1>5 DEF MovedStep
<1>. DEFINE Bad == {n \in 0..Len(moves) : f[n] \notin Int}
<1>8. Bad = {}
  <2>1. SUFFICES ASSUME Bad # {} PROVE FALSE
    OBVIOUS
  <2>2. PICK n \in Bad : \A m \in Bad : n <= m
    <3>1. Bad \in SUBSET Nat
      BY <1>5
    <3>. HIDE DEF Bad
    <3>. QED BY <2>1, <3>1, LeastNumber
  <2>3. n \in 1..Len(moves) /\ n - 1 \in 0..Len(moves) /\ ~(n <= n - 1)
    BY <1>5, <1>6, <2>2
  <2>4. f[n - 1] \in Int
    BY <2>2, <2>3
  <2>5. PICK a \in Int : f[n] = f[n - 1] + a
    BY <1>5, <1>7, <2>3
  <2>. QED BY <2>2, <2>4, <2>5
<1>9. \A n \in 1..Len(moves) : moves[n].wallet # w => f[n] = f[n - 1]
  BY <1>5, <1>7, <1>8
<1>. QED BY <1>1, <1>6, <1>8, <1>9

-------------------------------------------------------------------------------
(* Types                                                                       *)

\* What stands under a key, and what a request names.
LEMMA Lookups ==
  ASSUME TypeOK
  PROVE  /\ epoch.current \in Epochs /\ epoch.phase \in {"ready", "resetting"}
         /\ epoch.current \in Nat
         /\ \A e \in Epochs, k \in Keys :
              receipts[e][k] \in Receipt \cup {None} /\ claims[e][k] \in Claim \cup {None}
         /\ journal # None =>
              /\ journal \in Journal /\ journal.key \in Keys /\ journal.variant \in Variants
              /\ journal.stage \in Stages /\ journal.receipt \in Receipt \cup {None}
              /\ journal.epoch \in Epochs
<1>1. epoch.current \in Epochs /\ epoch.phase \in {"ready", "resetting"} /\ epoch.current \in Nat
  BY DEF TypeOK, Epochs
<1>2. \A e \in Epochs, k \in Keys :
        receipts[e][k] \in Receipt \cup {None} /\ claims[e][k] \in Claim \cup {None}
  BY DEF TypeOK
<1>3. journal # None => journal \in Journal
  BY DEF TypeOK
<1>. QED BY <1>1, <1>2, <1>3 DEF Journal

LEMMA GameRequests ==
  ASSUME RequestSound, pc # "idle"
  PROVE  /\ req \in Request
         /\ req.kind \in {"execute", "resolve"} => req.key \in Keys /\ req.variant \in Variants
         /\ req.kind = "move" => req.wallet \in Wallets /\ req.amount \in Amounts
         /\ req.kind \in {"execute", "resolve", "move", "read", "reset"}
BY DEF RequestSound, Request

LEMMA PlanTypes ==
  ASSUME NEW before \in Balances, NEW plan \in Plans, Affordable(before, plan),
         NEW k \in Keys, NEW v \in Variants, NEW n \in Nat
  PROVE  LET r == NewReceipt(k, v, plan, before, n) IN
         /\ r \in Receipt /\ r.key = k /\ r.variant = v /\ r.version = n
         /\ r.moves = plan /\ r.before = before /\ r.after = After(before, plan, Len(plan))
         /\ r.after \in Balances
<1>1. \A w \in Wallets : Moved(plan, Len(plan), w) \in Int
  <2>1. plan \in Seq(Movement) /\ Len(plan) \in 0..Len(plan)
    BY PlansAssumption
  <2>. QED BY <2>1, MovedSums
<1>2. After(before, plan, Len(plan)) \in [Wallets -> Int]
  BY <1>1 DEF After, Balances
<1>3. \A w \in Wallets : After(before, plan, Len(plan))[w] >= 0
  BY DEF Affordable
<1>4. After(before, plan, Len(plan)) \in Balances
  BY <1>2, <1>3 DEF Balances
<1>5. before \in [Wallets -> Int]
  BY DEF Balances
<1>. QED BY <1>2, <1>4, <1>5 DEF NewReceipt, Receipt

\* A row that proves a movement.
LEMMA RowTypes ==
  ASSUME NEW r \in Receipt, NEW n \in 1..Len(r.moves)
  PROVE  RowOf(r, n) \in Row
<1>1. r.moves \in Plans /\ r.moves \in Seq(Movement) /\ r.key \in Keys /\ r.before \in [Wallets -> Int]
  BY PlansAssumption DEF Receipt
<1>2. r.moves[n] \in Movement /\ n \in 0..Len(r.moves) /\ n \in Nat
  BY <1>1
<1>3. r.moves[n].wallet \in Wallets /\ r.moves[n].amount \in Int
  BY <1>2 DEF Movement
<1>4. Moved(r.moves, n, r.moves[n].wallet) \in Int
  BY <1>1, <1>2, <1>3, MovedSums
<1>5. After(r.before, r.moves, n)[r.moves[n].wallet] \in Int
  BY <1>1, <1>3, <1>4 DEF After
<1>. QED BY <1>1, <1>2, <1>3, <1>5 DEF RowOf, Row

-------------------------------------------------------------------------------
(* Steps that write nothing                                                    *)

LEMMA JsonInit == Init => JsonInv
<1>. SUFFICES ASSUME Init PROVE JsonInv
  OBVIOUS
<1>1. wallet \in Balances
  BY FundsAssumption DEF Init, Balances
<1>2. epoch \in [current: Epochs, phase: {"ready", "resetting"}] /\ epoch.phase = "ready"
  BY EpochAssumption DEF Init, Epochs
<1>3. /\ claims \in [Epochs -> [Keys -> Claim \cup {None}]]
      /\ receipts \in [Epochs -> [Keys -> Receipt \cup {None}]]
  BY DEF Init, Nothing
<1>4. pc = "idle" /\ req = NoRequest /\ journal = None /\ backup = None /\ NoRequest.kind = "none"
  BY DEF Init, NoRequest
<1>5. TypeOK
  BY <1>1, <1>2, <1>3, <1>4 DEF Init, TypeOK, Steps
<1>. QED BY <1>1, <1>2, <1>4, <1>5
     DEF JsonInv, RequestSound, WholeSound, ResetSound, JournalSound, ProgressSound, Resetting,
         ResetSteps, CarryingOut, AfterWallets, AfterState, AfterReceipt

\* The gate is given back, the data being what they were.
LEMMA ReturnKeeps ==
  ASSUME JsonInv, Return, UNCHANGED durable,
         failures' \in Nat, told' \subseteq [epoch: Epochs, key: Keys, outcome: Outcome]
  PROVE  JsonInv'
<1>1. pc' = "idle" /\ req' = NoRequest /\ NoRequest.kind = "none"
  BY DEF Return, NoRequest
<1>2. UNCHANGED <<wallet, rows, state, claims, receipts, epoch, journal, backup>>
  BY DEF durable, data
<1>3. TypeOK'
  BY <1>1, <1>2 DEF JsonInv, TypeOK, Steps
<1>4. RequestSound'
  BY <1>1 DEF RequestSound
<1>5. WholeSound' /\ ResetSound' /\ ProgressSound'
  BY <1>1, <1>2 DEF JsonInv, WholeSound, ResetSound, ProgressSound, Resetting, ResetSteps,
     CarryingOut, AfterWallets, AfterState, AfterReceipt
<1>6. JournalSound'
  BY <1>1, <1>2 DEF JsonInv, JournalSound, Planned, PlanSound, ReceiptOf, ClaimOf
<1>. QED BY <1>3, <1>4, <1>5, <1>6 DEF JsonInv

\* A step that only moves on: what the next step expects holds already.
LEMMA StartKeeps ==
  ASSUME JsonInv, NEW r \in Request, Start(r)
  PROVE  JsonInv'
<1>0. /\ pc' = "recover" /\ req' = r /\ backup = None /\ pc = "idle"
      /\ r.kind = "reset" => epoch.current < MaxEpoch
      /\ UNCHANGED <<wallet, rows, state, claims, receipts, epoch, journal, backup, failures, told>>
  BY DEF Start, durable, data, NoResidue
<1>1. TypeOK'
  BY <1>0 DEF JsonInv, TypeOK, Steps
<1>2. RequestSound'
  BY <1>0 DEF RequestSound
<1>3. WholeSound' /\ ResetSound' /\ ProgressSound'
  BY <1>0 DEF JsonInv, WholeSound, ResetSound, ProgressSound, Resetting, ResetSteps,
     CarryingOut, AfterWallets, AfterState, AfterReceipt
<1>4. JournalSound'
  BY <1>0 DEF JsonInv, JournalSound, Planned, PlanSound, ReceiptOf, ClaimOf
<1>. QED BY <1>1, <1>2, <1>3, <1>4 DEF JsonInv

LEMMA MoveOnKeeps ==
  ASSUME JsonInv, CarryOut \/ Recovered \/ RowsApplied \/ Resolve
  PROVE  JsonInv'
<1>0. /\ UNCHANGED <<wallet, rows, state, claims, receipts, epoch, journal, backup, failures, told, req>>
      /\ \/ pc = "recover" /\ Planned /\ pc' = "claim"
         \/ pc = "recover" /\ journal = None /\ pc' = "serve"
         \/ pc = "rows" /\ pc' = "ledger_applied"
         \/ pc = "serve" /\ req.kind = "resolve" /\ Unclaimed /\ pc' = "cancel"
  BY DEF CarryOut, Recovered, RowsApplied, Resolve, Goto, durable, data, Discardable, Planned,
     NothingToRecover
<1>1. TypeOK'
  BY <1>0 DEF JsonInv, TypeOK, Steps, StepAfter
<1>2. RequestSound'
  BY <1>0 DEF JsonInv, RequestSound, Unclaimed, MyReceipt, MyClaim, ReceiptOf, ClaimOf
<1>3. WholeSound' /\ ResetSound'
  BY <1>0 DEF JsonInv, WholeSound, ResetSound, Resetting, ResetSteps
<1>4. JournalSound' /\ ProgressSound'
  BY <1>0 DEF JsonInv, JournalSound, Planned, PlanSound, ReceiptOf, ClaimOf, ProgressSound,
     CarryingOut, AfterWallets, AfterState, AfterReceipt
<1>. QED BY <1>1, <1>2, <1>3, <1>4 DEF JsonInv

LEMMA ResetFailsKeeps ==
  ASSUME JsonInv, ResetFails
  PROVE  JsonInv'
<1>0. /\ UNCHANGED <<wallet, rows, state, claims, receipts, epoch, journal, backup, told, req>>
      /\ pc \in ResetSteps /\ pc' = "restore" /\ failures' = failures + 1
  BY DEF ResetFails, Goto, durable, data
<1>1. TypeOK'
  BY <1>0 DEF JsonInv, TypeOK, Steps
<1>2. RequestSound' /\ WholeSound' /\ ResetSound'
  BY <1>0 DEF JsonInv, RequestSound, WholeSound, ResetSound, Resetting, ResetSteps
<1>3. JournalSound' /\ ProgressSound'
  BY <1>0 DEF JsonInv, WholeSound, JournalSound, ProgressSound, Resetting, ResetSteps,
     CarryingOut, AfterWallets, AfterState, AfterReceipt
<1>. QED BY <1>1, <1>2, <1>3 DEF JsonInv

\* A caller is told only what stands under its key.
LEMMA AnswersAreOutcomes ==
  ASSUME JsonInv, AnswerCommitted \/ AnswerUncommitted
  PROVE  told' \subseteq [epoch: Epochs, key: Keys, outcome: Outcome]
<1>1. pc = "serve" /\ Game
  BY DEF AnswerCommitted, AnswerUncommitted, Committed, Cancelled
<1>2. req.key \in Keys /\ req.variant \in Variants
  BY <1>1, GameRequests DEF JsonInv, Game
<1>3. /\ epoch.current \in Epochs /\ MyReceipt \in Receipt \cup {None}
      /\ told \subseteq [epoch: Epochs, key: Keys, outcome: Outcome]
  BY <1>2, Lookups DEF JsonInv, MyReceipt, TypeOK
<1>4. PICK receipt \in Receipt \cup {None} : Tell(receipt)
  BY <1>3 DEF AnswerCommitted, AnswerUncommitted
<1>5. [variant |-> req.variant, receipt |-> receipt] \in Outcome
  BY <1>2, <1>4 DEF Outcome
<1>. QED BY <1>2, <1>3, <1>4, <1>5 DEF Tell

LEMMA AnswerKeeps ==
  ASSUME JsonInv,
         RefuseConflict \/ AnswerCommitted \/ AnswerUncommitted \/ Refuse \/ Read \/ Die
  PROVE  JsonInv'
<1>1. Return /\ UNCHANGED durable
  BY DEF RefuseConflict, AnswerCommitted, AnswerUncommitted, Refuse, Read, Die
<1>2. failures' \in Nat
  BY DEF JsonInv, TypeOK, RefuseConflict, AnswerCommitted, AnswerUncommitted, Refuse, Read, Die
<1>3. told' \subseteq [epoch: Epochs, key: Keys, outcome: Outcome]
  <2>1. CASE AnswerCommitted \/ AnswerUncommitted
    BY <2>1, AnswersAreOutcomes
  <2>2. CASE RefuseConflict \/ Refuse \/ Read \/ Die
    BY <2>2 DEF JsonInv, TypeOK, RefuseConflict, Refuse, Read, Die
  <2>. QED BY <2>1, <2>2
<1>. QED BY <1>1, <1>2, <1>3, ReturnKeeps

-------------------------------------------------------------------------------
(* Recovery                                                                    *)

LEMMA DropPreparedKeeps ==
  ASSUME JsonInv, DropPrepared
  PROVE  JsonInv'
<1>0. /\ UNCHANGED <<wallet, rows, state, claims, receipts, epoch, backup, failures, told, req>>
      /\ pc = "recover" /\ journal # None /\ journal.stage = "prepared" /\ journal' = None
      /\ \/ pc' = "cancel" /\ req.kind = "resolve" /\ req.key = journal.key
         \/ pc' = "serve"
  BY DEF DropPrepared, Goto, data, Discardable
<1>1. TypeOK'
  BY <1>0 DEF JsonInv, TypeOK, Steps
<1>2. ReceiptOf(journal.key) = None /\ ClaimOf(journal.key) = None
  BY <1>0 DEF JsonInv, JournalSound, Planned
<1>3. RequestSound'
  BY <1>0, <1>2 DEF JsonInv, RequestSound, ReceiptOf, ClaimOf
<1>4. WholeSound' /\ ResetSound' /\ JournalSound' /\ ProgressSound'
  BY <1>0 DEF JsonInv, WholeSound, ResetSound, JournalSound, ProgressSound, Resetting, ResetSteps,
     CarryingOut, AfterWallets, AfterState, AfterReceipt
<1>. QED BY <1>1, <1>3, <1>4 DEF JsonInv

\* Where a plan that is carried out stands.
LEMMA PlanInHand ==
  ASSUME JsonInv, pc \in CarryingOut
  PROVE  /\ Planned /\ journal # None /\ journal \in Journal /\ backup = None
         /\ journal.epoch = epoch.current /\ epoch.current \in Epochs
         /\ journal.key \in Keys /\ journal.variant \in Variants
         /\ PlanSound(journal.receipt)
         /\ journal.receipt.before \in Balances /\ journal.receipt.after \in Balances
         /\ journal.receipt.version \in Nat
<1>1. Planned /\ journal # None
  BY DEF JsonInv, ProgressSound, Planned
<1>2. PlanSound(journal.receipt) /\ journal.epoch = epoch.current
  BY <1>1 DEF JsonInv, JournalSound
<1>3. backup = None
  BY <1>1 DEF JsonInv, WholeSound
<1>. QED BY <1>1, <1>2, <1>3, Lookups DEF JsonInv, PlanSound, Receipt

\* A first write under a key leaves the others alone.
LEMMA FirstWrite ==
  ASSUME NEW V, NEW f \in [Epochs -> [Keys -> V]], NEW e \in Epochs, NEW k \in Keys, NEW v \in V,
         NEW g, g = [f EXCEPT ![e][k] = v]
  PROVE  /\ g \in [Epochs -> [Keys -> V]] /\ g[e][k] = v
         /\ \A d \in Epochs, j \in Keys : d # e \/ j # k => g[d][j] = f[d][j]
OBVIOUS

LEMMA CommitClaimKeeps ==
  ASSUME JsonInv, CommitClaim
  PROVE  JsonInv'
<1>0. /\ UNCHANGED <<wallet, rows, state, receipts, epoch, journal, backup, failures, told, req>>
      /\ pc = "claim" /\ pc' = "wallets"
  BY DEF CommitClaim, Goto
<1>1. /\ Planned /\ backup = None /\ PlanSound(journal.receipt)
      /\ epoch.current \in Epochs /\ journal.key \in Keys /\ journal.variant \in Variants
  BY <1>0, PlanInHand DEF CarryingOut
<1>2. claims' = [claims EXCEPT ![epoch.current][journal.key] = Executes(journal.variant)]
  BY DEF CommitClaim, ClaimAs, Executes
<1>3. claims \in [Epochs -> [Keys -> Claim \cup {None}]] /\ Executes(journal.variant) \in Claim
  BY <1>1 DEF JsonInv, TypeOK, Claim, Executes
<1>4. /\ claims' \in [Epochs -> [Keys -> Claim \cup {None}]]
      /\ claims'[epoch.current][journal.key] = Executes(journal.variant)
  BY <1>1, <1>2, <1>3, FirstWrite
<1>5. TypeOK'
  BY <1>0, <1>4 DEF JsonInv, TypeOK, Steps
<1>6. RequestSound' /\ WholeSound' /\ ResetSound'
  BY <1>0, <1>1 DEF JsonInv, RequestSound, WholeSound, ResetSound, Resetting, ResetSteps
<1>7. PlanSound(journal.receipt)'
  BY <1>0, <1>1, <1>4 DEF PlanSound, ReceiptOf, ClaimOf
<1>8. JournalSound' /\ ProgressSound'
  BY <1>0, <1>1, <1>4, <1>7 DEF JsonInv, JournalSound, ProgressSound, Planned, ClaimOf, CarryingOut,
     AfterWallets, AfterState, AfterReceipt
<1>. QED BY <1>5, <1>6, <1>8 DEF JsonInv

LEMMA ApplyWalletsKeeps ==
  ASSUME JsonInv, ApplyWallets
  PROVE  JsonInv'
<1>0. /\ UNCHANGED <<rows, state, claims, receipts, epoch, journal, backup, failures, told, req>>
      /\ pc = "wallets" /\ pc' = "wallet_applied" /\ wallet' = journal.receipt.after
  BY DEF ApplyWallets, Goto, MovedWallets
<1>1. /\ Planned /\ backup = None /\ PlanSound(journal.receipt)
      /\ journal.receipt.after \in Balances
  BY <1>0, PlanInHand DEF CarryingOut
<1>2. TypeOK'
  BY <1>0, <1>1 DEF JsonInv, TypeOK, Steps, StepAfter
<1>3. RequestSound' /\ WholeSound' /\ ResetSound'
  BY <1>0, <1>1 DEF JsonInv, RequestSound, WholeSound, ResetSound, Resetting, ResetSteps
<1>4. PlanSound(journal.receipt)'
  BY <1>0, <1>1 DEF PlanSound, ReceiptOf, ClaimOf
<1>5. JournalSound' /\ ProgressSound'
  BY <1>0, <1>1, <1>4 DEF JsonInv, JournalSound, ProgressSound, Planned, ClaimOf, CarryingOut,
     AfterWallets, AfterState, AfterReceipt
<1>. QED BY <1>2, <1>3, <1>5 DEF JsonInv

LEMMA ApplyRowKeeps ==
  ASSUME JsonInv, ApplyRow
  PROVE  JsonInv'
<1>0. /\ UNCHANGED <<wallet, state, claims, receipts, epoch, journal, backup, failures, told, req>>
      /\ pc = "rows" /\ pc' = "rows"
  BY DEF ApplyRow, Goto
<1>1. Planned /\ backup = None /\ PlanSound(journal.receipt)
  BY <1>0, PlanInHand DEF CarryingOut, AfterWallets
<1>2. PICK n \in Missing(journal.receipt) : rows' = Append(rows, RowOf(journal.receipt, n))
  BY DEF ApplyRow
<1>3. RowOf(journal.receipt, n) \in Row
  BY <1>1, <1>2, RowTypes DEF Missing, PlanSound
<1>4. TypeOK'
  BY <1>0, <1>2, <1>3 DEF JsonInv, TypeOK
<1>5. RequestSound' /\ WholeSound' /\ ResetSound'
  BY <1>0, <1>1 DEF JsonInv, RequestSound, WholeSound, ResetSound, Resetting, ResetSteps
<1>6. JournalSound' /\ ProgressSound'
  BY <1>0, <1>1 DEF JsonInv, JournalSound, ProgressSound, Planned, PlanSound, ReceiptOf, ClaimOf,
     CarryingOut, AfterWallets, AfterState, AfterReceipt
<1>. QED BY <1>4, <1>5, <1>6 DEF JsonInv

LEMMA ApplyStateKeeps ==
  ASSUME JsonInv, ApplyState
  PROVE  JsonInv'
<1>0. /\ UNCHANGED <<wallet, rows, claims, receipts, epoch, journal, backup, failures, told, req>>
      /\ pc = "states" /\ pc' = "state_applied" /\ state' = journal.receipt.version + 1
  BY DEF ApplyState, Goto
<1>1. Planned /\ backup = None /\ PlanSound(journal.receipt) /\ journal.receipt.version \in Nat
  BY <1>0, PlanInHand DEF CarryingOut, AfterWallets
<1>2. TypeOK'
  BY <1>0, <1>1 DEF JsonInv, TypeOK, Steps, StepAfter
<1>3. RequestSound' /\ WholeSound' /\ ResetSound'
  BY <1>0, <1>1 DEF JsonInv, RequestSound, WholeSound, ResetSound, Resetting, ResetSteps
<1>4. PlanSound(journal.receipt)'
  BY <1>0, <1>1 DEF PlanSound, ReceiptOf, ClaimOf
<1>5. JournalSound' /\ ProgressSound'
  BY <1>0, <1>1, <1>4 DEF JsonInv, JournalSound, ProgressSound, Planned, ClaimOf, CarryingOut,
     AfterWallets, AfterState, AfterReceipt
<1>. QED BY <1>2, <1>3, <1>5 DEF JsonInv

LEMMA CommitReceiptKeeps ==
  ASSUME JsonInv, CommitReceipt
  PROVE  JsonInv'
<1>. DEFINE r == journal.receipt
<1>0. /\ UNCHANGED <<wallet, rows, state, claims, epoch, journal, backup, failures, told, req>>
      /\ pc = "receipt" /\ pc' = "receipt_committed"
      /\ receipts' = [receipts EXCEPT ![epoch.current][r.key] = r]
  BY DEF CommitReceipt, Goto
<1>1. /\ Planned /\ backup = None /\ PlanSound(r) /\ epoch.current \in Epochs
      /\ journal.key \in Keys
  BY <1>0, PlanInHand DEF CarryingOut, AfterWallets, AfterState
<1>2. r.key = journal.key /\ r \in Receipt
  BY <1>1 DEF PlanSound
<1>3. /\ receipts' \in [Epochs -> [Keys -> Receipt \cup {None}]]
      /\ receipts'[epoch.current][journal.key] = r
  <2>1. receipts \in [Epochs -> [Keys -> Receipt \cup {None}]]
    BY DEF JsonInv, TypeOK
  <2>. HIDE DEF r
  <2>. QED BY <1>0, <1>1, <1>2, <2>1, FirstWrite
<1>4. TypeOK'
  BY <1>0, <1>3 DEF JsonInv, TypeOK, Steps, StepAfter
<1>5. RequestSound' /\ WholeSound' /\ ResetSound'
  BY <1>0, <1>1 DEF JsonInv, RequestSound, WholeSound, ResetSound, Resetting, ResetSteps
<1>6. PlanSound(journal.receipt)'
  BY <1>0, <1>1, <1>2, <1>3 DEF PlanSound, ReceiptOf, ClaimOf
<1>7. JournalSound' /\ ProgressSound'
  BY <1>0, <1>1, <1>3, <1>6 DEF JsonInv, JournalSound, ProgressSound, Planned, ClaimOf, ReceiptOf,
     CarryingOut, AfterWallets, AfterState, AfterReceipt
<1>. QED BY <1>4, <1>5, <1>7 DEF JsonInv

LEMMA RecordStageKeeps ==
  ASSUME JsonInv, RecordStage
  PROVE  JsonInv'
<1>0. /\ UNCHANGED <<wallet, rows, state, claims, receipts, epoch, backup, failures, told, req>>
      /\ journal' = [journal EXCEPT !.stage = pc]
      /\ \/ pc = "wallet_applied" /\ pc' = "rows"
         \/ pc = "ledger_applied" /\ pc' = "states"
         \/ pc = "state_applied" /\ pc' = "receipt"
         \/ pc = "receipt_committed" /\ pc' = "cleanup"
  BY DEF RecordStage, Goto, data, StepAfter
<1>1. Planned /\ backup = None /\ PlanSound(journal.receipt) /\ journal \in Journal
  BY <1>0, PlanInHand DEF CarryingOut, AfterWallets, AfterState, AfterReceipt
<1>2. /\ journal' \in Journal /\ journal'.stage # "prepared" /\ journal' # None
      /\ journal'.epoch = journal.epoch /\ journal'.key = journal.key
      /\ journal'.variant = journal.variant /\ journal'.receipt = journal.receipt
  BY <1>0, <1>1, JsonNoneAssumption DEF Journal, Stages
<1>3. TypeOK'
  BY <1>0, <1>2 DEF JsonInv, TypeOK, Steps, StepAfter
<1>4. RequestSound' /\ WholeSound' /\ ResetSound'
  BY <1>0, <1>1 DEF JsonInv, RequestSound, WholeSound, ResetSound, Resetting, ResetSteps
<1>5. PlanSound(journal.receipt)'
  BY <1>0, <1>1, <1>2 DEF PlanSound, ReceiptOf, ClaimOf
<1>6. JournalSound' /\ ProgressSound'
  BY <1>0, <1>1, <1>2, <1>5 DEF JsonInv, JournalSound, ProgressSound, Planned, ClaimOf, ReceiptOf,
     CarryingOut, AfterWallets, AfterState, AfterReceipt
<1>. QED BY <1>3, <1>4, <1>6 DEF JsonInv

LEMMA CleanupKeeps ==
  ASSUME JsonInv, Cleanup
  PROVE  JsonInv'
<1>0. /\ UNCHANGED <<wallet, rows, state, claims, receipts, epoch, backup, failures, told, req>>
      /\ pc = "cleanup" /\ pc' = "serve" /\ journal' = None
  BY DEF Cleanup, Goto, data
<1>1. backup = None
  BY <1>0, PlanInHand DEF CarryingOut, AfterWallets, AfterState, AfterReceipt
<1>2. TypeOK'
  BY <1>0 DEF JsonInv, TypeOK, Steps
<1>. QED BY <1>0, <1>1, <1>2
     DEF JsonInv, RequestSound, WholeSound, ResetSound, JournalSound, ProgressSound, Resetting,
         ResetSteps, CarryingOut, AfterWallets, AfterState, AfterReceipt

-------------------------------------------------------------------------------
(* The operation itself                                                        *)

LEMMA PrepareKeeps ==
  ASSUME JsonInv, Prepare
  PROVE  JsonInv'
<1>0. /\ UNCHANGED <<wallet, rows, state, claims, receipts, epoch, backup, failures, told, req>>
      /\ pc = "serve" /\ pc' = "plan" /\ req.kind = "execute" /\ Unclaimed
      /\ journal' = [stage |-> "prepared", epoch |-> epoch.current, key |-> req.key,
                     variant |-> req.variant, receipt |-> None]
  BY DEF Prepare, Goto, data
<1>1. epoch.current \in Epochs /\ req.key \in Keys /\ req.variant \in Variants
  BY <1>0, Lookups, GameRequests DEF JsonInv
<1>2. /\ journal' \in Journal /\ journal' # None /\ journal'.stage = "prepared"
      /\ journal'.key = req.key /\ journal'.variant = req.variant
      /\ journal'.epoch = epoch.current
  <2>1. journal' \in Journal
    BY <1>0, <1>1 DEF Journal, Stages
  <2>. QED BY <1>0, <2>1, JsonNoneAssumption
<1>3. ReceiptOf(req.key) = None /\ ClaimOf(req.key) = None
  BY <1>0 DEF Unclaimed, MyReceipt, MyClaim, ReceiptOf, ClaimOf
<1>4. backup = None
  BY <1>0 DEF JsonInv, WholeSound, Resetting, ResetSteps
<1>5. TypeOK'
  BY <1>0, <1>2 DEF JsonInv, TypeOK, Steps
<1>6. RequestSound' /\ WholeSound' /\ ResetSound'
  BY <1>0, <1>4 DEF JsonInv, RequestSound, WholeSound, ResetSound, Resetting, ResetSteps
<1>7. JournalSound' /\ ProgressSound'
  BY <1>0, <1>2, <1>3 DEF JournalSound, ProgressSound, Planned, ClaimOf, ReceiptOf,
     CarryingOut, AfterWallets, AfterState, AfterReceipt
<1>. QED BY <1>5, <1>6, <1>7 DEF JsonInv

\* What a planner's answer makes of the journal.
LEMMA PlanMade ==
  ASSUME JsonInv, Plan
  PROVE  \E moves \in Plans :
           LET r == NewReceipt(req.key, req.variant, moves, wallet, state) IN
           /\ Affordable(wallet, moves)
           /\ journal' \in Journal /\ Planned' /\ journal'.receipt = r
           /\ journal'.epoch = epoch.current /\ journal'.key = req.key
           /\ journal'.variant = req.variant
           /\ r \in Receipt /\ r.key = req.key /\ r.variant = req.variant
           /\ r.before = wallet /\ r.after \in Balances /\ r.version = state /\ r.moves = moves
           /\ wallet \in Balances
           /\ req.key \in Keys /\ req.variant \in Variants /\ epoch.current \in Epochs
           /\ ~Planned /\ journal # None /\ backup = None /\ r # None
           /\ ReceiptOf(req.key) = None /\ ClaimOf(req.key) = None
<1>1. PICK moves \in Plans :
         /\ Affordable(wallet, moves)
         /\ journal' = [journal EXCEPT !.stage = "planned",
              !.receipt = NewReceipt(req.key, req.variant, moves, wallet, state)]
  BY DEF Plan, PlanAccepted
<1>. DEFINE r == NewReceipt(req.key, req.variant, moves, wallet, state)
<1>2. /\ pc = "plan" /\ journal # None /\ journal.stage = "prepared" /\ ~Planned
      /\ journal.key = req.key /\ journal.variant = req.variant
      /\ ReceiptOf(req.key) = None /\ ClaimOf(req.key) = None /\ journal.epoch = epoch.current
  BY DEF Plan, JsonInv, ProgressSound, JournalSound, Planned
<1>3. backup = None /\ wallet \in Balances /\ state \in Nat
  BY <1>2 DEF JsonInv, WholeSound, TypeOK
<1>4. req.key \in Keys /\ req.variant \in Variants /\ journal \in Journal /\ epoch.current \in Epochs
  BY <1>2, Lookups DEF JsonInv
<1>5. /\ r \in Receipt /\ r.key = req.key /\ r.variant = req.variant /\ r.version = state
      /\ r.before = wallet /\ r.after \in Balances /\ r.moves = moves
  BY <1>1, <1>3, <1>4, PlanTypes
<1>. HIDE DEF r
<1>6. /\ journal' \in Journal /\ journal'.stage = "planned" /\ journal'.receipt = r
      /\ journal'.epoch = journal.epoch /\ journal'.key = journal.key
      /\ journal'.variant = journal.variant
  BY <1>1, <1>4, <1>5 DEF Journal, Stages, r
<1>7. Planned'
  BY <1>6, JsonNoneAssumption DEF Planned
<1>8. r # None
  BY <1>5, GameNoneAssumption
<1>. QED BY <1>1, <1>2, <1>3, <1>4, <1>5, <1>6, <1>7, <1>8 DEF r

LEMMA PlanKeeps ==
  ASSUME JsonInv, Plan
  PROVE  JsonInv'
<1>0. /\ UNCHANGED <<wallet, rows, state, claims, receipts, epoch, backup, failures, told, req>>
      /\ pc = "plan" /\ pc' = "claim"
  BY DEF Plan, Goto, data
<1>. DEFINE r == journal'.receipt
<1>1. /\ journal' \in Journal /\ Planned' /\ journal'.epoch = epoch.current
      /\ journal'.key = req.key /\ journal'.variant = req.variant
      /\ r \in Receipt /\ r.key = req.key /\ r.variant = req.variant
      /\ r.before = wallet /\ r.after \in Balances /\ r.version = state
      /\ wallet \in Balances /\ backup = None
      /\ ReceiptOf(req.key) = None /\ ClaimOf(req.key) = None
  BY PlanMade
<1>2. TypeOK'
  BY <1>0, <1>1 DEF JsonInv, TypeOK, Steps
<1>3. RequestSound' /\ WholeSound' /\ ResetSound'
  BY <1>0, <1>1 DEF JsonInv, RequestSound, WholeSound, ResetSound, Resetting, ResetSteps
<1>4. PlanSound(journal.receipt)'
  BY <1>0, <1>1 DEF PlanSound, ReceiptOf, ClaimOf
<1>5. JournalSound' /\ ProgressSound'
  BY <1>0, <1>1, <1>4 DEF JournalSound, ProgressSound, Planned,
     CarryingOut, AfterWallets, AfterState, AfterReceipt
<1>. QED BY <1>2, <1>3, <1>5 DEF JsonInv

LEMMA PlannerFailsKeeps ==
  ASSUME JsonInv, PlannerFails
  PROVE  JsonInv'
<1>0. /\ UNCHANGED <<wallet, rows, state, claims, receipts, epoch, backup, failures, told>>
      /\ pc = "plan" /\ pc' = "idle" /\ req' = NoRequest /\ NoRequest.kind = "none"
      /\ journal' = None
  BY DEF PlannerFails, Return, data, NoRequest
<1>1. TypeOK'
  BY <1>0 DEF JsonInv, TypeOK, Steps
<1>. QED BY <1>0, <1>1
     DEF JsonInv, RequestSound, WholeSound, ResetSound, JournalSound, ProgressSound, Resetting,
         ResetSteps, CarryingOut, AfterWallets, AfterState, AfterReceipt

LEMMA CancelKeeps ==
  ASSUME JsonInv, Cancel
  PROVE  JsonInv'
<1>. DEFINE mine == [variant |-> req.variant, disposition |-> "uncommitted"]
<1>0. /\ UNCHANGED <<wallet, rows, state, receipts, epoch, journal, backup, failures, told, req>>
      /\ pc = "cancel" /\ pc' = "serve" /\ req.kind = "resolve"
      /\ claims' = [claims EXCEPT ![epoch.current][req.key] = mine]
  BY DEF Cancel, ClaimAs, Goto, JsonInv, RequestSound
<1>1. epoch.current \in Epochs /\ req.key \in Keys /\ req.variant \in Variants
  BY <1>0, Lookups, GameRequests DEF JsonInv
<1>2. claims' \in [Epochs -> [Keys -> Claim \cup {None}]]
  <2>1. mine \in Claim
    BY <1>1 DEF Claim
  <2>2. claims \in [Epochs -> [Keys -> Claim \cup {None}]]
    BY DEF JsonInv, TypeOK
  <2>. HIDE DEF mine
  <2>. QED BY <1>0, <1>1, <2>1, <2>2, FirstWrite
<1>3. journal = None /\ backup = None
  BY <1>0 DEF JsonInv, JournalSound, WholeSound, Resetting, ResetSteps, CarryingOut, AfterWallets,
     AfterState, AfterReceipt
<1>4. TypeOK'
  BY <1>0, <1>2 DEF JsonInv, TypeOK, Steps
<1>. QED BY <1>0, <1>3, <1>4
     DEF JsonInv, RequestSound, WholeSound, ResetSound, JournalSound, ProgressSound, Resetting,
         ResetSteps, CarryingOut, AfterWallets, AfterState, AfterReceipt

LEMMA MoveKeeps ==
  ASSUME JsonInv, Move
  PROVE  JsonInv'
<1>. DEFINE after == wallet[req.wallet] + req.amount
            row == [key |-> None, index |-> 0, wallet |-> req.wallet, amount |-> req.amount,
                    after |-> after]
<1>0. /\ UNCHANGED <<state, claims, receipts, epoch, journal, backup, failures, told>>
      /\ pc = "serve" /\ pc' = "idle" /\ req' = NoRequest /\ NoRequest.kind = "none"
      /\ req.kind = "move" /\ after >= 0
      /\ wallet' = [wallet EXCEPT ![req.wallet] = after] /\ rows' = Append(rows, row)
  BY DEF Move, Return, NoRequest
<1>1. req.wallet \in Wallets /\ req.amount \in Int
  BY <1>0, GameRequests, FundsAssumption DEF JsonInv
<1>2. journal = None /\ backup = None /\ wallet \in Balances
  BY <1>0 DEF JsonInv, JournalSound, WholeSound, Resetting, ResetSteps, CarryingOut, AfterWallets,
     AfterState, AfterReceipt
<1>3. after \in Nat
  BY <1>0, <1>1, <1>2 DEF Balances
<1>4. wallet' \in Balances /\ row \in Row
  BY <1>0, <1>1, <1>2, <1>3 DEF Balances, Row
<1>5. TypeOK'
  <2>1. rows' \in Seq(Row)
    BY <1>0, <1>4 DEF JsonInv, TypeOK
  <2>. QED BY <1>0, <1>4, <2>1 DEF JsonInv, TypeOK, Steps
<1>. QED BY <1>0, <1>2, <1>4, <1>5
     DEF JsonInv, RequestSound, WholeSound, ResetSound, JournalSound, ProgressSound, Resetting,
         ResetSteps, CarryingOut, AfterWallets, AfterState, AfterReceipt

-------------------------------------------------------------------------------
(* Reset and rollback                                                          *)

\* What a backup holds is what a data root holds.
LEMMA BackupTypes ==
  ASSUME JsonInv, pc \in Resetting
  PROVE  /\ backup # None /\ backup \in Saved /\ journal = None
         /\ backup.wallet \in Balances /\ backup.rows \in Seq(Row) /\ backup.state \in Nat
         /\ backup.claims \in [Epochs -> [Keys -> Claim \cup {None}]]
         /\ backup.receipts \in [Epochs -> [Keys -> Receipt \cup {None}]]
         /\ backup.epoch \in [current: Epochs, phase: {"ready"}]
         /\ backup.epoch.current \in Epochs /\ backup.epoch.phase = "ready"
         /\ backup.epoch.current < MaxEpoch /\ backup.epoch.current + 1 \in Epochs
<1>1. backup # None /\ journal = None /\ backup \in Saved /\ backup.epoch.current < MaxEpoch
  BY DEF JsonInv, WholeSound, TypeOK
<1>2. backup.epoch \in [current: Epochs, phase: {"ready"}]
  BY <1>1 DEF Saved
<1>3. backup.epoch.current + 1 \in Epochs
  BY <1>1, <1>2, EpochAssumption DEF Epochs
<1>. QED BY <1>1, <1>2, <1>3 DEF Saved

LEMMA BackupKeeps ==
  ASSUME JsonInv, Backup
  PROVE  JsonInv'
<1>0. /\ UNCHANGED <<wallet, rows, state, claims, receipts, epoch, journal, failures, told, req>>
      /\ pc = "serve" /\ pc' = "erase" /\ req.kind = "reset"
      /\ backup' = [wallet |-> wallet, rows |-> rows, state |-> state,
                    claims |-> claims, receipts |-> receipts, epoch |-> epoch]
  BY DEF Backup, Goto, data
<1>1. /\ journal = None /\ backup = None /\ wallet \in Balances /\ epoch.phase = "ready"
      /\ epoch.current < MaxEpoch
  BY <1>0 DEF JsonInv, JournalSound, WholeSound, RequestSound, Resetting, ResetSteps, CarryingOut,
     AfterWallets, AfterState, AfterReceipt
<1>2. backup' \in Saved
  <2>1. epoch \in [current: Epochs, phase: {"ready"}]
    BY <1>1 DEF JsonInv, TypeOK
  <2>. QED BY <1>0, <1>1, <2>1 DEF JsonInv, TypeOK, Saved
<1>3. TypeOK'
  BY <1>0, <1>2 DEF JsonInv, TypeOK, Steps, ResetSteps
<1>4. backup' # None /\ backup'.epoch = epoch
  BY <1>0, <1>2, JsonNoneAssumption
<1>. QED BY <1>0, <1>1, <1>3, <1>4
     DEF JsonInv, RequestSound, WholeSound, ResetSound, JournalSound, ProgressSound, Resetting,
         ResetSteps, CarryingOut, AfterWallets, AfterState, AfterReceipt

LEMMA ResetStepKeeps ==
  ASSUME JsonInv, Erase \/ KeepReceipts \/ KeepClaims \/ Advance \/ Bootstrap \/ Ready \/ Restore
  PROVE  JsonInv'
<1>0. /\ UNCHANGED <<journal, backup, failures, told, req>>
      /\ pc \in {"erase", "keepReceipts", "keepClaims", "advance", "bootstrap", "ready", "restore"}
      /\ pc' \in {"keepReceipts", "keepClaims", "advance", "bootstrap", "ready", "unlink", "discard"}
  BY DEF Erase, KeepReceipts, KeepClaims, Advance, Bootstrap, Ready, Restore, Goto
<1>1. pc \in Resetting /\ pc' \in Resetting /\ pc' \in Steps
  BY <1>0 DEF Resetting, ResetSteps, Steps
<1>2. backup # None /\ backup \in Saved /\ journal = None
  BY <1>1, BackupTypes
<1>3. RequestSound' /\ WholeSound'
  BY <1>0, <1>1, <1>2 DEF JsonInv, RequestSound, WholeSound
<1>4. JournalSound' /\ ProgressSound'
  BY <1>0, <1>2 DEF JournalSound, ProgressSound, CarryingOut, AfterWallets, AfterState, AfterReceipt
<1>5. CASE Erase
  <2>1. /\ wallet' = [w \in Wallets |-> None] /\ rows' = <<>> /\ state' = 0
        /\ claims' = Nothing /\ receipts' = Nothing
        /\ epoch' = [current |-> 1, phase |-> "ready"] /\ pc' = "keepReceipts"
    BY <1>5 DEF Erase, Goto
  <2>2. /\ wallet' \in [Wallets -> {None}] /\ rows' \in Seq(Row)
        /\ claims' \in [Epochs -> [Keys -> Claim \cup {None}]]
        /\ receipts' \in [Epochs -> [Keys -> Receipt \cup {None}]]
        /\ epoch' \in [current: Epochs, phase: {"ready", "resetting"}]
    BY <2>1, EpochAssumption DEF Nothing, Epochs
  <2>3. TypeOK'
    BY <1>0, <1>1, <2>1, <2>2 DEF JsonInv, TypeOK
  <2>. QED BY <1>3, <1>4, <2>1, <2>3 DEF JsonInv, ResetSound, ResetSteps
<1>6. CASE KeepReceipts
  <2>1. /\ UNCHANGED <<wallet, rows, state, claims, epoch>> /\ pc = "keepReceipts"
        /\ pc' = "keepClaims" /\ receipts' = backup.receipts
    BY <1>6 DEF KeepReceipts, KeptReceipts, Goto
  <2>2. TypeOK'
    BY <1>0, <1>1, <2>1, BackupTypes DEF JsonInv, TypeOK
  <2>. QED BY <1>0, <1>3, <1>4, <2>1, <2>2 DEF JsonInv, ResetSound, ResetSteps
<1>7. CASE KeepClaims
  <2>1. /\ UNCHANGED <<wallet, rows, state, receipts, epoch>> /\ pc = "keepClaims"
        /\ pc' = "advance" /\ claims' = backup.claims
    BY <1>7 DEF KeepClaims, Goto
  <2>2. TypeOK'
    BY <1>0, <1>1, <2>1, BackupTypes DEF JsonInv, TypeOK
  <2>. QED BY <1>0, <1>3, <1>4, <2>1, <2>2 DEF JsonInv, ResetSound, ResetSteps
<1>8. CASE Advance
  <2>1. /\ UNCHANGED <<wallet, rows, state, claims, receipts>> /\ pc = "advance"
        /\ pc' = "bootstrap"
        /\ epoch' = [current |-> backup.epoch.current + 1, phase |-> "resetting"]
    BY <1>8 DEF Advance, Goto
  <2>2. epoch' \in [current: Epochs, phase: {"ready", "resetting"}]
    BY <1>1, <2>1, BackupTypes
  <2>3. TypeOK'
    BY <1>0, <1>1, <2>1, <2>2 DEF JsonInv, TypeOK
  <2>. QED BY <1>0, <1>3, <1>4, <2>1, <2>3 DEF JsonInv, ResetSound, ResetSteps
<1>9. CASE Bootstrap
  <2>1. /\ UNCHANGED <<rows, state, claims, receipts, epoch>> /\ pc = "bootstrap"
        /\ pc' = "ready" /\ wallet' = [w \in Wallets |-> Opening]
    BY <1>9 DEF Bootstrap, Goto
  <2>2. wallet' \in Balances
    BY <2>1, FundsAssumption DEF Balances
  <2>3. TypeOK'
    BY <1>0, <1>1, <2>1, <2>2 DEF JsonInv, TypeOK
  <2>. QED BY <1>0, <1>3, <1>4, <2>1, <2>3 DEF JsonInv, ResetSound, ResetSteps
<1>10. CASE Ready
  <2>1. /\ UNCHANGED <<wallet, rows, state, claims, receipts>> /\ pc = "ready"
        /\ pc' = "unlink" /\ epoch' = [epoch EXCEPT !.phase = "ready"]
    BY <1>10 DEF Ready, Goto
  <2>2. /\ epoch' \in [current: Epochs, phase: {"ready", "resetting"}]
        /\ epoch'.current = epoch.current /\ epoch'.phase = "ready"
    BY <2>1 DEF JsonInv, TypeOK
  <2>3. TypeOK'
    BY <1>0, <1>1, <2>1, <2>2 DEF JsonInv, TypeOK
  <2>. QED BY <1>0, <1>3, <1>4, <2>1, <2>2, <2>3 DEF JsonInv, ResetSound, ResetSteps
<1>11. CASE Restore
  <2>1. /\ wallet' = backup.wallet /\ rows' = backup.rows /\ state' = backup.state
        /\ claims' = backup.claims /\ receipts' = backup.receipts /\ epoch' = backup.epoch
        /\ pc' = "discard"
    BY <1>11 DEF Restore, Goto
  <2>2. epoch' \in [current: Epochs, phase: {"ready", "resetting"}]
    BY <1>1, <2>1, BackupTypes
  <2>3. TypeOK'
    BY <1>0, <1>1, <2>1, <2>2, BackupTypes DEF JsonInv, TypeOK
  <2>. QED BY <1>0, <1>3, <1>4, <2>1, <2>3 DEF JsonInv, ResetSound, ResetSteps
<1>. QED BY <1>5, <1>6, <1>7, <1>8, <1>9, <1>10, <1>11

LEMMA UnlinkKeeps ==
  ASSUME JsonInv, Unlink
  PROVE  JsonInv'
<1>0. /\ UNCHANGED <<wallet, rows, state, claims, receipts, epoch, journal, failures, told>>
      /\ pc \in {"unlink", "discard"} /\ backup' = None
      /\ pc' = "idle" /\ req' = NoRequest /\ NoRequest.kind = "none"
  BY DEF Unlink, Return, data, NoRequest
<1>1. pc \in Resetting
  BY <1>0 DEF Resetting, ResetSteps
<1>2. journal = None /\ backup.wallet \in Balances /\ backup.epoch.phase = "ready"
  BY <1>1, BackupTypes
<1>3. wallet \in Balances /\ epoch.phase = "ready"
  <2>1. CASE pc = "unlink"
    BY <2>1, FundsAssumption DEF JsonInv, ResetSound, Balances
  <2>2. CASE pc = "discard"
    BY <1>2, <2>2 DEF JsonInv, ResetSound
  <2>. QED BY <1>0, <2>1, <2>2
<1>4. TypeOK'
  BY <1>0 DEF JsonInv, TypeOK, Steps
<1>. QED BY <1>0, <1>2, <1>3, <1>4
     DEF JsonInv, RequestSound, WholeSound, ResetSound, JournalSound, ProgressSound, Resetting,
         ResetSteps, CarryingOut, AfterWallets, AfterState, AfterReceipt

-------------------------------------------------------------------------------
(* The invariant                                                               *)

LEMMA JsonNext ==
  ASSUME JsonInv, [Next]_vars
  PROVE  JsonInv'
<1>1. CASE UNCHANGED vars
  <2>1. UNCHANGED <<wallet, rows, state, claims, receipts, epoch, journal, backup, pc, req,
                    failures, told>>
    BY <1>1 DEF vars
  <2>2. TypeOK'
    BY <2>1 DEF JsonInv, TypeOK
  <2>3. RequestSound' /\ WholeSound' /\ ResetSound'
    BY <2>1 DEF JsonInv, RequestSound, WholeSound, ResetSound, ReceiptOf, ClaimOf
  <2>4. JournalSound' /\ ProgressSound'
    BY <2>1 DEF JsonInv, JournalSound, ProgressSound, Planned, PlanSound, ReceiptOf, ClaimOf
  <2>. QED BY <2>2, <2>3, <2>4 DEF JsonInv
<1>2. CASE \E r \in Request : Start(r)
  BY <1>2, StartKeeps
<1>3. CASE Recovery
  BY <1>3, AnswerKeeps, DropPreparedKeeps, MoveOnKeeps, CommitClaimKeeps, ApplyWalletsKeeps,
     ApplyRowKeeps, ApplyStateKeeps, CommitReceiptKeeps, RecordStageKeeps, CleanupKeeps
  DEF Recovery
<1>4. CASE Serve
  BY <1>4, AnswerKeeps, PrepareKeeps, PlanKeeps, PlannerFailsKeeps, MoveOnKeeps, CancelKeeps,
     MoveKeeps
  DEF Serve
<1>5. CASE ResetSeries
  BY <1>5, BackupKeeps, ResetStepKeeps, UnlinkKeeps DEF ResetSeries
<1>6. CASE ResetFails \/ Die
  BY <1>6, ResetFailsKeeps, AnswerKeeps
<1>. QED BY <1>1, <1>2, <1>3, <1>4, <1>5, <1>6 DEF Next

\* The inductive invariant holds of every state the program reaches.
THEOREM JsonInvariance == Spec => []JsonInv
<1>1. JsonInv /\ [Next]_vars => JsonInv'
  BY JsonNext
<1>. QED BY <1>1, JsonInit, PTL DEF Spec

\* The state of the JSON provider is what its readers expect of it.
THEOREM JsonTypes == Spec => []TypeOK
<1>1. JsonInv => TypeOK
  BY DEF JsonInv
<1>. QED BY <1>1, JsonInvariance, PTL

\* Recovery (_recover_game_action_journal_locked) never meets a data root that it
\* refuses as one for the operator, wherever operations and resets were cut.
THEOREM JsonRecoveryNeverDiverges == Spec => []RecoveryNeverDiverges
<1>1. JsonInv => RecoveryNeverDiverges
  BY DEF JsonInv, RecoveryNeverDiverges, JournalSound, PlanSound, WholeSound, NoResidue, Planned,
     ReceiptOf, ClaimOf, Executes
<1>. QED BY <1>1, JsonInvariance, PTL

\* No operation works on a data root that a reset has erased or half restored.
THEOREM JsonServesWholeData == Spec => []OnlyWholeDataIsServed
<1>1. JsonInv => OnlyWholeDataIsServed
  <2>. SUFFICES ASSUME JsonInv, pc \in Steps \ (ResetSteps \cup {"idle", "restore", "discard"})
       PROVE  NoResidue /\ epoch.phase = "ready" /\ \A w \in Wallets : wallet[w] # None
    BY DEF OnlyWholeDataIsServed
  <2>1. backup = None /\ wallet \in Balances /\ epoch.phase = "ready"
    BY DEF JsonInv, WholeSound, Resetting
  <2>2. \A w \in Wallets : wallet[w] \in Nat
    BY <2>1 DEF Balances
  <2>. QED BY <2>1, <2>2, GameNoneAssumption DEF NoResidue
<1>. QED BY <1>1, JsonInvariance, PTL

-------------------------------------------------------------------------------
(* The promise                                                                 *)

EpochNow == View.epoch.current

\* What callers see while no reset is under way.
LEMMA ViewOfData ==
  ASSUME backup = None
  PROVE  /\ View.wallet = wallet /\ View.rows = rows /\ View.state = state
         /\ View.claims = claims /\ View.receipts = receipts /\ View.epoch = epoch
BY DEF View

LEMMA JsonPromiseInit == Init => Promise!Init
<1>. SUFFICES ASSUME Init PROVE Promise!Init
  OBVIOUS
<1>1. backup = None /\ ~Planned
  BY DEF Init, Planned
<1>2. /\ View.wallet = [w \in Wallets |-> Opening] /\ View.state = 0 /\ View.epoch.current = 1
      /\ View.receipts = Nothing /\ View.claims = Nothing
  BY <1>1, ViewOfData DEF Init
<1>3. \A e \in Epochs, k \in Keys : OutcomeOf(e, k) = None
  BY <1>1, <1>2 DEF OutcomeOf, Nothing
<1>4. Outcomes = [e \in Epochs |-> [k \in Keys |-> None]]
  BY <1>3 DEF Outcomes
<1>. QED BY <1>1, <1>2, <1>4
     DEF Promise!Init, Promise!Epochs, Epochs, Balance, Version, Init

\* A step that leaves what callers see as it was.
LEMMA SameView ==
  ASSUME ~Planned, ~Planned',
         View'.wallet = View.wallet, View'.state = View.state, View'.epoch = View.epoch,
         View'.claims = View.claims, View'.receipts = View.receipts
  PROVE  UNCHANGED <<Balance, Version, EpochNow, Outcomes>>
<1>1. UNCHANGED <<Balance, Version, EpochNow>>
  BY DEF Balance, Version, EpochNow
<1>2. ASSUME NEW e \in Epochs, NEW k \in Keys PROVE OutcomeOf(e, k)' = OutcomeOf(e, k)
  BY DEF OutcomeOf
<1>3. UNCHANGED Outcomes
  BY <1>2 DEF Outcomes
<1>. QED BY <1>1, <1>3

\* A step that writes nothing.
LEMMA SameData ==
  ASSUME UNCHANGED durable
  PROVE  UNCHANGED <<Balance, Version, EpochNow, Outcomes>>
<1>1. UNCHANGED <<wallet, rows, state, claims, receipts, epoch, journal, backup>>
  BY DEF durable, data
<1>2. View' = View /\ (Planned' <=> Planned)
  BY <1>1 DEF View, Planned
<1>3. UNCHANGED <<Balance, Version, EpochNow>>
  BY <1>1, <1>2 DEF Balance, Version, EpochNow
<1>4. ASSUME NEW e \in Epochs, NEW k \in Keys PROVE OutcomeOf(e, k)' = OutcomeOf(e, k)
  BY <1>1, <1>2 DEF OutcomeOf
<1>5. UNCHANGED Outcomes
  BY <1>4 DEF Outcomes
<1>. QED BY <1>3, <1>5

\* A step that decides one key.
LEMMA OneDecided ==
  ASSUME NEW e \in Epochs, NEW k \in Keys, NEW o, OutcomeOf(e, k) = None, OutcomeOf(e, k)' = o,
         \A d \in Epochs, j \in Keys : d # e \/ j # k => OutcomeOf(d, j)' = OutcomeOf(d, j)
  PROVE  Outcomes[e][k] = None /\ Outcomes' = [Outcomes EXCEPT ![e][k] = o]
BY DEF Outcomes

\* The promise has no step for what callers do not see.
LEMMA Unseen ==
  ASSUME UNCHANGED <<Balance, Version, EpochNow, Outcomes, told>>
  PROVE  UNCHANGED Promise!vars
BY DEF Promise!vars, EpochNow

LEMMA QuietSteps ==
  ASSUME JsonInv,
         \/ \E r \in Request : Start(r)
         \/ RefuseConflict \/ CarryOut \/ Recovered \/ RowsApplied \/ Refuse \/ Resolve \/ Read
         \/ ResetFails \/ Die
  PROVE  UNCHANGED Promise!vars
<1>1. UNCHANGED durable /\ UNCHANGED told
  BY DEF Start, RefuseConflict, CarryOut, Recovered, RowsApplied, Refuse, Resolve, Read, ResetFails,
     Die
<1>. QED BY <1>1, SameData, Unseen

\* A snapshot in the journal is no plan.
LEMMA PreparingView ==
  ASSUME JsonInv, DropPrepared \/ Prepare \/ PlannerFails
  PROVE  ~Planned /\ ~Planned' /\ View' = View /\ UNCHANGED told
<1>1. /\ UNCHANGED <<wallet, rows, state, claims, receipts, epoch, backup, told>>
      /\ pc \in {"recover", "serve", "plan"}
  BY DEF DropPrepared, Prepare, PlannerFails, data
<1>2. ~Planned /\ ~Planned'
  <2>1. CASE DropPrepared
    BY <2>1 DEF DropPrepared, Discardable, Planned
  <2>2. CASE Prepare
    <3>1. pc = "serve" /\ journal'.stage = "prepared"
      BY <2>2 DEF Prepare
    <3>2. journal = None
      BY <3>1 DEF JsonInv, JournalSound, CarryingOut, AfterWallets, AfterState, AfterReceipt
    <3>. QED BY <3>1, <3>2 DEF Planned
  <2>3. CASE PlannerFails
    BY <2>3 DEF PlannerFails, JsonInv, ProgressSound, Planned
  <2>. QED BY <2>1, <2>2, <2>3
<1>3. View' = View
  BY <1>1 DEF View
<1>. QED BY <1>1, <1>2, <1>3

LEMMA PreparingSteps ==
  ASSUME JsonInv, DropPrepared \/ Prepare \/ PlannerFails
  PROVE  UNCHANGED Promise!vars
BY PreparingView, SameView, Unseen

LEMMA CarryingOutSteps ==
  ASSUME JsonInv, CommitClaim \/ ApplyWallets \/ ApplyRow \/ ApplyState \/ CommitReceipt \/ RecordStage
  PROVE  UNCHANGED Promise!vars
<1>. DEFINE r == journal.receipt
<1>1. pc \in CarryingOut /\ UNCHANGED <<epoch, backup, told>>
  BY DEF CommitClaim, ApplyWallets, ApplyRow, ApplyState, CommitReceipt, RecordStage, data, StepAfter,
     CarryingOut, AfterWallets, AfterState, AfterReceipt
<1>2. /\ Planned /\ backup = None /\ journal.epoch = epoch.current /\ PlanSound(r)
      /\ journal \in Journal /\ epoch.current \in Epochs /\ journal.key \in Keys
  BY <1>1, PlanInHand
<1>3. /\ Planned' /\ journal'.receipt = r /\ journal'.key = journal.key
      /\ journal'.variant = journal.variant /\ journal'.epoch = journal.epoch
  <2>1. CASE RecordStage
    <3>1. journal' = [journal EXCEPT !.stage = pc] /\ pc \in DOMAIN StepAfter
      BY <2>1 DEF RecordStage
    <3>2. pc \in Stages /\ pc # "prepared"
      BY <3>1 DEF StepAfter, Stages
    <3>3. journal' \in Journal /\ journal'.stage = pc
      BY <1>2, <3>1, <3>2 DEF Journal
    <3>. QED BY <1>2, <3>1, <3>2, <3>3, JsonNoneAssumption DEF Planned, Journal
  <2>2. CASE CommitClaim \/ ApplyWallets \/ ApplyRow \/ ApplyState \/ CommitReceipt
    BY <1>2, <2>2 DEF CommitClaim, ApplyWallets, ApplyRow, ApplyState, CommitReceipt, Planned
  <2>. QED BY <2>1, <2>2
<1>4. /\ View.receipts = receipts /\ View.claims = claims /\ View.epoch = epoch
      /\ View'.receipts = receipts' /\ View'.claims = claims' /\ View'.epoch = epoch
  BY <1>1, <1>2 DEF View
<1>5. UNCHANGED <<Balance, Version, EpochNow>>
  BY <1>2, <1>3, <1>4 DEF Balance, Version, EpochNow
<1>6. ASSUME NEW e \in Epochs, NEW k \in Keys PROVE OutcomeOf(e, k)' = OutcomeOf(e, k)
  <2>1. CASE e = epoch.current /\ k = journal.key
    <3>1. receipts[e][k] \in {None, r} /\ receipts'[e][k] \in {None, r}
      <4>1. receipts[e][k] \in {None, r} /\ r.key = k
        BY <1>2, <2>1 DEF PlanSound, ReceiptOf
      <4>2. receipts' = receipts \/ receipts' = [receipts EXCEPT ![e][k] = r]
        BY <2>1, <4>1 DEF CommitClaim, ApplyWallets, ApplyRow, ApplyState, CommitReceipt, RecordStage, data
      <4>3. receipts \in [Epochs -> [Keys -> Receipt \cup {None}]]
        BY DEF JsonInv, TypeOK
      <4>4. r \in Receipt
        BY <1>2 DEF PlanSound
      <4>. HIDE DEF r
      <4>. QED BY <4>1, <4>2, <4>3, <4>4, FirstWrite
    <3>2. r.variant = journal.variant
      BY <1>2 DEF PlanSound
    <3>. QED BY <1>2, <1>3, <1>4, <2>1, <3>1, <3>2 DEF OutcomeOf
  <2>2. CASE ~(e = epoch.current /\ k = journal.key)
    <3>1. receipts'[e][k] = receipts[e][k] /\ claims'[e][k] = claims[e][k]
      <4>1. CASE CommitClaim
        <5>1. /\ receipts' = receipts
              /\ claims' = [claims EXCEPT ![epoch.current][journal.key] = Executes(journal.variant)]
          BY <4>1 DEF CommitClaim, ClaimAs, Executes
        <5>2. claims \in [Epochs -> [Keys -> Claim \cup {None}]]
          BY DEF JsonInv, TypeOK
        <5>. QED BY <1>2, <2>2, <5>1, <5>2
      <4>2. CASE CommitReceipt
        <5>1. claims' = claims /\ receipts' = [receipts EXCEPT ![epoch.current][r.key] = r]
          BY <4>2 DEF CommitReceipt
        <5>2. receipts \in [Epochs -> [Keys -> Receipt \cup {None}]]
          BY DEF JsonInv, TypeOK
        <5>3. r.key = journal.key
          BY <1>2 DEF PlanSound
        <5>4. receipts' = [receipts EXCEPT ![epoch.current][journal.key] = r]
          BY <5>1, <5>3
        <5>. HIDE DEF r
        <5>5. receipts'[e][k] = receipts[e][k]
          BY <1>2, <2>2, <5>2, <5>4
        <5>. QED BY <5>1, <5>5
      <4>3. CASE ApplyWallets \/ ApplyRow \/ ApplyState \/ RecordStage
        BY <4>3 DEF ApplyWallets, ApplyRow, ApplyState, RecordStage, data
      <4>. QED BY <4>1, <4>2, <4>3
    <3>. QED BY <1>2, <1>3, <1>4, <2>2, <3>1 DEF OutcomeOf
  <2>. QED BY <2>1, <2>2
<1>7. UNCHANGED Outcomes
  BY <1>6 DEF Outcomes
<1>. QED BY <1>1, <1>5, <1>7, Unseen

\* The promise speaks of the same receipts and balances.
LEMMA JsonVocabulary ==
  /\ Promise!Epochs = Epochs
  /\ \A before, plan : Promise!Affordable(before, plan) <=> Affordable(before, plan)
  /\ \A k, v, plan, before, n :
        Promise!NewReceipt(k, v, plan, before, n) = NewReceipt(k, v, plan, before, n)
<1>1. \A plan, n, w : Promise!Moved(plan, n, w) = Moved(plan, n, w)
  BY DEF Promise!Moved, Moved
<1>2. \A before, plan, n : Promise!After(before, plan, n) = After(before, plan, n)
  BY <1>1 DEF Promise!After, After
<1>3. \A before, plan : Promise!Affordable(before, plan) <=> Affordable(before, plan)
  BY <1>2 DEF Promise!Affordable, Affordable
<1>4. \A k, v, plan, before, n :
        Promise!NewReceipt(k, v, plan, before, n) = NewReceipt(k, v, plan, before, n)
  BY <1>2 DEF Promise!NewReceipt, NewReceipt
<1>. QED BY <1>3, <1>4 DEF Promise!Epochs, Epochs

\* When the journal goes, its plan has been carried out.
LEMMA CleanupStep ==
  ASSUME JsonInv, Cleanup
  PROVE  UNCHANGED Promise!vars
<1>. DEFINE r == journal.receipt
<1>0. /\ UNCHANGED <<wallet, rows, state, claims, receipts, epoch, backup, told>>
      /\ pc = "cleanup" /\ journal' = None
  BY DEF Cleanup, data
<1>1. /\ Planned /\ backup = None /\ journal.epoch = epoch.current /\ PlanSound(r) /\ ~Planned'
      /\ wallet = r.after /\ state = r.version + 1 /\ ReceiptOf(journal.key) = r
  BY <1>0, PlanInHand
  DEF JsonInv, ProgressSound, CarryingOut, AfterWallets, AfterState, AfterReceipt, Planned
<1>2. /\ View' = View /\ View.wallet = wallet /\ View.state = state /\ View.receipts = receipts
      /\ View.claims = claims
  BY <1>0, <1>1 DEF View
<1>3. UNCHANGED <<Balance, Version, EpochNow>>
  BY <1>1, <1>2 DEF Balance, Version, EpochNow
<1>4. ASSUME NEW e \in Epochs, NEW k \in Keys PROVE OutcomeOf(e, k)' = OutcomeOf(e, k)
  <2>1. journal.epoch = e /\ journal.key = k => receipts[e][k] # None
    BY <1>1, GameNoneAssumption DEF PlanSound, ReceiptOf
  <2>. QED BY <1>1, <1>2, <2>1 DEF OutcomeOf
<1>5. UNCHANGED Outcomes
  BY <1>4 DEF Outcomes
<1>. QED BY <1>0, <1>3, <1>5, Unseen

\* A backup, the steps of the reset, and its rollback.
LEMMA HiddenView ==
  ASSUME JsonInv,
         \/ Backup \/ Erase \/ KeepReceipts \/ KeepClaims \/ Advance \/ Bootstrap \/ Ready \/ Restore
         \/ Unlink /\ pc = "discard"
  PROVE  /\ ~Planned /\ ~Planned' /\ UNCHANGED told
         /\ View'.wallet = View.wallet /\ View'.rows = View.rows /\ View'.state = View.state
         /\ View'.epoch = View.epoch /\ View'.claims = View.claims
         /\ View'.receipts = View.receipts
<1>1. UNCHANGED <<journal, told>>
  BY DEF Backup, Erase, KeepReceipts, KeepClaims, Advance, Bootstrap, Ready, Restore, Unlink
<1>2. journal = None /\ ~Planned /\ ~Planned'
  <2>1. pc \in {"serve"} \cup Resetting
    BY DEF Backup, Erase, KeepReceipts, KeepClaims, Advance, Bootstrap, Ready, Restore, Resetting,
       ResetSteps
  <2>2. journal = None
    BY <2>1, BackupTypes
    DEF JsonInv, JournalSound, CarryingOut, AfterWallets, AfterState, AfterReceipt
  <2>. QED BY <1>1, <2>2 DEF Planned
<1>3. /\ View'.wallet = View.wallet /\ View'.rows = View.rows /\ View'.state = View.state
      /\ View'.epoch = View.epoch /\ View'.claims = View.claims /\ View'.receipts = View.receipts
  <2>1. CASE Backup
    <3>1. backup = None
      BY <2>1 DEF Backup, JsonInv, WholeSound, Resetting, ResetSteps
    <3>2. backup' = View
      BY <2>1, <3>1 DEF Backup, View
    <3>3. View' = View
      BY <2>1, <3>1, <3>2 DEF Backup, View, data
    <3>. QED BY <3>3
  <2>2. CASE Erase \/ KeepReceipts \/ KeepClaims \/ Advance \/ Bootstrap \/ Ready \/ Restore
    <3>1. pc \in Resetting /\ backup' = backup
      BY <2>2 DEF Erase, KeepReceipts, KeepClaims, Advance, Bootstrap, Ready, Restore, Resetting,
         ResetSteps
    <3>. QED BY <3>1, BackupTypes DEF View
  <2>3. CASE Unlink /\ pc = "discard"
    <3>1. pc \in Resetting
      BY <2>3 DEF Resetting
    <3>2. /\ wallet = backup.wallet /\ rows = backup.rows /\ state = backup.state /\ epoch = backup.epoch
          /\ claims = backup.claims /\ receipts = backup.receipts /\ backup # None
      BY <2>3, <3>1, BackupTypes DEF JsonInv, ResetSound
    <3>3. backup' = None /\ UNCHANGED <<wallet, rows, state, epoch, claims, receipts>>
      BY <2>3 DEF Unlink, data
    <3>. QED BY <3>2, <3>3 DEF View
  <2>. QED BY <2>1, <2>2, <2>3
<1>. QED BY <1>1, <1>2, <1>3

LEMMA HiddenReset ==
  ASSUME JsonInv,
         \/ Backup \/ Erase \/ KeepReceipts \/ KeepClaims \/ Advance \/ Bootstrap \/ Ready \/ Restore
         \/ Unlink /\ pc = "discard"
  PROVE  UNCHANGED Promise!vars
BY HiddenView, SameView, Unseen

\* The reset takes effect when its backup goes.
LEMMA ResetStep ==
  ASSUME JsonInv, Unlink, pc = "unlink"
  PROVE  Promise!Next
<1>1. /\ UNCHANGED <<wallet, rows, state, claims, receipts, epoch, journal, told>> /\ backup' = None
  BY DEF Unlink, data
<1>2. /\ backup # None /\ journal = None /\ backup.epoch.current < MaxEpoch
  <2>1. pc \in Resetting
    BY DEF Resetting, ResetSteps
  <2>. QED BY <2>1, BackupTypes
<1>3. /\ wallet = [w \in Wallets |-> Opening] /\ state = 0 /\ claims = backup.claims
      /\ receipts = backup.receipts /\ epoch.current = backup.epoch.current + 1
  BY DEF JsonInv, ResetSound, ResetSteps
<1>4. ~Planned /\ ~Planned'
  BY <1>1, <1>2 DEF Planned
<1>5. View = backup
  BY <1>2 DEF View
<1>6. /\ View'.wallet = wallet /\ View'.state = state /\ View'.claims = claims
      /\ View'.receipts = receipts /\ View'.epoch = epoch
  BY <1>1 DEF View
<1>7. ASSUME NEW e \in Epochs, NEW k \in Keys PROVE OutcomeOf(e, k)' = OutcomeOf(e, k)
  BY <1>3, <1>4, <1>5, <1>6 DEF OutcomeOf
<1>8. UNCHANGED Outcomes
  BY <1>7 DEF Outcomes
<1>9. Promise!Reset
  BY <1>1, <1>2, <1>3, <1>4, <1>5, <1>6, <1>8 DEF Promise!Reset, Balance, Version
<1>. QED BY <1>9 DEF Promise!Next

\* An action takes effect when its plan is recorded.
LEMMA PlanStep ==
  ASSUME JsonInv, Plan
  PROVE  Promise!Next
<1>0. UNCHANGED <<wallet, rows, state, claims, receipts, epoch, backup, told>>
  BY DEF Plan, data
<1>1. PICK moves \in Plans :
        LET r == NewReceipt(req.key, req.variant, moves, wallet, state) IN
        /\ Affordable(wallet, moves) /\ Planned' /\ ~Planned
        /\ journal'.receipt = r
        /\ journal'.epoch = epoch.current /\ journal'.key = req.key
        /\ journal'.variant = req.variant /\ r.version = state /\ backup = None
        /\ req.key \in Keys /\ req.variant \in Variants /\ epoch.current \in Epochs
        /\ ReceiptOf(req.key) = None /\ ClaimOf(req.key) = None
  BY PlanMade
<1>2. PICK e \in Epochs, k \in Keys, v \in Variants :
        e = epoch.current /\ k = req.key /\ v = req.variant
  BY <1>1
<1>3. PICK r : r = NewReceipt(k, v, moves, wallet, state)
  OBVIOUS
<1>4. /\ journal'.receipt = r /\ journal'.epoch = e /\ journal'.key = k /\ journal'.variant = v
      /\ r.version = state /\ receipts[e][k] = None /\ claims[e][k] = None
  BY <1>1, <1>2, <1>3 DEF ReceiptOf, ClaimOf
<1>5. /\ View' = View /\ View.wallet = wallet /\ View.state = state /\ View.receipts = receipts
      /\ View.claims = claims /\ View.epoch = epoch
  BY <1>0, <1>1 DEF View
<1>6. /\ Balance = wallet /\ Version = state /\ Balance' = r.after /\ Version' = state + 1
  BY <1>0, <1>1, <1>4, <1>5 DEF Balance, Version
<1>. DEFINE o == [variant |-> v, receipt |-> r]
<1>7. OutcomeOf(e, k) = None /\ OutcomeOf(e, k)' = o
  BY <1>1, <1>4, <1>5 DEF OutcomeOf
<1>8. \A d \in Epochs, j \in Keys : d # e \/ j # k => OutcomeOf(d, j)' = OutcomeOf(d, j)
  BY <1>1, <1>4, <1>5 DEF OutcomeOf
<1>9. /\ Outcomes[e][k] = None
      /\ Outcomes' = [Outcomes EXCEPT ![e][k] = o]
  <2>. HIDE DEF o
  <2>. QED BY <1>7, <1>8, OneDecided
<1>10. Promise!NewReceipt(k, v, moves, Balance, Version) = r
  BY <1>3, <1>6, JsonVocabulary
<1>11. Promise!Affordable(Balance, moves)
  BY <1>1, <1>6, JsonVocabulary
<1>12. Promise!Commit(k, v, moves)
  BY <1>0, <1>2, <1>5, <1>6, <1>9, <1>10, <1>11 DEF Promise!Commit, Promise!Decide
<1>. QED BY <1>12 DEF Promise!Next

\* A resolver's claim cancels the action.
LEMMA CancelStep ==
  ASSUME JsonInv, Cancel
  PROVE  Promise!Next
<1>0. /\ UNCHANGED <<wallet, rows, state, receipts, epoch, journal, backup, told>> /\ pc = "cancel"
      /\ claims' = [claims EXCEPT ![epoch.current][req.key] =
                      [variant |-> req.variant, disposition |-> "uncommitted"]]
  BY DEF Cancel, ClaimAs
<1>1. /\ epoch.current \in Epochs /\ req.key \in Keys /\ req.variant \in Variants
      /\ ReceiptOf(req.key) = None /\ ClaimOf(req.key) = None
  BY <1>0, Lookups, GameRequests DEF JsonInv, RequestSound
<1>2. PICK e \in Epochs, k \in Keys, v \in Variants :
        e = epoch.current /\ k = req.key /\ v = req.variant
  BY <1>1
<1>. DEFINE mine == [variant |-> v, disposition |-> "uncommitted"]
            o == [variant |-> v, receipt |-> None]
<1>3. journal = None /\ backup = None /\ ~Planned /\ ~Planned'
  BY <1>0 DEF JsonInv, JournalSound, WholeSound, Resetting, ResetSteps, CarryingOut, AfterWallets,
     AfterState, AfterReceipt, Planned
<1>4. /\ View.wallet = wallet /\ View.state = state /\ View.receipts = receipts
      /\ View.claims = claims /\ View.epoch = epoch
      /\ View'.wallet = wallet /\ View'.state = state /\ View'.receipts = receipts
      /\ View'.claims = claims' /\ View'.epoch = epoch
  BY <1>0, <1>3 DEF View
<1>5. claims \in [Epochs -> [Keys -> Claim \cup {None}]] /\ mine \in Claim
  BY DEF JsonInv, TypeOK, Claim
<1>6. /\ claims'[e][k] = mine
      /\ \A d \in Epochs, j \in Keys : d # e \/ j # k => claims'[d][j] = claims[d][j]
  <2>1. claims' = [claims EXCEPT ![e][k] = mine]
    BY <1>0, <1>2
  <2>. HIDE DEF mine
  <2>. QED BY <1>5, <2>1, FirstWrite
<1>7. OutcomeOf(e, k) = None /\ OutcomeOf(e, k)' = o
  <2>1. mine # None
    BY <1>5, JsonNoneAssumption
  <2>2. receipts[e][k] = None /\ claims[e][k] = None
    BY <1>1, <1>2 DEF ReceiptOf, ClaimOf
  <2>. QED BY <1>3, <1>4, <1>6, <2>1, <2>2 DEF OutcomeOf
<1>8. \A d \in Epochs, j \in Keys : d # e \/ j # k => OutcomeOf(d, j)' = OutcomeOf(d, j)
  BY <1>3, <1>4, <1>6 DEF OutcomeOf
<1>9. /\ Outcomes[e][k] = None
      /\ Outcomes' = [Outcomes EXCEPT ![e][k] = o]
  <2>. HIDE DEF o
  <2>. QED BY <1>7, <1>8, OneDecided
<1>10. UNCHANGED <<Balance, Version, View.epoch.current>>
  BY <1>3, <1>4 DEF Balance, Version
<1>11. Promise!Cancel(k, v)
  BY <1>0, <1>2, <1>4, <1>9, <1>10 DEF Promise!Cancel, Promise!Decide
<1>. QED BY <1>11 DEF Promise!Next

\* A caller is told what became of its key.
LEMMA AnswerStep ==
  ASSUME JsonInv, AnswerCommitted \/ AnswerUncommitted
  PROVE  Promise!Next
<1>0. UNCHANGED durable /\ pc = "serve" /\ Game
  BY DEF AnswerCommitted, AnswerUncommitted, Committed, Cancelled
<1>1. epoch.current \in Epochs /\ req.key \in Keys /\ req.variant \in Variants
  BY <1>0, Lookups, GameRequests DEF JsonInv, Game
<1>2. journal = None /\ backup = None /\ ~Planned
  BY <1>0 DEF JsonInv, JournalSound, WholeSound, Resetting, ResetSteps, CarryingOut, AfterWallets,
     AfterState, AfterReceipt, Planned
<1>3. UNCHANGED <<Balance, Version, EpochNow, Outcomes>>
  BY <1>0, SameData
<1>4. PICK receipt \in Receipt \cup {None} :
        /\ Tell(receipt)
        /\ OutcomeOf(epoch.current, req.key) = [variant |-> req.variant, receipt |-> receipt]
  <2>1. CASE AnswerCommitted
    <3>1. MyReceipt \in Receipt /\ MyReceipt # None /\ MyReceipt.variant = req.variant /\ Tell(MyReceipt)
      BY <1>1, <2>1, Lookups DEF AnswerCommitted, Committed, MyReceipt, JsonInv
    <3>2. OutcomeOf(epoch.current, req.key) = [variant |-> req.variant, receipt |-> MyReceipt]
      BY <1>2, <3>1, ViewOfData DEF OutcomeOf, MyReceipt
    <3>. QED BY <3>1, <3>2
  <2>2. CASE AnswerUncommitted
    <3>1. /\ MyReceipt = None /\ MyClaim # None /\ Tell(None)
          /\ MyClaim.variant = req.variant /\ MyClaim.disposition = "uncommitted"
      BY <2>2 DEF AnswerUncommitted, Cancelled
    <3>2. OutcomeOf(epoch.current, req.key) = [variant |-> req.variant, receipt |-> None]
      BY <1>2, <3>1, ViewOfData DEF OutcomeOf, MyReceipt, MyClaim
    <3>. QED BY <3>1, <3>2
  <2>. QED BY <2>1, <2>2
<1>5. [variant |-> req.variant, receipt |-> receipt] # None
  <2>1. [variant |-> req.variant, receipt |-> receipt] \in Outcome
    BY <1>1 DEF Outcome
  <2>. QED BY <2>1, GameNoneAssumption
<1>6. Outcomes[epoch.current][req.key] = [variant |-> req.variant, receipt |-> receipt]
  BY <1>1, <1>4 DEF Outcomes
<1>7. Promise!Tell(epoch.current, req.key)
  BY <1>3, <1>4, <1>5, <1>6 DEF Promise!Tell, Tell, EpochNow
<1>. QED BY <1>1, <1>7, JsonVocabulary DEF Promise!Next

\* A wallet moves outside game actions.
LEMMA MoveStep ==
  ASSUME JsonInv, Move
  PROVE  Promise!Next
<1>0. /\ UNCHANGED <<state, claims, receipts, epoch, journal, backup, told>>
      /\ pc = "serve" /\ req.kind = "move" /\ wallet[req.wallet] + req.amount >= 0
      /\ wallet' = [wallet EXCEPT ![req.wallet] = wallet[req.wallet] + req.amount]
  BY DEF Move
<1>1. req.wallet \in Wallets /\ req.amount \in Amounts
  BY <1>0, GameRequests DEF JsonInv
<1>2. journal = None /\ backup = None
  BY <1>0 DEF JsonInv, JournalSound, WholeSound, Resetting, ResetSteps, CarryingOut, AfterWallets,
     AfterState, AfterReceipt
<1>3. ~Planned /\ ~Planned'
  BY <1>0, <1>2 DEF Planned
<1>4. /\ View.wallet = wallet /\ View.state = state /\ View.receipts = receipts
      /\ View.claims = claims /\ View.epoch = epoch
      /\ View'.wallet = wallet' /\ View'.state = state /\ View'.receipts = receipts
      /\ View'.claims = claims /\ View'.epoch = epoch
  BY <1>0, <1>2 DEF View
<1>5. ASSUME NEW e \in Epochs, NEW k \in Keys PROVE OutcomeOf(e, k)' = OutcomeOf(e, k)
  BY <1>3, <1>4 DEF OutcomeOf
<1>6. UNCHANGED Outcomes
  BY <1>5 DEF Outcomes
<1>7. Balance = wallet /\ Balance' = wallet' /\ UNCHANGED <<Version, View.epoch.current>>
  BY <1>3, <1>4 DEF Balance, Version
<1>8. Promise!Move(req.wallet, req.amount)
  BY <1>0, <1>6, <1>7 DEF Promise!Move
<1>. QED BY <1>1, <1>8 DEF Promise!Next

LEMMA JsonPromiseStep ==
  ASSUME JsonInv, [Next]_vars
  PROVE  [Promise!Next]_(Promise!vars)
<1>1. CASE UNCHANGED vars
  <2>1. UNCHANGED durable /\ UNCHANGED told
    BY <1>1 DEF vars, durable, data
  <2>. QED BY <2>1, SameData, Unseen
<1>2. CASE \E r \in Request : Start(r)
  BY <1>2, QuietSteps
<1>3. CASE Recovery
  BY <1>3, QuietSteps, PreparingSteps, CarryingOutSteps, CleanupStep DEF Recovery
<1>4. CASE Serve
  BY <1>4, QuietSteps, AnswerStep, PreparingSteps, PlanStep, CancelStep, MoveStep DEF Serve
<1>5. CASE ResetSeries
  <2>1. CASE Unlink
    <3>1. pc = "unlink" \/ pc = "discard"
      BY <2>1 DEF Unlink
    <3>. QED BY <2>1, <3>1, ResetStep, HiddenReset
  <2>. QED BY <1>5, <2>1, HiddenReset DEF ResetSeries
<1>6. CASE ResetFails \/ Die
  BY <1>6, QuietSteps
<1>. QED BY <1>1, <1>2, <1>3, <1>4, <1>5, <1>6 DEF Next

\* The JSON provider keeps what every provider promises (GameActionStore): stages,
\* recoveries, crashes, resets and rollbacks show a caller actions and resets that
\* happen in one step or not at all, and outcomes that stay what they were.
THEOREM JsonImplementsPromise == Spec => ImplementsPromise
BY JsonPromiseInit, JsonPromiseStep, JsonInvariance, PTL DEF Spec, ImplementsPromise, Promise!Spec

-------------------------------------------------------------------------------
(* All of an action or nothing                                                 *)

AfterRows == {"ledger_applied", "states"} \cup AfterState

\* The keys of this epoch that have a receipt, and those that had one when the
\* action under way was planned.
Done == {k \in Keys : View.receipts[View.epoch.current][k] # None}
UnderWay(k) == Planned /\ k = journal.key
DoneBefore == {k \in Done : ~UnderWay(k)}

\* The state document counts committed actions.
CountSound ==
  (IF Planned THEN journal.receipt.version ELSE View.state) = Cardinality(DoneBefore)

\* Claims to execute are those of committed actions; no later epoch has any.
ClaimsSound ==
  /\ \A k \in Keys : ~UnderWay(k) =>
       (k \in Done <=> (/\ View.claims[View.epoch.current][k] # None
                        /\ View.claims[View.epoch.current][k].disposition = "execute"))
  /\ \A e \in Epochs, k \in Keys : e > View.epoch.current =>
       View.receipts[e][k] = None /\ View.claims[e][k] = None

RowsProve(r) ==
  \A n \in 1..Len(r.moves) : \E i \in 1..Len(View.rows) : View.rows[i] = RowOf(r, n)

\* The ledger has the rows of committed actions, and of the one under way those
\* written so far, each once.
RowsSound ==
  /\ \A k \in DoneBefore : RowsProve(View.receipts[View.epoch.current][k])
  /\ pc \in AfterRows => RowsProve(journal.receipt)
  /\ \A i \in 1..Len(View.rows) : View.rows[i].key # None =>
       View.rows[i].key \in Done \/ UnderWay(View.rows[i].key)
  /\ \A i \in 1..Len(View.rows) : UnderWay(View.rows[i].key) =>
       View.rows[i] = RowOf(journal.receipt, View.rows[i].index)
  /\ \A i, j \in 1..Len(View.rows) : View.rows[i].key # None /\ i # j =>
       <<View.rows[i].key, View.rows[i].index>> # <<View.rows[j].key, View.rows[j].index>>

\* The inductive invariant, on top of JsonInv.
WholeActions == CountSound /\ ClaimsSound /\ RowsSound

LEMMA WholeInit == Init => WholeActions
<1>. SUFFICES ASSUME Init PROVE WholeActions
  OBVIOUS
<1>1. backup = None /\ ~Planned /\ pc = "idle"
  BY DEF Init, Planned
<1>2. /\ View.rows = <<>> /\ View.state = 0 /\ View.epoch.current = 1
      /\ View.receipts = Nothing /\ View.claims = Nothing
  BY <1>1, ViewOfData DEF Init
<1>3. 1 \in Epochs
  BY EpochAssumption DEF Epochs
<1>4. Done = {} /\ DoneBefore = {}
  BY <1>2, <1>3 DEF Done, DoneBefore, Nothing
<1>5. CountSound
  BY <1>1, <1>2, <1>4, FS_EmptySet DEF CountSound
<1>6. ClaimsSound
  BY <1>2, <1>3, <1>4 DEF ClaimsSound, Nothing
<1>7. RowsSound
  BY <1>1, <1>2, <1>4 DEF RowsSound, AfterRows, AfterState, AfterReceipt
<1>. QED BY <1>5, <1>6, <1>7 DEF WholeActions

\* A step that writes no claim, row or receipt, and counts nothing.
LEMMA SameActions ==
  ASSUME WholeActions, Planned' <=> Planned,
         Planned => journal'.key = journal.key /\ journal'.receipt = journal.receipt,
         ~Planned => View'.state = View.state,
         View'.rows = View.rows, View'.claims = View.claims, View'.receipts = View.receipts,
         View'.epoch = View.epoch,
         pc' \in AfterRows => pc \in AfterRows /\ Planned
  PROVE  WholeActions'
<1>1. \A k : UnderWay(k)' <=> UnderWay(k)
  BY DEF UnderWay
<1>2. Done' = Done
  BY DEF Done
<1>3. DoneBefore' = DoneBefore
  BY <1>1, <1>2 DEF DoneBefore
<1>4. CountSound'
  BY <1>3 DEF WholeActions, CountSound
<1>5. ClaimsSound'
  BY <1>1, <1>2 DEF WholeActions, ClaimsSound
<1>6. RowsSound'
  <2>1. \A r : RowsProve(r)' <=> RowsProve(r)
    BY DEF RowsProve
  <2>2. \A k : UnderWay(k) => journal'.receipt = journal.receipt
    BY DEF UnderWay
  <2>. QED BY <1>1, <1>2, <1>3, <2>1, <2>2 DEF WholeActions, RowsSound
<1>. QED BY <1>4, <1>5, <1>6 DEF WholeActions

LEMMA QuietKeepsWhole ==
  ASSUME JsonInv, WholeActions, UNCHANGED durable, pc' \notin AfterRows
  PROVE  WholeActions'
<1>1. View' = View /\ (Planned' <=> Planned) /\ journal' = journal
  BY DEF durable, data, View, Planned
<1>. QED BY <1>1, SameActions

\* The rows of an action are complete when recovery says so.
LEMMA RowsAppliedKeepsWhole ==
  ASSUME JsonInv, WholeActions, RowsApplied
  PROVE  WholeActions'
<1>. DEFINE r == journal.receipt
<1>0. /\ UNCHANGED <<wallet, rows, state, claims, receipts, epoch, journal, backup>>
      /\ pc = "rows" /\ Missing(r) = {}
  BY DEF RowsApplied, durable, data
<1>1. Planned /\ backup = None /\ PlanSound(r)
  BY <1>0, PlanInHand DEF CarryingOut, AfterWallets
<1>2. View' = View /\ View.rows = rows /\ (Planned' <=> Planned)
  BY <1>0, <1>1 DEF View, Planned
<1>3. RowsProve(r)
  <2>1. SUFFICES ASSUME NEW n \in 1..Len(r.moves)
        PROVE  \E i \in 1..Len(rows) : rows[i] = RowOf(r, n)
    BY <1>2 DEF RowsProve
  <2>2. PICK i \in 1..Len(rows) : rows[i].key = r.key /\ rows[i].index = n
    BY <1>0, <2>1 DEF Missing
  <2>3. UnderWay(rows[i].key)
    BY <1>1, <2>2 DEF UnderWay, PlanSound
  <2>4. rows[i] = RowOf(r, rows[i].index)
    BY <1>2, <2>2, <2>3 DEF WholeActions, RowsSound
  <2>. QED BY <2>2, <2>4
<1>4. /\ Done' = Done /\ DoneBefore' = DoneBefore /\ \A k : UnderWay(k)' <=> UnderWay(k)
      /\ \A q : RowsProve(q)' <=> RowsProve(q)
  BY <1>0, <1>2 DEF Done, DoneBefore, UnderWay, RowsProve
<1>5. CountSound' /\ ClaimsSound'
  BY <1>0, <1>2, <1>4 DEF WholeActions, CountSound, ClaimsSound
<1>6. RowsSound'
  BY <1>0, <1>2, <1>3, <1>4 DEF WholeActions, RowsSound
<1>. QED BY <1>5, <1>6 DEF WholeActions

\* A plan is recorded: nothing of it is there yet.
LEMMA PlanKeepsWhole ==
  ASSUME JsonInv, WholeActions, Plan
  PROVE  WholeActions'
<1>0. UNCHANGED <<wallet, rows, state, claims, receipts, epoch, backup>> /\ pc' = "claim"
  BY DEF Plan, data, Goto
<1>1. PICK moves \in Plans :
        LET r == NewReceipt(req.key, req.variant, moves, wallet, state) IN
        /\ Planned' /\ ~Planned /\ journal'.receipt = r /\ journal'.key = req.key
        /\ r.version = state /\ backup = None /\ req.key \in Keys /\ epoch.current \in Epochs
        /\ ReceiptOf(req.key) = None /\ ClaimOf(req.key) = None
  BY PlanMade
<1>2. PICK k \in Keys : k = req.key
  BY <1>1
<1>3. /\ View' = View /\ View.wallet = wallet /\ View.state = state /\ View.receipts = receipts
      /\ View.claims = claims /\ View.epoch = epoch /\ View.rows = rows
  BY <1>0, <1>1 DEF View
<1>4. /\ \A j : ~UnderWay(j) /\ (UnderWay(j)' <=> j = k)
      /\ k \notin Done /\ Done' = Done /\ DoneBefore = Done
  BY <1>1, <1>2, <1>3 DEF UnderWay, Done, DoneBefore, ReceiptOf
<1>5. DoneBefore' = Done
  BY <1>4 DEF DoneBefore
<1>6. CountSound'
  BY <1>1, <1>3, <1>4, <1>5 DEF WholeActions, CountSound
<1>7. ClaimsSound'
  BY <1>3, <1>4 DEF WholeActions, ClaimsSound
<1>8. RowsSound'
  <2>1. \A r : RowsProve(r)' <=> RowsProve(r)
    BY <1>3 DEF RowsProve
  <2>2. \A i \in 1..Len(View.rows) : View.rows[i].key # k
    BY <1>4, GameNoneAssumption DEF WholeActions, RowsSound
  <2>3. pc' \notin AfterRows
    BY <1>0 DEF AfterRows, AfterState, AfterReceipt
  <2>. QED BY <1>3, <1>4, <1>5, <2>1, <2>2, <2>3 DEF WholeActions, RowsSound
<1>. QED BY <1>6, <1>7, <1>8 DEF WholeActions

LEMMA CommitClaimKeepsWhole ==
  ASSUME JsonInv, WholeActions, CommitClaim
  PROVE  WholeActions'
<1>0. /\ UNCHANGED <<wallet, rows, state, receipts, epoch, journal, backup>>
      /\ pc = "claim" /\ pc' = "wallets"
      /\ claims' = [claims EXCEPT ![epoch.current][journal.key] = Executes(journal.variant)]
  BY DEF CommitClaim, ClaimAs, Goto, Executes
<1>1. Planned /\ backup = None /\ epoch.current \in Epochs /\ journal.key \in Keys
  BY <1>0, PlanInHand DEF CarryingOut
<1>2. /\ View.receipts = receipts /\ View.claims = claims /\ View.epoch = epoch /\ View.rows = rows
      /\ View'.receipts = receipts /\ View'.claims = claims' /\ View'.epoch = epoch
      /\ View'.rows = rows
  BY <1>0, <1>1 DEF View
<1>3. /\ Done' = Done /\ DoneBefore' = DoneBefore /\ \A k : UnderWay(k)' <=> UnderWay(k)
      /\ \A r : RowsProve(r)' <=> RowsProve(r)
  BY <1>0, <1>2 DEF Done, DoneBefore, UnderWay, RowsProve, Planned
<1>4. \A e \in Epochs, k \in Keys :
        e # epoch.current \/ k # journal.key => claims'[e][k] = claims[e][k]
  BY <1>0, <1>1 DEF JsonInv, TypeOK
<1>5. CountSound'
  BY <1>0, <1>1, <1>3 DEF WholeActions, CountSound, Planned
<1>6. ClaimsSound'
  <2>1. epoch.current \in Nat /\ Epochs \subseteq Nat
    BY <1>1 DEF Epochs
  <2>2. \A e \in Epochs : e > epoch.current => e # epoch.current
    BY <2>1
  <2>3. ASSUME NEW k \in Keys, ~UnderWay(k)
        PROVE  claims'[epoch.current][k] = claims[epoch.current][k]
    BY <1>1, <1>4, <2>3 DEF UnderWay
  <2>. QED BY <1>1, <1>2, <1>3, <1>4, <2>2, <2>3 DEF WholeActions, ClaimsSound
<1>7. RowsSound'
  <2>1. pc' \notin AfterRows
    BY <1>0 DEF AfterRows, AfterState, AfterReceipt
  <2>. QED BY <1>0, <1>2, <1>3, <2>1 DEF WholeActions, RowsSound
<1>. QED BY <1>5, <1>6, <1>7 DEF WholeActions

\* Recovery appends the rows that are missing, and no other.
LEMMA ApplyRowKeepsWhole ==
  ASSUME JsonInv, WholeActions, ApplyRow
  PROVE  WholeActions'
<1>. DEFINE r == journal.receipt
<1>0. /\ UNCHANGED <<wallet, state, claims, receipts, epoch, journal, backup>>
      /\ pc = "rows" /\ pc' = "rows"
  BY DEF ApplyRow, Goto
<1>1. Planned /\ backup = None /\ PlanSound(r) /\ journal.key \in Keys
  BY <1>0, PlanInHand DEF CarryingOut, AfterWallets
<1>2. PICK n \in Missing(r) : rows' = Append(rows, RowOf(r, n))
  BY DEF ApplyRow
<1>3. /\ RowOf(r, n) \in Row /\ RowOf(r, n).key = journal.key /\ RowOf(r, n).index = n
      /\ n \in 1..Len(r.moves)
  BY <1>1, <1>2, RowTypes DEF Missing, PlanSound, RowOf
<1>4. /\ rows \in Seq(Row) /\ Len(rows') = Len(rows) + 1 /\ Len(rows) \in Nat
      /\ \A i \in 1..Len(rows) : rows'[i] = rows[i]
      /\ rows'[Len(rows) + 1] = RowOf(r, n)
      /\ \A i \in 1..Len(rows') : i \in 1..Len(rows) \/ i = Len(rows) + 1
  BY <1>2, <1>3 DEF JsonInv, TypeOK
<1>5. /\ View.receipts = receipts /\ View.claims = claims /\ View.epoch = epoch /\ View.rows = rows
      /\ View'.receipts = receipts /\ View'.claims = claims /\ View'.epoch = epoch
      /\ View'.rows = rows'
  BY <1>0, <1>1 DEF View
<1>6. /\ Done' = Done /\ DoneBefore' = DoneBefore /\ \A k : UnderWay(k)' <=> UnderWay(k)
  BY <1>0, <1>5 DEF Done, DoneBefore, UnderWay, Planned
<1>7. CountSound' /\ ClaimsSound'
  BY <1>0, <1>1, <1>5, <1>6 DEF WholeActions, CountSound, ClaimsSound, Planned
<1>8. RowsSound'
  <2>. HIDE DEF r
  <2>1. \A q : RowsProve(q) => RowsProve(q)'
    <3>1. \A q, m : (\E i \in 1..Len(rows) : rows[i] = RowOf(q, m))
                    => (\E i \in 1..Len(rows') : rows'[i] = RowOf(q, m))
      BY <1>4
    <3>. QED BY <1>5, <3>1 DEF RowsProve
  <2>2. pc' \notin AfterRows
    BY <1>0 DEF AfterRows, AfterState, AfterReceipt
  <2>3. UnderWay(RowOf(r, n).key)
    BY <1>1, <1>3 DEF UnderWay
  <2>4. \A i \in 1..Len(rows) : rows[i].key # journal.key \/ rows[i].index # n
    BY <1>1, <1>2 DEF Missing, PlanSound, r
  <2>5. \A k \in DoneBefore : RowsProve(receipts[epoch.current][k])
    BY <1>5 DEF WholeActions, RowsSound
  <2>6. \A i \in 1..Len(rows') : rows'[i].key # None => rows'[i].key \in Done \/ UnderWay(rows'[i].key)
    BY <1>4, <1>5, <2>3 DEF WholeActions, RowsSound
  <2>7. \A i \in 1..Len(rows') : UnderWay(rows'[i].key) => rows'[i] = RowOf(r, rows'[i].index)
    BY <1>3, <1>4, <1>5 DEF WholeActions, RowsSound, r
  <2>8. \A i, j \in 1..Len(rows') : rows'[i].key # None /\ i # j =>
          <<rows'[i].key, rows'[i].index>> # <<rows'[j].key, rows'[j].index>>
    <3>1. ASSUME NEW i \in 1..Len(rows'), NEW j \in 1..Len(rows'), rows'[i].key # None, i # j
          PROVE  <<rows'[i].key, rows'[i].index>> # <<rows'[j].key, rows'[j].index>>
      <4>1. CASE i \in 1..Len(rows) /\ j \in 1..Len(rows)
        BY <1>4, <1>5, <3>1, <4>1 DEF WholeActions, RowsSound
      <4>2. CASE i = Len(rows) + 1 /\ j \in 1..Len(rows)
        BY <1>3, <1>4, <2>4, <4>2
      <4>3. CASE j = Len(rows) + 1 /\ i \in 1..Len(rows)
        BY <1>3, <1>4, <2>4, <4>3
      <4>. QED BY <1>4, <3>1, <4>1, <4>2, <4>3
    <3>. QED BY <3>1
  <2>. QED BY <1>0, <1>5, <1>6, <2>1, <2>2, <2>5, <2>6, <2>7, <2>8 DEF RowsSound, r
<1>. QED BY <1>7, <1>8 DEF WholeActions

\* The receipt of the action under way is written.
LEMMA CommitReceiptKeepsWhole ==
  ASSUME JsonInv, WholeActions, CommitReceipt
  PROVE  WholeActions'
<1>. DEFINE r == journal.receipt
<1>0. /\ UNCHANGED <<wallet, rows, state, claims, epoch, journal, backup>>
      /\ pc = "receipt" /\ pc' = "receipt_committed"
      /\ receipts' = [receipts EXCEPT ![epoch.current][r.key] = r]
  BY DEF CommitReceipt, Goto
<1>1. /\ Planned /\ backup = None /\ epoch.current \in Epochs /\ journal.key \in Keys
      /\ r.key = journal.key
  BY <1>0, PlanInHand DEF CarryingOut, AfterWallets, AfterState, PlanSound
<1>2. /\ View.receipts = receipts /\ View.claims = claims /\ View.epoch = epoch /\ View.rows = rows
      /\ View'.receipts = receipts' /\ View'.claims = claims /\ View'.epoch = epoch
      /\ View'.rows = rows
  BY <1>0, <1>1 DEF View
<1>3. \A e \in Epochs, k \in Keys :
        e # epoch.current \/ k # journal.key => receipts'[e][k] = receipts[e][k]
  <2>1. receipts \in [Epochs -> [Keys -> Receipt \cup {None}]]
    BY DEF JsonInv, TypeOK
  <2>2. receipts' = [receipts EXCEPT ![epoch.current][journal.key] = r]
    BY <1>0, <1>1
  <2>. HIDE DEF r
  <2>. QED BY <1>1, <2>1, <2>2
<1>4. receipts'[epoch.current][journal.key] # None
  <2>1. receipts'[epoch.current][journal.key] = r /\ r \in Receipt
    BY <1>0, PlanInHand, CommitReceiptKeeps
    DEF JsonInv, ProgressSound, ReceiptOf, AfterReceipt, CarryingOut, AfterWallets, AfterState, PlanSound
  <2>. QED BY <2>1, GameNoneAssumption
<1>5. \A k : UnderWay(k)' <=> UnderWay(k)
  BY <1>0 DEF UnderWay, Planned
<1>6. /\ \A k \in Keys : ~UnderWay(k) =>
            /\ receipts'[epoch.current][k] = receipts[epoch.current][k]
            /\ k \in Done' <=> k \in Done
      /\ DoneBefore' = DoneBefore
      /\ \A k \in Keys : k \in Done \/ UnderWay(k) <=> k \in Done' \/ UnderWay(k)'
  <2>1. ASSUME NEW k \in Keys, ~UnderWay(k)
        PROVE  receipts'[epoch.current][k] = receipts[epoch.current][k]
    BY <1>1, <1>3, <2>1 DEF UnderWay
  <2>2. \A k \in Keys : ~UnderWay(k) => (k \in Done' <=> k \in Done)
    BY <1>2, <2>1 DEF Done
  <2>. QED BY <1>5, <2>1, <2>2 DEF DoneBefore, Done
<1>7. CountSound'
  BY <1>0, <1>1, <1>6 DEF WholeActions, CountSound, Planned
<1>8. ClaimsSound'
  <2>1. epoch.current \in Nat /\ Epochs \subseteq Nat
    BY <1>1 DEF Epochs
  <2>2. \A e \in Epochs, k \in Keys : e > epoch.current => receipts'[e][k] = receipts[e][k]
    BY <1>3, <2>1
  <2>. QED BY <1>1, <1>2, <1>5, <1>6, <2>2 DEF WholeActions, ClaimsSound
<1>9. RowsSound'
  <2>1. \A q : RowsProve(q)' <=> RowsProve(q)
    BY <1>2 DEF RowsProve
  <2>2. pc \in AfterRows
    BY <1>0 DEF AfterRows, AfterState
  <2>3. \A k \in DoneBefore : k \in Keys /\ ~UnderWay(k)
    BY DEF DoneBefore, Done
  <2>4. /\ \A i \in 1..Len(rows) : rows[i].key # None =>
             rows[i].key \in Done' \/ UnderWay(rows[i].key)
        /\ \A i \in 1..Len(rows) : UnderWay(rows[i].key) =>
             rows[i] = RowOf(journal.receipt, rows[i].index)
    <3>1. \A i \in 1..Len(rows) : rows[i].key # None =>
             rows[i].key \in Done \/ UnderWay(rows[i].key)
      BY <1>2 DEF WholeActions, RowsSound
    <3>2. \A k : k \in Done => k \in Keys
      BY DEF Done
    <3>3. \A k : k \in Done => k \in Done' \/ UnderWay(k)
      BY <1>6, <3>2
    <3>. QED BY <1>2, <3>1, <3>3 DEF WholeActions, RowsSound
  <2>5. \A k \in DoneBefore : RowsProve(receipts'[epoch.current][k])
    <3>1. \A k \in DoneBefore : RowsProve(receipts[epoch.current][k])
      BY <1>2 DEF WholeActions, RowsSound
    <3>. QED BY <1>6, <2>3, <3>1
  <2>6. RowsProve(journal.receipt)
    BY <2>2 DEF WholeActions, RowsSound
  <2>7. \A i, j \in 1..Len(rows) : rows[i].key # None /\ i # j =>
          <<rows[i].key, rows[i].index>> # <<rows[j].key, rows[j].index>>
    BY <1>2 DEF WholeActions, RowsSound
  <2>. QED BY <1>0, <1>2, <1>5, <1>6, <2>1, <2>4, <2>5, <2>6, <2>7 DEF RowsSound
<1>. QED BY <1>7, <1>8, <1>9 DEF WholeActions

\* The action under way is done, and counted.
LEMMA CleanupKeepsWhole ==
  ASSUME JsonInv, WholeActions, Cleanup
  PROVE  WholeActions'
<1>. DEFINE r == journal.receipt
<1>0. /\ UNCHANGED <<wallet, rows, state, claims, receipts, epoch, backup>>
      /\ pc = "cleanup" /\ pc' = "serve" /\ journal' = None
  BY DEF Cleanup, Goto, data
<1>1. /\ Planned /\ backup = None /\ epoch.current \in Epochs /\ journal.key \in Keys
      /\ ~Planned' /\ r \in Receipt /\ r # None /\ r.version \in Nat
      /\ state = r.version + 1 /\ ReceiptOf(journal.key) = r
      /\ ClaimOf(journal.key) = Executes(journal.variant)
      /\ Executes(journal.variant) \in Claim /\ Executes(journal.variant) # None
  <2>1. /\ Planned /\ backup = None /\ epoch.current \in Epochs /\ journal.key \in Keys
        /\ r \in Receipt /\ r.version \in Nat /\ journal.variant \in Variants
    BY <1>0, PlanInHand DEF CarryingOut, AfterWallets, AfterState, AfterReceipt, PlanSound
  <2>2. Executes(journal.variant) \in Claim
    BY <2>1 DEF Executes, Claim
  <2>. QED BY <1>0, <2>1, <2>2, GameNoneAssumption, JsonNoneAssumption
       DEF JsonInv, ProgressSound, CarryingOut, AfterWallets, AfterState, AfterReceipt, Planned
<1>2. /\ View' = View /\ View.receipts = receipts /\ View.claims = claims /\ View.epoch = epoch
      /\ View.rows = rows /\ View.state = state
  BY <1>0, <1>1 DEF View
<1>3. /\ \A k : ~UnderWay(k)' /\ (UnderWay(k) <=> k = journal.key)
      /\ Done' = Done /\ journal.key \in Done
      /\ DoneBefore = {k \in Done : k # journal.key} /\ DoneBefore' = Done
  <2>1. \A k : ~UnderWay(k)' /\ (UnderWay(k) <=> k = journal.key)
    BY <1>1 DEF UnderWay
  <2>2. Done' = Done /\ journal.key \in Done
    BY <1>1, <1>2 DEF Done, ReceiptOf
  <2>. QED BY <2>1, <2>2 DEF DoneBefore
<1>4. CountSound'
  <2>1. IsFiniteSet(Done)
    BY KeysAssumption, FS_Subset DEF Done
  <2>2. IsFiniteSet(DoneBefore)
    BY <1>3, <2>1, FS_Subset
  <2>3. Done = DoneBefore \cup {journal.key} /\ journal.key \notin DoneBefore
    BY <1>3
  <2>4. Cardinality(Done) = Cardinality(DoneBefore) + 1
    BY <2>2, <2>3, FS_AddElement
  <2>5. Cardinality(DoneBefore) = r.version
    BY <1>1 DEF WholeActions, CountSound
  <2>. QED BY <1>1, <1>2, <1>3, <2>4, <2>5 DEF CountSound
<1>5. ClaimsSound'
  <2>1. /\ claims[epoch.current][journal.key] # None
        /\ claims[epoch.current][journal.key].disposition = "execute"
    BY <1>1 DEF ClaimOf, Executes
  <2>2. ASSUME NEW k \in Keys, ~UnderWay(k)'
        PROVE  k \in Done' <=> (/\ View'.claims[View'.epoch.current][k] # None
                                /\ View'.claims[View'.epoch.current][k].disposition = "execute")
    BY <1>2, <1>3, <2>1, <2>2 DEF WholeActions, ClaimsSound, UnderWay
  <2>3. \A e \in Epochs, k \in Keys : e > View'.epoch.current =>
          View'.receipts[e][k] = None /\ View'.claims[e][k] = None
    BY <1>2 DEF WholeActions, ClaimsSound
  <2>. QED BY <2>2, <2>3 DEF ClaimsSound
<1>6. RowsSound'
  <2>1. \A q : RowsProve(q)' <=> RowsProve(q)
    BY <1>2 DEF RowsProve
  <2>2. RowsProve(receipts[epoch.current][journal.key])
    <3>1. pc \in AfterRows
      BY <1>0 DEF AfterRows, AfterState, AfterReceipt
    <3>. QED BY <1>1, <3>1 DEF WholeActions, RowsSound, ReceiptOf
  <2>3. pc' \notin AfterRows
    BY <1>0 DEF AfterRows, AfterState, AfterReceipt
  <2>. QED BY <1>1, <1>2, <1>3, <2>1, <2>2, <2>3 DEF WholeActions, RowsSound
<1>. QED BY <1>4, <1>5, <1>6 DEF WholeActions

LEMMA CancelKeepsWhole ==
  ASSUME JsonInv, WholeActions, Cancel
  PROVE  WholeActions'
<1>. DEFINE mine == [variant |-> req.variant, disposition |-> "uncommitted"]
<1>0. /\ UNCHANGED <<wallet, rows, state, receipts, epoch, journal, backup>>
      /\ pc = "cancel" /\ pc' = "serve"
      /\ claims' = [claims EXCEPT ![epoch.current][req.key] = mine]
  BY DEF Cancel, ClaimAs, Goto
<1>1. /\ epoch.current \in Epochs /\ req.key \in Keys /\ req.variant \in Variants
      /\ ReceiptOf(req.key) = None
  BY <1>0, Lookups, GameRequests DEF JsonInv, RequestSound
<1>2. journal = None /\ backup = None /\ ~Planned /\ ~Planned'
  BY <1>0 DEF JsonInv, JournalSound, WholeSound, Resetting, ResetSteps, CarryingOut, AfterWallets,
     AfterState, AfterReceipt, Planned
<1>3. /\ View.receipts = receipts /\ View.claims = claims /\ View.epoch = epoch /\ View.rows = rows
      /\ View'.receipts = receipts /\ View'.claims = claims' /\ View'.epoch = epoch
      /\ View'.rows = rows /\ View.state = state /\ View'.state = state
  BY <1>0, <1>2 DEF View
<1>4. /\ Done' = Done /\ DoneBefore' = DoneBefore /\ \A k : ~UnderWay(k)' /\ ~UnderWay(k)
      /\ \A r : RowsProve(r)' <=> RowsProve(r)
  BY <1>0, <1>2, <1>3 DEF Done, DoneBefore, UnderWay, RowsProve
<1>5. /\ claims'[epoch.current][req.key] = mine /\ mine.disposition # "execute"
      /\ \A e \in Epochs, k \in Keys :
           e # epoch.current \/ k # req.key => claims'[e][k] = claims[e][k]
  <2>1. claims \in [Epochs -> [Keys -> Claim \cup {None}]] /\ mine \in Claim
    BY <1>1 DEF JsonInv, TypeOK, Claim
  <2>2. mine.disposition # "execute"
    OBVIOUS
  <2>. HIDE DEF mine
  <2>. QED BY <1>0, <1>1, <2>1, <2>2, FirstWrite
<1>6. req.key \notin Done
  BY <1>1, <1>3 DEF Done, ReceiptOf
<1>7. CountSound'
  BY <1>2, <1>3, <1>4 DEF WholeActions, CountSound
<1>8. ClaimsSound'
  <2>. HIDE DEF mine
  <2>1. \A e \in Epochs : e > epoch.current => e # epoch.current
    BY <1>1 DEF Epochs
  <2>2. \A e \in Epochs, k \in Keys : e > epoch.current => claims'[e][k] = claims[e][k]
    BY <1>5, <2>1
  <2>3. ASSUME NEW k \in Keys
        PROVE  k \in Done <=> (/\ claims'[epoch.current][k] # None
                              /\ claims'[epoch.current][k].disposition = "execute")
    <3>1. CASE k = req.key
      BY <1>5, <1>6, <3>1
    <3>2. CASE k # req.key
      BY <1>1, <1>3, <1>4, <1>5, <3>2 DEF WholeActions, ClaimsSound
    <3>. QED BY <3>1, <3>2
  <2>. QED BY <1>3, <1>4, <2>2, <2>3 DEF WholeActions, ClaimsSound
<1>9. RowsSound'
  <2>1. pc' \notin AfterRows
    BY <1>0 DEF AfterRows, AfterState, AfterReceipt
  <2>. QED BY <1>2, <1>3, <1>4, <2>1 DEF WholeActions, RowsSound
<1>. QED BY <1>7, <1>8, <1>9 DEF WholeActions

\* Rows of other movements belong to no action.
LEMMA MoveKeepsWhole ==
  ASSUME JsonInv, WholeActions, Move
  PROVE  WholeActions'
<1>. DEFINE row == [key |-> None, index |-> 0, wallet |-> req.wallet, amount |-> req.amount,
                    after |-> wallet[req.wallet] + req.amount]
<1>0. /\ UNCHANGED <<state, claims, receipts, epoch, journal, backup>>
      /\ pc = "serve" /\ pc' = "idle" /\ rows' = Append(rows, row) /\ row.key = None
  BY DEF Move, Return
<1>1. journal = None /\ backup = None /\ ~Planned /\ ~Planned'
  BY <1>0 DEF JsonInv, JournalSound, WholeSound, Resetting, ResetSteps, CarryingOut, AfterWallets,
     AfterState, AfterReceipt, Planned
<1>2. /\ View.receipts = receipts /\ View.claims = claims /\ View.epoch = epoch /\ View.rows = rows
      /\ View'.receipts = receipts /\ View'.claims = claims /\ View'.epoch = epoch
      /\ View'.rows = rows' /\ View.state = state /\ View'.state = state
  BY <1>0, <1>1 DEF View
<1>3. /\ rows \in Seq(Row) /\ Len(rows') = Len(rows) + 1 /\ Len(rows) \in Nat
      /\ \A i \in 1..Len(rows) : rows'[i] = rows[i]
      /\ rows'[Len(rows) + 1].key = None
      /\ \A i \in 1..Len(rows') : i \in 1..Len(rows) \/ i = Len(rows) + 1
  <2>1. rows \in Seq(Row)
    BY DEF JsonInv, TypeOK
  <2>. HIDE DEF row
  <2>. QED BY <1>0, <2>1
<1>4. Done' = Done /\ DoneBefore' = DoneBefore /\ \A k : ~UnderWay(k)' /\ ~UnderWay(k)
  BY <1>0, <1>1, <1>2 DEF Done, DoneBefore, UnderWay
<1>5. CountSound' /\ ClaimsSound'
  BY <1>1, <1>2, <1>4 DEF WholeActions, CountSound, ClaimsSound
<1>6. RowsSound'
  <2>1. \A q : RowsProve(q) => RowsProve(q)'
    <3>1. \A q, m : (\E i \in 1..Len(rows) : rows[i] = RowOf(q, m))
                    => (\E i \in 1..Len(rows') : rows'[i] = RowOf(q, m))
      BY <1>3
    <3>. QED BY <1>2, <3>1 DEF RowsProve
  <2>2. pc' \notin AfterRows
    BY <1>0 DEF AfterRows, AfterState, AfterReceipt
  <2>3. \A i \in 1..Len(rows') : rows'[i].key # None => i \in 1..Len(rows)
    BY <1>3
  <2>4. \A i \in 1..Len(rows') : rows'[i].key # None => rows'[i].key \in Done
    BY <1>2, <1>3, <1>4, <2>3 DEF WholeActions, RowsSound
  <2>5. \A i, j \in 1..Len(rows') : rows'[i].key # None /\ i # j =>
          <<rows'[i].key, rows'[i].index>> # <<rows'[j].key, rows'[j].index>>
    <3>1. \A i, j \in 1..Len(rows) : rows[i].key # None /\ i # j =>
            <<rows[i].key, rows[i].index>> # <<rows[j].key, rows[j].index>>
      BY <1>2 DEF WholeActions, RowsSound
    <3>2. ASSUME NEW i \in 1..Len(rows'), NEW j \in 1..Len(rows'), rows'[i].key # None, i # j
          PROVE  <<rows'[i].key, rows'[i].index>> # <<rows'[j].key, rows'[j].index>>
      <4>1. i \in 1..Len(rows)
        BY <2>3, <3>2
      <4>2. CASE rows'[j].key = None
        BY <3>2, <4>2
      <4>3. CASE rows'[j].key # None
        BY <1>3, <2>3, <3>1, <3>2, <4>1, <4>3
      <4>. QED BY <4>2, <4>3
    <3>. QED BY <3>2
  <2>6. \A k \in DoneBefore : RowsProve(receipts[epoch.current][k])
    BY <1>2 DEF WholeActions, RowsSound
  <2>. QED BY <1>2, <1>4, <2>1, <2>2, <2>4, <2>5, <2>6 DEF RowsSound
<1>. QED BY <1>5, <1>6 DEF WholeActions

\* A new epoch starts with no action.
LEMMA ResetKeepsWhole ==
  ASSUME JsonInv, WholeActions, Unlink, pc = "unlink"
  PROVE  WholeActions'
<1>1. /\ UNCHANGED <<wallet, rows, state, claims, receipts, epoch, journal>> /\ backup' = None
      /\ pc' = "idle"
  BY DEF Unlink, data, Return
<1>2. /\ backup # None /\ journal = None /\ backup.epoch.current \in Epochs
      /\ backup.epoch.current + 1 \in Epochs
  <2>1. pc \in Resetting
    BY DEF Resetting, ResetSteps
  <2>. QED BY <2>1, BackupTypes
<1>3. /\ state = 0 /\ rows = <<>> /\ claims = backup.claims
      /\ receipts = backup.receipts /\ epoch.current = backup.epoch.current + 1
  BY DEF JsonInv, ResetSound, ResetSteps
<1>4. ~Planned /\ ~Planned'
  BY <1>1, <1>2 DEF Planned
<1>5. /\ View.receipts = receipts /\ View.claims = claims
      /\ View.epoch.current = backup.epoch.current
      /\ View'.state = 0 /\ View'.claims = claims /\ View'.rows = <<>>
      /\ View'.receipts = receipts /\ View'.epoch.current = backup.epoch.current + 1
  BY <1>1, <1>2, <1>3 DEF View
<1>6. \A e \in Epochs, k \in Keys : e > backup.epoch.current =>
        receipts[e][k] = None /\ claims[e][k] = None
  BY <1>5 DEF WholeActions, ClaimsSound
<1>7. /\ Epochs \subseteq Nat /\ backup.epoch.current + 1 > backup.epoch.current
      /\ \A e \in Epochs : e > backup.epoch.current + 1 => e > backup.epoch.current
  BY <1>2 DEF Epochs
<1>8. Done' = {} /\ DoneBefore' = {}
  <2>1. \A k \in Keys : receipts[backup.epoch.current + 1][k] = None
    BY <1>2, <1>6, <1>7
  <2>2. \A k \in Keys : View'.receipts[View'.epoch.current][k] = None
    BY <1>5, <2>1
  <2>3. Done' = {}
    BY <2>2 DEF Done
  <2> QED BY <2>3 DEF DoneBefore
<1>9. CountSound'
  BY <1>4, <1>5, <1>8, FS_EmptySet DEF CountSound
<1>10. ClaimsSound'
  <2>1. \A k \in Keys : claims[backup.epoch.current + 1][k] = None
    BY <1>2, <1>6, <1>7
  <2>2. \A k \in Keys : k \notin Done' /\ View'.claims[View'.epoch.current][k] = None
    BY <1>5, <1>8, <2>1
  <2>3. \A e \in Epochs, k \in Keys : e > View'.epoch.current =>
          View'.receipts[e][k] = None /\ View'.claims[e][k] = None
    BY <1>5, <1>6, <1>7
  <2> QED BY <2>2, <2>3 DEF ClaimsSound
<1>11. RowsSound'
  BY <1>1, <1>5, <1>8 DEF RowsSound, AfterRows, AfterState, AfterReceipt
<1>. QED BY <1>9, <1>10, <1>11 DEF WholeActions

\* Wallets, the state document and the stage are no part of the account.
LEMMA StageKeepsWhole ==
  ASSUME JsonInv, WholeActions, ApplyWallets \/ ApplyState \/ RecordStage
  PROVE  WholeActions'
<1>1. /\ UNCHANGED <<rows, claims, receipts, epoch, backup>>
      /\ \/ pc = "wallets" /\ pc' = "wallet_applied" /\ journal' = journal
         \/ pc = "states" /\ pc' = "state_applied" /\ journal' = journal
         \/ /\ pc \in {"wallet_applied", "ledger_applied", "state_applied", "receipt_committed"}
            /\ pc = "wallet_applied" => pc' = "rows"
            /\ journal' = [journal EXCEPT !.stage = pc]
  BY DEF ApplyWallets, ApplyState, RecordStage, Goto, data, StepAfter
<1>2. pc \in CarryingOut
  BY <1>1 DEF CarryingOut, AfterWallets, AfterState, AfterReceipt
<1>3. Planned /\ backup = None /\ journal \in Journal
  BY <1>2, PlanInHand
<1>4. Planned' /\ journal'.key = journal.key /\ journal'.receipt = journal.receipt
  <2>1. CASE journal' = journal
    BY <1>3, <2>1 DEF Planned
  <2>2. CASE journal' = [journal EXCEPT !.stage = pc] /\ pc \in Stages /\ pc # "prepared"
    <3>1. journal' \in Journal /\ journal'.stage = pc
      BY <1>3, <2>2 DEF Journal
    <3>. QED BY <1>3, <2>2, <3>1, JsonNoneAssumption DEF Planned, Journal
  <2>. QED BY <1>1, <2>1, <2>2 DEF Stages
<1>5. /\ View'.rows = View.rows /\ View'.claims = View.claims /\ View'.receipts = View.receipts
      /\ View'.epoch = View.epoch
  BY <1>1, <1>3 DEF View
<1>6. pc' \in AfterRows => pc \in AfterRows
  BY <1>1 DEF AfterRows, AfterState, AfterReceipt
<1>. QED BY <1>3, <1>4, <1>5, <1>6, SameActions

LEMMA WholeNext ==
  ASSUME JsonInv, WholeActions, [Next]_vars
  PROVE  WholeActions'
<1>1. CASE UNCHANGED vars
  <2>1. View' = View /\ journal' = journal /\ pc' = pc /\ (Planned' <=> Planned)
    BY <1>1 DEF vars, View, Planned
  <2>2. pc \in AfterRows => Planned
    BY DEF JsonInv, ProgressSound, CarryingOut, AfterWallets, AfterRows
  <2>. QED BY <2>1, <2>2, SameActions
<1>2. ASSUME \/ \E r \in Request : Start(r)
             \/ RefuseConflict \/ CarryOut \/ Recovered \/ Refuse \/ Resolve \/ Read
             \/ AnswerCommitted \/ AnswerUncommitted \/ ResetFails \/ Die
      PROVE  WholeActions'
  <2>1. UNCHANGED durable /\ pc' \in {"recover", "claim", "serve", "cancel", "restore", "idle"}
    BY <1>2 DEF Start, RefuseConflict, CarryOut, Recovered, Refuse, Resolve, Read, AnswerCommitted,
       AnswerUncommitted, ResetFails, Die, Goto, Return
  <2>2. pc' \notin AfterRows
    BY <2>1 DEF AfterRows, AfterState, AfterReceipt
  <2>. QED BY <2>1, <2>2, QuietKeepsWhole
<1>3. ASSUME DropPrepared \/ Prepare \/ PlannerFails PROVE WholeActions'
  <2>1. ~Planned /\ ~Planned' /\ View' = View
    BY <1>3, PreparingView
  <2>2. pc' \in {"cancel", "serve", "plan", "idle"}
    BY <1>3 DEF DropPrepared, Prepare, PlannerFails, Goto, Return
  <2>3. pc' \notin AfterRows
    BY <2>2 DEF AfterRows, AfterState, AfterReceipt
  <2>. QED BY <2>1, <2>3, SameActions
<1>4. ASSUME \/ Backup \/ Erase \/ KeepReceipts \/ KeepClaims \/ Advance \/ Bootstrap \/ Ready
             \/ Restore
             \/ Unlink /\ pc = "discard"
      PROVE  WholeActions'
  <2>1. /\ ~Planned /\ ~Planned' /\ View'.rows = View.rows /\ View'.state = View.state
        /\ View'.epoch = View.epoch /\ View'.claims = View.claims
        /\ View'.receipts = View.receipts
    BY <1>4, HiddenView
  <2>2. pc' \in {"erase", "keepReceipts", "keepClaims", "advance", "bootstrap", "ready", "unlink",
                 "discard", "idle"}
    BY <1>4 DEF Backup, Erase, KeepReceipts, KeepClaims, Advance, Bootstrap, Ready, Restore, Unlink,
       Goto, Return
  <2>3. pc' \notin AfterRows
    BY <2>2 DEF AfterRows, AfterState, AfterReceipt
  <2>. QED BY <2>1, <2>3, SameActions
<1>5. CASE Recovery
  BY <1>2, <1>3, <1>5, CommitClaimKeepsWhole, StageKeepsWhole, ApplyRowKeepsWhole,
     RowsAppliedKeepsWhole, CommitReceiptKeepsWhole, CleanupKeepsWhole
  DEF Recovery
<1>6. CASE Serve
  BY <1>2, <1>3, <1>6, PlanKeepsWhole, CancelKeepsWhole, MoveKeepsWhole DEF Serve
<1>7. CASE ResetSeries
  <2>1. CASE Unlink
    <3>1. pc = "unlink" \/ pc = "discard"
      BY <2>1 DEF Unlink
    <3>2. CASE pc = "unlink"
      BY <2>1, <3>2, ResetKeepsWhole
    <3>3. CASE pc = "discard"
      BY <1>4, <2>1, <3>3
    <3>. QED BY <3>1, <3>2, <3>3
  <2>2. CASE Backup \/ Erase \/ KeepReceipts \/ KeepClaims \/ Advance \/ Bootstrap \/ Ready \/ Restore
    BY <1>4, <2>2
  <2>. QED BY <1>7, <2>1, <2>2 DEF ResetSeries
<1>. QED BY <1>1, <1>2, <1>5, <1>6, <1>7 DEF Next

LEMMA WholeInvariance == Spec => []WholeActions
<1>1. JsonInv /\ WholeActions /\ [Next]_vars => WholeActions'
  BY WholeNext
<1>. QED BY <1>1, WholeInit, JsonInvariance, PTL DEF Spec

\* All of an action or nothing (AllOrNothing): wherever an operation is cut, the next
\* one finds, or makes, a data root where every receipt has its claim, its rows once
\* each and its count in the state document, and nothing else has.
THEOREM JsonAllOrNothing == Spec => []AllOrNothing
<1>1. JsonInv /\ WholeActions => AllOrNothing
  <2>. SUFFICES ASSUME JsonInv, WholeActions, backup = None, ~Planned PROVE AllOrNothing
    BY DEF AllOrNothing, NoResidue
  <2>1. /\ View.rows = rows /\ View.state = state /\ View.claims = claims
        /\ View.receipts = receipts /\ View.epoch = epoch
    BY ViewOfData
  <2>2. DoneBefore = Done /\ \A k : ~UnderWay(k)
    BY DEF DoneBefore, UnderWay
  <2>3. Done = {k \in Keys : receipts[epoch.current][k] # None}
    BY <2>1 DEF Done
  <2>4. state = Cardinality(Done)
    BY <2>1, <2>2 DEF WholeActions, CountSound
  <2>5. \A k \in Keys : k \in Done <=> (/\ claims[epoch.current][k] # None
                                        /\ claims[epoch.current][k].disposition = "execute")
    BY <2>1, <2>2 DEF WholeActions, ClaimsSound
  <2>6. \A k \in Done : \A n \in 1..Len(receipts[epoch.current][k].moves) :
          \E i \in 1..Len(rows) : rows[i] = RowOf(receipts[epoch.current][k], n)
    BY <2>1, <2>2 DEF WholeActions, RowsSound, RowsProve
  <2>7. \A i, j \in 1..Len(rows) : rows[i].key # None =>
          /\ rows[i].key \in Done
          /\ i # j => <<rows[i].key, rows[i].index>> # <<rows[j].key, rows[j].index>>
    BY <2>1, <2>2 DEF WholeActions, RowsSound
  <2>. QED BY <2>3, <2>4, <2>5, <2>6, <2>7 DEF AllOrNothing
<1>. QED BY <1>1, JsonInvariance, WholeInvariance, PTL

-------------------------------------------------------------------------------
(* The ledger accounts for every wallet                                        *)

\* While an action is under way its first m rows are written, and the ledger speaks
\* of the balances after its first m movements.
BooksSound ==
  IF Planned
  THEN LET r == journal.receipt IN
       /\ r.after = After(r.before, r.moves, Len(r.moves))
       /\ \E m \in 0..Len(r.moves) :
            /\ Missing(r) = (m + 1)..Len(r.moves)
            /\ \A w \in Wallets : Books(rows, w, After(r.before, r.moves, m)[w])
  ELSE \A w \in Wallets : Books(View.rows, w, View.wallet[w])

\* A row has the last word on its wallet, and none on others.
LEMMA AppendBooks ==
  ASSUME NEW ledger \in Seq(Row), NEW row \in Row
  PROVE  /\ Books(Append(ledger, row), row.wallet, row.after)
         /\ \A w, b : w # row.wallet /\ Books(ledger, w, b) => Books(Append(ledger, row), w, b)
<1>. DEFINE longer == Append(ledger, row)
<1>1. /\ Len(longer) = Len(ledger) + 1 /\ Len(ledger) \in Nat
      /\ \A i \in 1..Len(ledger) : longer[i] = ledger[i]
      /\ longer[Len(ledger) + 1] = row
  OBVIOUS
<1>. HIDE DEF longer
<1>2. Books(longer, row.wallet, row.after)
  <2>1. Len(ledger) + 1 \in 1..Len(longer)
    BY <1>1
  <2>2. \A i \in (Len(ledger) + 2)..Len(longer) : longer[i].wallet # row.wallet
    BY <1>1
  <2>. QED BY <1>1, <2>1, <2>2 DEF Books
<1>3. ASSUME NEW w, NEW b, w # row.wallet, Books(ledger, w, b) PROVE Books(longer, w, b)
  <2>1. CASE \E n \in 1..Len(ledger) :
               /\ ledger[n].wallet = w /\ ledger[n].after = b
               /\ \A i \in (n + 1)..Len(ledger) : ledger[i].wallet # w
    <3>1. PICK n \in 1..Len(ledger) :
               /\ ledger[n].wallet = w /\ ledger[n].after = b
               /\ \A i \in (n + 1)..Len(ledger) : ledger[i].wallet # w
      BY <2>1
    <3>2. n \in 1..Len(longer) /\ longer[n].wallet = w /\ longer[n].after = b
      BY <1>1, <3>1
    <3>3. ASSUME NEW i \in (n + 1)..Len(longer) PROVE longer[i].wallet # w
      <4>1. CASE i = Len(ledger) + 1
        BY <1>1, <1>3, <4>1
      <4>2. CASE i # Len(ledger) + 1
        <5>1. i \in (n + 1)..Len(ledger) /\ i \in 1..Len(ledger)
          BY <1>1, <3>3, <4>2
        <5>. QED BY <1>1, <3>1, <5>1
      <4>. QED BY <4>1, <4>2
    <3>. QED BY <3>2, <3>3 DEF Books
  <2>2. CASE (\A n \in 1..Len(ledger) : ledger[n].wallet # w) /\ b = Opening
    <3>1. \A n \in 1..Len(longer) : n \in 1..Len(ledger) \/ n = Len(ledger) + 1
      BY <1>1
    <3>2. \A n \in 1..Len(longer) : longer[n].wallet # w
      BY <1>1, <1>3, <2>2, <3>1
    <3>. QED BY <2>2, <3>2 DEF Books
  <2>. QED BY <1>3, <2>1, <2>2 DEF Books
<1>. QED BY <1>2, <1>3 DEF longer

LEMMA BooksInit == Init => BooksSound
<1>. SUFFICES ASSUME Init PROVE BooksSound
  OBVIOUS
<1>1. ~Planned /\ backup = None /\ rows = <<>> /\ wallet = [w \in Wallets |-> Opening]
  BY DEF Init, Planned
<1>2. \A w \in Wallets : Books(<<>>, w, Opening)
  BY DEF Books
<1>. QED BY <1>1, <1>2, ViewOfData DEF BooksSound

\* A step that writes no row.
LEMMA SameBooks ==
  ASSUME BooksSound, Planned' <=> Planned,
         Planned => journal'.receipt = journal.receipt /\ rows' = rows,
         ~Planned => View'.rows = View.rows /\ View'.wallet = View.wallet
  PROVE  BooksSound'
<1>1. CASE Planned
  <2>1. Missing(journal.receipt)' = Missing(journal.receipt)
    BY <1>1 DEF Missing
  <2>. QED BY <1>1, <2>1 DEF BooksSound
<1>2. CASE ~Planned
  BY <1>2 DEF BooksSound
<1>. QED BY <1>1, <1>2

LEMMA PlanKeepsBooks ==
  ASSUME JsonInv, WholeActions, BooksSound, Plan
  PROVE  BooksSound'
<1>1. PICK moves \in Plans :
        LET r == NewReceipt(req.key, req.variant, moves, wallet, state) IN
        /\ Planned' /\ ~Planned /\ journal'.receipt = r /\ r.before = wallet /\ r.moves = moves
        /\ r.key = req.key /\ wallet \in Balances /\ backup = None /\ req.key \in Keys
        /\ ReceiptOf(req.key) = None
  BY PlanMade
<1>2. PICK r : r = NewReceipt(req.key, req.variant, moves, wallet, state)
  OBVIOUS
<1>3. /\ journal'.receipt = r /\ r.before = wallet /\ r.moves = moves /\ r.key = req.key
      /\ r.after = After(wallet, moves, Len(moves))
  BY <1>1, <1>2 DEF NewReceipt
<1>4. rows' = rows /\ View.rows = rows /\ View.wallet = wallet /\ View.receipts = receipts
      /\ View.epoch = epoch
  BY <1>1, ViewOfData DEF Plan, data
<1>5. Missing(r) = (0 + 1)..Len(moves)
  <2>1. req.key \notin Done /\ ~UnderWay(req.key)
    BY <1>1, <1>4 DEF Done, UnderWay, ReceiptOf
  <2>2. \A i \in 1..Len(rows) : rows[i].key # req.key
    BY <1>1, <1>4, <2>1, GameNoneAssumption DEF WholeActions, RowsSound
  <2>. QED BY <1>3, <2>2 DEF Missing
<1>6. \A w \in Wallets : After(wallet, moves, 0)[w] = wallet[w]
  <2>1. \A w \in Wallets : Moved(moves, 0, w) = 0 /\ wallet[w] \in Nat
    <3>1. moves \in Seq(Movement)
      BY PlansAssumption
    <3>. QED BY <1>1, <3>1, MovedSums DEF Balances
  <2>. QED BY <2>1 DEF After
<1>7. \A w \in Wallets : Books(rows, w, After(wallet, moves, 0)[w])
  BY <1>1, <1>4, <1>6 DEF BooksSound
<1>8. 0 \in 0..Len(moves)
  BY PlansAssumption
<1>9. Missing(journal.receipt)' = Missing(r)
  BY <1>3, <1>4 DEF Missing
<1>. QED BY <1>1, <1>3, <1>4, <1>5, <1>7, <1>8, <1>9 DEF BooksSound

LEMMA ApplyRowKeepsBooks ==
  ASSUME JsonInv, BooksSound, ApplyRow
  PROVE  BooksSound'
<1>0. UNCHANGED <<journal, backup>> /\ pc = "rows"
  BY DEF ApplyRow
<1>1. Planned /\ Planned' /\ PlanSound(journal.receipt)
  BY <1>0, PlanInHand DEF CarryingOut, AfterWallets, Planned
<1>2. PICK r : r = journal.receipt
  OBVIOUS
<1>3. /\ r \in Receipt /\ r.moves \in Plans /\ r.moves \in Seq(Movement) /\ rows \in Seq(Row)
      /\ r.before \in Balances /\ Len(r.moves) \in Nat
  BY <1>1, <1>2, PlansAssumption DEF PlanSound, Receipt, JsonInv, TypeOK
<1>4. PICK n \in Missing(r) :
        (\A m \in Missing(r) : n <= m) /\ rows' = Append(rows, RowOf(r, n))
  BY <1>2 DEF ApplyRow
<1>5. PICK m \in 0..Len(r.moves) :
        /\ Missing(r) = (m + 1)..Len(r.moves)
        /\ \A w \in Wallets : Books(rows, w, After(r.before, r.moves, m)[w])
  BY <1>1, <1>2 DEF BooksSound
<1>6. n = m + 1 /\ n \in 1..Len(r.moves) /\ n - 1 = m
  <2> DEFINE l == Len(r.moves)
  <2>1. l \in Nat /\ m \in 0..l /\ n \in (m + 1)..l /\ \A j \in (m + 1)..l : n <= j
    BY <1>3, <1>4, <1>5
  <2> HIDE DEF l
  <2>2. n = m + 1 /\ n \in 1..l /\ n - 1 = m
    BY <2>1
  <2> QED BY <2>2 DEF l
<1>7. /\ RowOf(r, n) \in Row /\ RowOf(r, n).key = r.key /\ RowOf(r, n).index = n
      /\ RowOf(r, n).wallet = r.moves[n].wallet
      /\ RowOf(r, n).after = After(r.before, r.moves, n)[r.moves[n].wallet]
  BY <1>3, <1>6, RowTypes DEF RowOf
<1>8. Missing(r)' = (n + 1)..Len(r.moves)
  <2>. PICK row \in Row : row = RowOf(r, n) /\ row.key = r.key /\ row.index = n
    BY <1>7
  <2>1. /\ Len(rows') = Len(rows) + 1 /\ Len(rows) \in Nat
        /\ \A i \in 1..Len(rows) : rows'[i] = rows[i]
        /\ rows'[Len(rows) + 1] = row
    BY <1>3, <1>4
  <2>2. \A i : i \in 1..Len(rows') <=> (i \in 1..Len(rows) \/ i = Len(rows) + 1)
    BY <2>1
  <2>3. ASSUME NEW j \in 1..Len(r.moves)
        PROVE  (\A i \in 1..Len(rows') : rows'[i].key # r.key \/ rows'[i].index # j)
               <=> (j # n /\ \A i \in 1..Len(rows) : rows[i].key # r.key \/ rows[i].index # j)
    BY <2>1, <2>2
  <2>4. \A j \in 1..Len(r.moves) :
          (\A i \in 1..Len(rows) : rows[i].key # r.key \/ rows[i].index # j)
          <=> j \in (m + 1)..Len(r.moves)
    BY <1>5 DEF Missing
  <2>. DEFINE missing == {j \in 1..Len(r.moves) :
                            \A i \in 1..Len(rows') : rows'[i].key # r.key \/ rows'[i].index # j}
  <2>5. missing = {j \in 1..Len(r.moves) : j # n /\ j \in (m + 1)..Len(r.moves)}
    BY <2>3, <2>4
  <2>6. {j \in 1..Len(r.moves) : j # n /\ j \in (m + 1)..Len(r.moves)} = (n + 1)..Len(r.moves)
    BY <1>3, <1>6
  <2>. QED BY <2>5, <2>6 DEF Missing
<1>9. ASSUME NEW w \in Wallets PROVE Books(rows', w, After(r.before, r.moves, n)[w])
  <2>1. CASE w = r.moves[n].wallet
    BY <1>3, <1>4, <1>7, <2>1, AppendBooks
  <2>2. CASE w # r.moves[n].wallet
    <3>1. After(r.before, r.moves, n)[w] = After(r.before, r.moves, m)[w]
      BY <1>3, <1>6, <2>2, MovedSums DEF After
    <3>. QED BY <1>3, <1>4, <1>5, <1>7, <2>2, <3>1, AppendBooks
  <2>. QED BY <2>1, <2>2
<1>10. r.after = After(r.before, r.moves, Len(r.moves)) /\ n \in 0..Len(r.moves)
  BY <1>1, <1>2, <1>6 DEF BooksSound
<1>11. journal'.receipt = r /\ Missing(journal.receipt)' = Missing(r)'
  BY <1>0, <1>2 DEF Missing
<1>. QED BY <1>1, <1>8, <1>9, <1>10, <1>11 DEF BooksSound

LEMMA CleanupKeepsBooks ==
  ASSUME JsonInv, WholeActions, BooksSound, Cleanup
  PROVE  BooksSound'
<1>0. /\ UNCHANGED <<wallet, rows, backup>> /\ pc = "cleanup" /\ journal' = None
  BY DEF Cleanup, data
<1>1. /\ Planned /\ ~Planned' /\ backup = None /\ wallet = journal.receipt.after
      /\ PlanSound(journal.receipt)
  BY <1>0, PlanInHand
  DEF JsonInv, ProgressSound, CarryingOut, AfterWallets, AfterState, AfterReceipt, Planned
<1>2. PICK r : r = journal.receipt
  OBVIOUS
<1>3. r \in Receipt /\ r.moves \in Seq(Movement) /\ Len(r.moves) \in Nat
  BY <1>1, <1>2, PlansAssumption DEF PlanSound, Receipt
<1>4. View.rows = rows /\ View'.rows = rows /\ View'.wallet = wallet
  BY <1>0, <1>1 DEF View
<1>5. Missing(r) = {}
  <2>1. pc \in AfterRows
    BY <1>0 DEF AfterRows, AfterState, AfterReceipt
  <2>2. \A n \in 1..Len(r.moves) : \E i \in 1..Len(rows) : rows[i] = RowOf(r, n)
    BY <1>2, <1>4, <2>1 DEF WholeActions, RowsSound, RowsProve
  <2>3. \A n : RowOf(r, n).key = r.key /\ RowOf(r, n).index = n
    BY DEF RowOf
  <2>. QED BY <2>2, <2>3 DEF Missing
<1>6. PICK m \in 0..Len(r.moves) :
        /\ Missing(r) = (m + 1)..Len(r.moves)
        /\ \A w \in Wallets : Books(rows, w, After(r.before, r.moves, m)[w])
  BY <1>1, <1>2 DEF BooksSound
<1>7. m = Len(r.moves)
  <2>1. (m + 1)..Len(r.moves) = {}
    BY <1>5, <1>6
  <2>2. m + 1 \notin (m + 1)..Len(r.moves)
    BY <2>1
  <2>. QED BY <1>3, <2>2
<1>8. r.after = After(r.before, r.moves, Len(r.moves))
  BY <1>1, <1>2 DEF BooksSound
<1>. QED BY <1>1, <1>2, <1>4, <1>6, <1>7, <1>8 DEF BooksSound

LEMMA MoveKeepsBooks ==
  ASSUME JsonInv, BooksSound, Move
  PROVE  BooksSound'
<1>0. /\ UNCHANGED <<journal, backup>> /\ pc = "serve" /\ req.kind = "move"
      /\ wallet[req.wallet] + req.amount >= 0
      /\ wallet' = [wallet EXCEPT ![req.wallet] = wallet[req.wallet] + req.amount]
      /\ rows' = Append(rows, [key |-> None, index |-> 0, wallet |-> req.wallet,
                               amount |-> req.amount, after |-> wallet[req.wallet] + req.amount])
  BY DEF Move
<1>1. req.wallet \in Wallets /\ req.amount \in Int
  BY <1>0, GameRequests, FundsAssumption DEF JsonInv
<1>2. journal = None /\ backup = None /\ wallet \in Balances /\ ~Planned /\ ~Planned'
  BY <1>0 DEF JsonInv, JournalSound, WholeSound, Resetting, ResetSteps, CarryingOut, AfterWallets,
     AfterState, AfterReceipt, Planned
<1>3. /\ View.rows = rows /\ View.wallet = wallet /\ View'.rows = rows' /\ View'.wallet = wallet'
  BY <1>0, <1>2 DEF View
<1>4. PICK row \in Row : /\ row.wallet = req.wallet /\ row.after = wallet[req.wallet] + req.amount
                         /\ rows' = Append(rows, row)
  <2>1. wallet[req.wallet] + req.amount \in Int
    BY <1>1, <1>2 DEF Balances
  <2>. QED BY <1>0, <1>1, <2>1 DEF Row
<1>5. rows \in Seq(Row)
  BY DEF JsonInv, TypeOK
<1>6. ASSUME NEW w \in Wallets PROVE Books(rows', w, wallet'[w])
  <2>1. CASE w = req.wallet
    <3>1. wallet'[w] = row.after
      BY <1>0, <1>2, <1>4, <2>1 DEF Balances
    <3>. QED BY <1>4, <1>5, <2>1, <3>1, AppendBooks
  <2>2. CASE w # req.wallet
    <3>1. wallet'[w] = wallet[w]
      BY <1>0, <1>2, <2>2 DEF Balances
    <3>2. Books(rows, w, wallet[w])
      BY <1>2, <1>3 DEF BooksSound
    <3>. QED BY <1>4, <1>5, <2>2, <3>1, <3>2, AppendBooks
  <2>. QED BY <2>1, <2>2
<1>. QED BY <1>2, <1>3, <1>6 DEF BooksSound

LEMMA ResetKeepsBooks ==
  ASSUME JsonInv, Unlink, pc = "unlink"
  PROVE  BooksSound'
<1>1. UNCHANGED <<wallet, rows, journal>> /\ backup' = None
  BY DEF Unlink, data
<1>2. journal = None
  <2>1. pc \in Resetting
    BY DEF Resetting, ResetSteps
  <2>. QED BY <2>1, BackupTypes
<1>3. wallet = [w \in Wallets |-> Opening] /\ rows = <<>>
  BY DEF JsonInv, ResetSound, ResetSteps
<1>4. ~Planned' /\ View'.rows = <<>> /\ View'.wallet = [w \in Wallets |-> Opening]
  BY <1>1, <1>2, <1>3 DEF View, Planned
<1>5. \A w \in Wallets : Books(<<>>, w, Opening)
  BY DEF Books
<1>. QED BY <1>4, <1>5 DEF BooksSound

LEMMA CancelKeepsBooks ==
  ASSUME JsonInv, BooksSound, Cancel
  PROVE  BooksSound'
<1>1. UNCHANGED <<wallet, rows, journal, backup>> /\ pc = "cancel"
  BY DEF Cancel
<1>2. journal = None /\ backup = None /\ ~Planned /\ ~Planned'
  BY <1>1 DEF JsonInv, JournalSound, WholeSound, Resetting, ResetSteps, CarryingOut, AfterWallets,
     AfterState, AfterReceipt, Planned
<1>3. View'.rows = View.rows /\ View'.wallet = View.wallet
  BY <1>1, <1>2 DEF View
<1>. QED BY <1>2, <1>3, SameBooks

\* Recovery steps that write no row, and keep the plan.
LEMMA CarryingOutKeepsBooks ==
  ASSUME JsonInv, BooksSound,
         CommitClaim \/ ApplyWallets \/ ApplyState \/ CommitReceipt \/ RecordStage
  PROVE  BooksSound'
<1>1. /\ rows' = rows /\ pc \in CarryingOut
      /\ \/ journal' = journal
         \/ journal' = [journal EXCEPT !.stage = pc] /\ pc \in Stages /\ pc # "prepared"
  BY DEF CommitClaim, ApplyWallets, ApplyState, CommitReceipt, RecordStage, data, StepAfter, Stages,
     CarryingOut, AfterWallets, AfterState, AfterReceipt
<1>2. Planned /\ journal \in Journal
  BY <1>1, PlanInHand
<1>3. Planned' /\ journal'.receipt = journal.receipt
  <2>1. CASE journal' = journal
    BY <1>2, <2>1 DEF Planned
  <2>2. CASE journal' = [journal EXCEPT !.stage = pc] /\ pc \in Stages /\ pc # "prepared"
    <3>1. journal' \in Journal /\ journal'.stage = pc
      BY <1>2, <2>2 DEF Journal
    <3>. QED BY <1>2, <2>2, <3>1, JsonNoneAssumption DEF Planned, Journal
  <2>. QED BY <1>1, <2>1, <2>2
<1>. QED BY <1>1, <1>2, <1>3, SameBooks

LEMMA BooksNext ==
  ASSUME JsonInv, WholeActions, BooksSound, [Next]_vars
  PROVE  BooksSound'
<1>1. ASSUME UNCHANGED durable PROVE BooksSound'
  <2>1. View' = View /\ journal' = journal /\ rows' = rows /\ (Planned' <=> Planned)
    BY <1>1 DEF durable, data, View, Planned
  <2>. QED BY <2>1, SameBooks
<1>2. CASE UNCHANGED vars
  BY <1>1, <1>2 DEF vars, durable, data
<1>3. ASSUME \/ \E r \in Request : Start(r)
             \/ RefuseConflict \/ CarryOut \/ Recovered \/ RowsApplied \/ Refuse \/ Resolve \/ Read
             \/ AnswerCommitted \/ AnswerUncommitted \/ ResetFails \/ Die
      PROVE  BooksSound'
  BY <1>1, <1>3 DEF Start, RefuseConflict, CarryOut, Recovered, RowsApplied, Refuse, Resolve, Read,
     AnswerCommitted, AnswerUncommitted, ResetFails, Die
<1>4. ASSUME DropPrepared \/ Prepare \/ PlannerFails PROVE BooksSound'
  BY <1>4, PreparingView, SameBooks
<1>5. ASSUME \/ Backup \/ Erase \/ KeepReceipts \/ KeepClaims \/ Advance \/ Bootstrap \/ Ready
             \/ Restore
             \/ Unlink /\ pc = "discard"
      PROVE  BooksSound'
  BY <1>5, HiddenView, SameBooks
<1>6. CASE Recovery
  BY <1>3, <1>4, <1>6, CarryingOutKeepsBooks, ApplyRowKeepsBooks, CleanupKeepsBooks DEF Recovery
<1>7. CASE Serve
  BY <1>3, <1>4, <1>7, PlanKeepsBooks, MoveKeepsBooks, CancelKeepsBooks DEF Serve
<1>8. CASE ResetSeries
  <2>1. CASE Unlink
    <3>1. pc = "unlink" \/ pc = "discard"
      BY <2>1 DEF Unlink
    <3>2. CASE pc = "unlink"
      BY <2>1, <3>2, ResetKeepsBooks
    <3>3. CASE pc = "discard"
      BY <1>5, <2>1, <3>3
    <3>. QED BY <3>1, <3>2, <3>3
  <2>2. CASE Backup \/ Erase \/ KeepReceipts \/ KeepClaims \/ Advance \/ Bootstrap \/ Ready \/ Restore
    BY <1>5, <2>2
  <2>. QED BY <1>8, <2>1, <2>2 DEF ResetSeries
<1>. QED BY <1>2, <1>3, <1>6, <1>7, <1>8 DEF Next

\* The books balance (LedgerAccountsForWallets): whenever no plan is under way the last
\* row of each wallet says its balance, however actions, other movements, resets and
\* crashes are interleaved, in spite of rows and balances in different files.
THEOREM JsonLedgerAccounts == Spec => []LedgerAccountsForWallets
<1>1. JsonInv /\ WholeActions /\ BooksSound /\ [Next]_vars => BooksSound'
  BY BooksNext
<1>2. BooksSound => LedgerAccountsForWallets
  BY ViewOfData DEF BooksSound, LedgerAccountsForWallets, NoResidue
<1>. QED BY <1>1, <1>2, BooksInit, JsonInvariance, WholeInvariance, PTL DEF Spec
===============================================================================
