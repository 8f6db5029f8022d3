------------------------- MODULE SqlGameActionProofs -------------------------
(* That the SQL provider keeps the promise of all providers, for every number of *)
(* sessions, wallets, keys and epochs: the inductive invariant says what the row *)
(* locks of a session exclude, and that what a transaction read under them is    *)
(* still so when it commits.                                                     *)
EXTENDS SqlGameAction, WellFoundedInduction, TLAPS

Acting == {"execute", "resolve"}

Tx == [op : Acting \union {"none", "transact", "reset"}, at : Places,
       key : Keys \union {None}, variant : Variants \union {None}, epoch : Nat,
       seen : Seen \union Nat \union {None}, plan : Plans \union {<<>>},
       move : [wallet : Wallets \union {None}, amount : Int], gone : BOOLEAN]

SqlTypes ==
  /\ wallet \in [Wallets -> Nat \union {None}]
  /\ version \in Nat /\ epoch \in Epochs /\ phase \in {"ready", "resetting"}
  /\ claims \in [Epochs -> [Keys -> Outcome \union {None}]]
  /\ sess \in [Sessions -> Tx]
  /\ moves \in 0..MaxMoves

\* Where the transaction of a session may be, and for what.
PlaceSound(s) ==
  /\ sess[s].at = "idle" => sess[s] = NoTx
  /\ sess[s].at \in {"claim", "capture", "answer"} => sess[s].op \in Acting
  /\ sess[s].at = "capture" => sess[s].op = "execute"
  /\ sess[s].at = "commit" => sess[s].op \in Acting \union {"transact"}
  /\ sess[s].at = "wallet" => sess[s].op = "transact"
  /\ sess[s].at \in {"clear", "commitReset", "bootstrap", "finalize", "commitReady"}
       => sess[s].op = "reset"
  /\ sess[s].at = "epoch" => sess[s].op \in Acting \union {"reset"}
  /\ sess[s].op \in Acting =>
       sess[s].key \in Keys /\ sess[s].variant \in Variants /\ sess[s].move.wallet = None
  /\ sess[s].op = "transact" =>
       sess[s].move.wallet \in Wallets /\ sess[s].move.amount \in Amounts /\ sess[s].key = None

\* What was read under a lock is still so.
ActionSound(s) ==
  /\ SharesEpoch(s) => sess[s].epoch = epoch /\ phase = "ready"
  /\ sess[s].op \in Acting /\ sess[s].at \in {"capture", "commit"} =>
       claims[sess[s].epoch][sess[s].key] = None
  /\ sess[s].op = "execute" /\ sess[s].at = "commit" =>
       /\ sess[s].plan \in Plans
       /\ wallet \in [Wallets -> Nat]
       /\ sess[s].seen = [balance |-> wallet, version |-> version]
       /\ Affordable(wallet, sess[s].plan)
  /\ sess[s].at = "answer" =>
       sess[s].epoch \in Epochs /\ claims[sess[s].epoch][sess[s].key] # None

MoveSound(s) ==
  sess[s].op = "transact" /\ sess[s].at = "commit" =>
    /\ sess[s].seen \in Nat /\ sess[s].seen = wallet[sess[s].move.wallet]
    /\ sess[s].seen + sess[s].move.amount >= 0

ResetSound(s) ==
  sess[s].op = "reset" =>
    /\ sess[s].at \in {"epoch", "clear", "commitReset"} => epoch < MaxEpoch
    /\ sess[s].at \in {"clear", "commitReset"} => sess[s].epoch = epoch + 1
    /\ sess[s].at \in {"finalize", "commitReady"} => wallet \in [Wallets -> Nat]

SessionSound(s) == PlaceSound(s) /\ ActionSound(s) /\ MoveSound(s) /\ ResetSound(s)

\* What the locks of one session keep another from.
Excludes(s, t) ==
  /\ OwnsEpoch(s) => ~OwnsEpoch(t) /\ ~SharesEpoch(t)
  /\ \A e \in Epochs, k \in Keys : OwnsClaim(s, e, k) => ~OwnsClaim(t, e, k)
  /\ \A w \in Wallets : OwnsWallet(s, w) => ~OwnsWallet(t, w)
  /\ HoldsResetLock(s) => ~HoldsResetLock(t)

\* The inductive invariant.
SqlInv ==
  /\ SqlTypes /\ ReadyIsWhole
  /\ \A s \in Sessions : SessionSound(s)
  /\ \A s, t \in Sessions : s # t => Excludes(s, t)

-------------------------------------------------------------------------------
(* Sums of movements: the recursion of Moved is carried out by some function,    *)
(* and what it gives follows by the least counterexample.                        *)

LEMMA LeastNumber ==
  ASSUME NEW T \in SUBSET Nat, T # {} PROVE \E n \in T : \A m \in T : n <= m
<1> DEFINE R == {p \in Nat \X Nat : p[1] < p[2]}
<1>1. IsWellFoundedOn(R, Nat)
  <2>1. R = OpToRel(<, Nat)
    BY DEF OpToRel
  <2> QED BY <2>1, NatLessThanWellFounded
<1>2. PICK n \in T : \A m \in T : <<m, n>> \notin R
  BY <1>1, WFMin
<1>3. ASSUME NEW m \in T PROVE n <= m
  <2>1. ~(<<m, n>> \in R)
    BY <1>2
  <2>2. <<m, n>>[1] = m /\ <<m, n>>[2] = n /\ <<m, n>> \in Nat \X Nat
    OBVIOUS
  <2>3. ~(m < n)
    BY <2>1, <2>2
  <2> QED BY <2>3
<1> QED BY <1>3

\* One step of the recursion by which movements add up.
MovedStep(plan, w, f, i) ==
  IF i = 0 THEN 0 ELSE f[i - 1] + IF plan[i].wallet = w THEN plan[i].amount ELSE 0

\* A function with a step for every number of movements exists.
LEMMA MovedExists ==
  ASSUME NEW plan \in Seq(Movement), NEW w
  PROVE  \E f : f = [i \in 0..Len(plan) |-> MovedStep(plan, w, f, i)]
<1> DEFINE Numbers == 0..Len(plan)
           Upto(f, n) == \A i \in Numbers : i <= n => f[i] = MovedStep(plan, w, f, i)
           Bad == {n \in Nat : ~\E f : f = [i \in Numbers |-> f[i]] /\ Upto(f, n)}
<1>1. Len(plan) \in Nat /\ Numbers \subseteq Nat
  OBVIOUS
<1>2. Bad = {}
  <2>1. SUFFICES ASSUME Bad # {} PROVE FALSE
    OBVIOUS
  <2>2. PICK n \in Bad : \A m \in Bad : n <= m
    <3>1. Bad \in SUBSET Nat
      OBVIOUS
    <3>. HIDE DEF Bad
    <3>. QED BY <2>1, <3>1, LeastNumber
  <2>3. PICK g : /\ g = [i \in Numbers |-> g[i]]
                 /\ \A i \in Numbers : i < n => g[i] = MovedStep(plan, w, g, i)
    <3>1. CASE n = 0
      <4>. DEFINE none == [i \in Numbers |-> 0]
      <4>1. none = [i \in Numbers |-> none[i]]
        OBVIOUS
      <4>2. \A i \in Numbers : ~(i < 0)
        BY <1>1
      <4>. HIDE DEF none
      <4>. QED BY <3>1, <4>1, <4>2
    <3>2. CASE n # 0
      <4>1. n - 1 \in Nat /\ ~(n <= n - 1)
        BY <3>2
      <4>2. n - 1 \notin Bad
        BY <2>2, <4>1
      <4>3. PICK g : g = [i \in Numbers |-> g[i]] /\ Upto(g, n - 1)
        BY <4>1, <4>2
      <4>4. \A i \in Numbers : i < n => i <= n - 1
        BY <1>1, <4>1
      <4>. QED BY <4>3, <4>4
    <3>. QED BY <3>1, <3>2
  <2>. DEFINE h == [i \in Numbers |-> MovedStep(plan, w, g, i)]
  <2>4. h = [i \in Numbers |-> h[i]] /\ \A i \in Numbers : h[i] = MovedStep(plan, w, g, i)
    OBVIOUS
  <2>. HIDE DEF h
  <2>5. \A i \in Numbers : i < n => h[i] = g[i]
    BY <2>3, <2>4
  <2>6. ASSUME NEW i \in Numbers, i <= n PROVE h[i] = MovedStep(plan, w, h, i)
    <3>1. CASE i = 0
      BY <2>4, <3>1 DEF MovedStep
    <3>2. CASE i # 0
      <4>1. i - 1 \in Numbers /\ i - 1 < n
        BY <1>1, <2>6, <3>2
      <4>2. h[i - 1] = g[i - 1]
        BY <2>5, <4>1
      <4>. QED BY <2>4, <3>2, <4>2 DEF MovedStep
    <3>. QED BY <3>1, <3>2
  <2>7. Upto(h, n)
    BY <2>6
  <2>. QED BY <2>2, <2>4, <2>7
<1>3. PICK f : f = [i \in Numbers |-> f[i]] /\ Upto(f, Len(plan))
  BY <1>1, <1>2
<1>4. \A i \in Numbers : f[i] = MovedStep(plan, w, f, i)
  BY <1>1, <1>3
<1>5. f = [i \in Numbers |-> MovedStep(plan, w, f, i)]
  BY <1>3, <1>4
<1>. QED BY <1>5

\* What movements do to a wallet: none does nothing, each adds its amount to its own
\* wallet and leaves the others alone.
LEMMA MovedSums ==
  ASSUME NEW plan \in Seq(Movement), NEW w
  PROVE  /\ Moved(plan, 0, w) = 0
         /\ \A n \in 0..Len(plan) : Moved(plan, n, w) \in Int
         /\ \A n \in 1..Len(plan) :
               plan[n].wallet # w => Moved(plan, n, w) = Moved(plan, n - 1, w)
<1>. DEFINE f == CHOOSE f : f = [i \in 0..Len(plan) |->
                    IF i = 0 THEN 0
                    ELSE f[i - 1] + IF plan[i].wallet = w THEN plan[i].amount ELSE 0]
<1>1. \A n : Moved(plan, n, w) = f[n]
  BY DEF Moved
<1>2. \E g : g = [i \in 0..Len(plan) |->
                    IF i = 0 THEN 0
                    ELSE g[i - 1] + IF plan[i].wallet = w THEN plan[i].amount ELSE 0]
  BY MovedExists DEF MovedStep
<1>3. f = [i \in 0..Len(plan) |->
              IF i = 0 THEN 0
              ELSE f[i - 1] + IF plan[i].wallet = w THEN plan[i].amount ELSE 0]
  BY <1>2
<1>4. \A i \in 0..Len(plan) : f[i] = MovedStep(plan, w, f, i)
  BY <1>3 DEF MovedStep
<1>. HIDE DEF f
<1>5. /\ Len(plan) \in Nat
      /\ \A i \in 1..Len(plan) :
            plan[i].amount \in Int /\ i - 1 \in 0..Len(plan) /\ i \in 0..Len(plan) /\ i # 0
  <2>1. Len(plan) \in Nat /\ \A i \in 1..Len(plan) : plan[i] \in Movement
    OBVIOUS
  <2>2. \A i \in 1..Len(plan) : plan[i].amount \in Int
    BY <2>1 DEF Movement
  <2>3. \A i \in 1..Len(plan) : i - 1 \in 0..Len(plan) /\ i \in 0..Len(plan) /\ i # 0
    BY <2>1
  <2>. QED BY <2>1, <2>2, <2>3
<1>6. f[0] = 0
  BY <1>4, <1>5 DEF MovedStep
<1>7. \A i \in 1..Len(plan) :
        f[i] = f[i - 1] + IF plan[i].wallet = w THEN plan[i].amount ELSE 0
  BY <1>4, <1>5 DEF MovedStep
<1>. DEFINE Bad == {n \in 0..Len(plan) : f[n] \notin Int}
<1>8. Bad = {}
  <2>1. SUFFICES ASSUME Bad # {} PROVE FALSE
    OBVIOUS
  <2>2. PICK n \in Bad : \A m \in Bad : n <= m
    <3>1. Bad \in SUBSET Nat
      BY <1>5
    <3>. HIDE DEF Bad
    <3>. QED BY <2>1, <3>1, LeastNumber
  <2>3. n \in 1..Len(plan) /\ n - 1 \in 0..Len(plan) /\ ~(n <= n - 1)
    BY <1>5, <1>6, <2>2
  <2>4. f[n - 1] \in Int
    BY <2>2, <2>3
  <2>5. PICK a \in Int : f[n] = f[n - 1] + a
    BY <1>5, <1>7, <2>3
  <2>. QED BY <2>2, <2>4, <2>5
<1>9. \A n \in 1..Len(plan) : plan[n].wallet # w => f[n] = f[n - 1]
  BY <1>5, <1>7, <1>8
<1>. QED BY <1>1, <1>6, <1>8, <1>9

-------------------------------------------------------------------------------
(* What a step leaves alone                                                    *)

LEMMA NoTxType == NoTx \in Tx
BY DEF NoTx, Tx, Places, Acting

LEMMA SqlInit == Init => SqlInv
<1>. SUFFICES ASSUME Init PROVE SqlInv
  OBVIOUS
<1>1. SqlTypes
  <2>1. wallet \in [Wallets -> Nat \union {None}]
    BY FundsAssumption DEF Init
  <2>2. claims \in [Epochs -> [Keys -> Outcome \union {None}]]
    BY DEF Init
  <2>3. sess \in [Sessions -> Tx]
    BY NoTxType DEF Init
  <2>4. version \in Nat /\ epoch \in Epochs /\ phase \in {"ready", "resetting"}
        /\ moves \in 0..MaxMoves
    BY EpochAssumption, MaxMovesAssumption DEF Init, Epochs
  <2>. QED BY <2>1, <2>2, <2>3, <2>4 DEF SqlTypes
<1>2. ReadyIsWhole
  BY FundsAssumption, GameNoneAssumption DEF Init, ReadyIsWhole
<1>3. \A s \in Sessions : sess[s].at = "idle" /\ sess[s].op = "none" /\ sess[s] = NoTx
  BY DEF Init, NoTx
<1>4. \A s \in Sessions : SessionSound(s)
  BY <1>3 DEF SessionSound, PlaceSound, ActionSound, MoveSound, ResetSound, SharesEpoch, Acting
<1>5. \A s, t \in Sessions : s # t => Excludes(s, t)
  BY <1>3 DEF Excludes, OwnsEpoch, SharesEpoch, OwnsClaim, OwnsWallet, HoldsResetLock
<1>. QED BY <1>1, <1>2, <1>4, <1>5 DEF SqlInv

\* A step that changes what one session knows, and no data.
LEMMA SessionStep ==
  ASSUME SqlInv, dataUnchanged, NEW s \in Sessions, sess' \in [Sessions -> Tx],
         \A t \in Sessions : t # s => sess'[t] = sess[t],
         SessionSound(s)',
         \A t \in Sessions : t # s => Excludes(s, t)' /\ Excludes(t, s)'
  PROVE  SqlInv'
<1>1. SqlTypes' /\ ReadyIsWhole'
  BY DEF SqlInv, SqlTypes, ReadyIsWhole, dataUnchanged
<1>2. ASSUME NEW t \in Sessions, t # s PROVE SessionSound(t)'
  BY <1>2 DEF SqlInv, SessionSound, PlaceSound, ActionSound, MoveSound, ResetSound, SharesEpoch,
     dataUnchanged
<1>3. ASSUME NEW t \in Sessions, NEW u \in Sessions, t # u PROVE Excludes(t, u)'
  <2>1. CASE t # s /\ u # s
    BY <1>3, <2>1 DEF SqlInv, Excludes, OwnsEpoch, SharesEpoch, OwnsClaim, OwnsWallet,
       HoldsResetLock
  <2>. QED BY <1>3, <2>1
<1>. QED BY <1>1, <1>2, <1>3 DEF SqlInv

\* The end of a transaction that changed nothing.
LEMMA Ends ==
  ASSUME SqlInv, dataUnchanged, NEW s \in Sessions, End(s)
  PROVE  SqlInv'
<1>1. /\ sess' \in [Sessions -> Tx] /\ sess'[s] = NoTx
      /\ \A t \in Sessions : t # s => sess'[t] = sess[t]
  BY NoTxType DEF End, SqlInv, SqlTypes
<1>2. sess'[s].at = "idle" /\ sess'[s].op = "none"
  BY <1>1 DEF NoTx
<1>3. SessionSound(s)'
  BY <1>1, <1>2 DEF SessionSound, PlaceSound, ActionSound, MoveSound, ResetSound, SharesEpoch,
     Acting
<1>4. ASSUME NEW t \in Sessions, t # s PROVE Excludes(s, t)' /\ Excludes(t, s)'
  BY <1>2 DEF Excludes, OwnsEpoch, SharesEpoch, OwnsClaim, OwnsWallet, HoldsResetLock
<1>. QED BY <1>1, <1>3, <1>4, SessionStep

\* A transaction that goes to its next statement.
LEMMA Goes ==
  ASSUME SqlTypes, NEW s \in Sessions, NEW place \in Places, Goto(s, place)
  PROVE  /\ sess' \in [Sessions -> Tx]
         /\ \A t \in Sessions : t # s => sess'[t] = sess[t]
         /\ sess'[s].at = place /\ sess'[s].op = sess[s].op
         /\ sess'[s].key = sess[s].key /\ sess'[s].variant = sess[s].variant
         /\ sess'[s].epoch = sess[s].epoch /\ sess'[s].seen = sess[s].seen
         /\ sess'[s].plan = sess[s].plan /\ sess'[s].move = sess[s].move
         /\ sess'[s].gone = sess[s].gone
<1>1. sess \in [Sessions -> Tx] /\ sess[s] \in Tx
  BY DEF SqlTypes
<1>2. sess' = [sess EXCEPT ![s] = [sess[s] EXCEPT !.at = place]]
  BY DEF Goto
<1>3. [sess[s] EXCEPT !.at = place] \in Tx
  BY <1>1 DEF Tx
<1>. QED BY <1>1, <1>2, <1>3 DEF Tx

\* Where balances, plans and receipts belong.
LEMMA PlanTypes ==
  ASSUME NEW before \in [Wallets -> Nat], NEW plan \in Plans, Affordable(before, plan),
         NEW k \in Keys, NEW v \in Variants, NEW n \in Nat
  PROVE  /\ After(before, plan, Len(plan)) \in [Wallets -> Nat]
         /\ NewReceipt(k, v, plan, before, n) \in Receipt
         /\ NewReceipt(k, v, plan, before, n).after = After(before, plan, Len(plan))
<1>1. \A w \in Wallets : Moved(plan, Len(plan), w) \in Int
  <2>1. plan \in Seq(Movement) /\ Len(plan) \in 0..Len(plan)
    BY PlansAssumption
  <2>. QED BY <2>1, MovedSums
<1>2. After(before, plan, Len(plan)) \in [Wallets -> Int]
  BY <1>1 DEF After
<1>3. \A w \in Wallets : After(before, plan, Len(plan))[w] >= 0
  BY DEF Affordable
<1>4. After(before, plan, Len(plan)) \in [Wallets -> Nat]
  BY <1>2, <1>3
<1>5. before \in [Wallets -> Int]
  OBVIOUS
<1>. QED BY <1>2, <1>4, <1>5 DEF NewReceipt, Receipt

-------------------------------------------------------------------------------
(* The steps, one by one                                                       *)

LEMMA AskKeeps ==
  ASSUME SqlInv, NEW s \in Sessions, NEW op \in Acting, NEW k \in Keys, NEW v \in Variants,
         Ask(s, op, k, v)
  PROVE  SqlInv'
<1>. DEFINE tx == [NoTx EXCEPT !.op = op, !.at = "epoch", !.key = k, !.variant = v]
<1>1. /\ tx \in Tx /\ tx.op = op /\ tx.at = "epoch" /\ tx.key = k /\ tx.variant = v
      /\ tx.move.wallet = None
  BY NoTxType DEF Tx, Places, Acting, NoTx
<1>. HIDE DEF tx
<1>2. /\ sess' \in [Sessions -> Tx] /\ sess'[s] = tx
      /\ \A t \in Sessions : t # s => sess'[t] = sess[t]
  BY <1>1 DEF Ask, tx, SqlInv, SqlTypes
<1>3. SessionSound(s)'
  BY <1>1, <1>2 DEF SessionSound, PlaceSound, ActionSound, MoveSound, ResetSound, SharesEpoch,
     Acting
<1>4. ASSUME NEW t \in Sessions, t # s PROVE Excludes(s, t)' /\ Excludes(t, s)'
  BY <1>1, <1>2 DEF Excludes, OwnsEpoch, SharesEpoch, OwnsClaim, OwnsWallet, HoldsResetLock,
     Acting
<1>. QED BY <1>2, <1>3, <1>4, SessionStep DEF Ask

LEMMA ReadEpochKeeps ==
  ASSUME SqlInv, NEW s \in Sessions, ReadEpoch(s)
  PROVE  SqlInv'
<1>1. CASE End(s)
  BY <1>1, Ends DEF ReadEpoch
<1>2. CASE phase = "ready" /\ sess' = [sess EXCEPT ![s].at = "claim", ![s].epoch = epoch]
  <2>1. sess[s] \in Tx /\ sess \in [Sessions -> Tx] /\ epoch \in Nat /\ epoch \in Epochs
    BY DEF SqlInv, SqlTypes, Epochs
  <2>2. /\ sess' \in [Sessions -> Tx] /\ \A t \in Sessions : t # s => sess'[t] = sess[t]
        /\ sess'[s].at = "claim" /\ sess'[s].op = sess[s].op /\ sess'[s].epoch = epoch
        /\ sess'[s].key = sess[s].key /\ sess'[s].variant = sess[s].variant
        /\ sess'[s].move = sess[s].move
    <3>1. sess' = [sess EXCEPT ![s] = [sess[s] EXCEPT !.at = "claim", !.epoch = epoch]]
      BY <1>2
    <3>2. [sess[s] EXCEPT !.at = "claim", !.epoch = epoch] \in Tx
      BY <2>1 DEF Tx, Places
    <3>. QED BY <2>1, <3>1, <3>2 DEF Tx
  <2>3. sess[s].op \in Acting /\ PlaceSound(s) /\ UNCHANGED <<epoch, phase>>
    BY DEF ReadEpoch, Acting, SqlInv, SessionSound, dataUnchanged
  <2>4. SessionSound(s)'
    BY <1>2, <2>2, <2>3 DEF SessionSound, PlaceSound, ActionSound, MoveSound, ResetSound,
       SharesEpoch, Acting
  <2>5. ASSUME NEW t \in Sessions, t # s PROVE Excludes(s, t)' /\ Excludes(t, s)'
    <3>1. ~OwnsEpoch(t)
      BY <2>5 DEF ReadEpoch, EpochReadable
    <3>. QED BY <2>2, <2>3, <2>5, <3>1
         DEF Excludes, OwnsEpoch, SharesEpoch, OwnsClaim, OwnsWallet, HoldsResetLock, Acting
  <2>. QED BY <2>2, <2>4, <2>5, SessionStep DEF ReadEpoch
<1>. QED BY <1>1, <1>2 DEF ReadEpoch

LEMMA ClaimKeeps ==
  ASSUME SqlInv, NEW s \in Sessions, Claim(s)
  PROVE  SqlInv'
<1>1. CASE End(s)
  BY <1>1, Ends DEF Claim
<1>2. CASE claims[sess[s].epoch][sess[s].key] = None /\ Insert(s)
  <2>0. sess[s].at = "claim" /\ dataUnchanged /\ PlaceSound(s) /\ ActionSound(s)
    BY DEF Claim, At, SqlInv, SessionSound
  <2>. DEFINE place == IF sess[s].op = "execute" THEN "capture" ELSE "commit"
  <2>1. place \in Places /\ Goto(s, place)
    BY <1>2 DEF Insert, Places
  <2>2. /\ sess' \in [Sessions -> Tx] /\ \A t \in Sessions : t # s => sess'[t] = sess[t]
        /\ sess'[s].at = place /\ sess'[s].op = sess[s].op
        /\ sess'[s].key = sess[s].key /\ sess'[s].variant = sess[s].variant
        /\ sess'[s].epoch = sess[s].epoch /\ sess'[s].move = sess[s].move
    BY <2>1, Goes DEF SqlInv
  <2>3. sess[s].op \in Acting /\ SharesEpoch(s)
    BY <2>0 DEF PlaceSound, SharesEpoch, Acting
  <2>4. SessionSound(s)'
    <3>1. PlaceSound(s)'
      BY <2>0, <2>2, <2>3 DEF PlaceSound, Acting
    <3>2. ActionSound(s)'
      BY <1>2, <2>0, <2>2, <2>3 DEF ActionSound, SharesEpoch, Acting, dataUnchanged
    <3>. QED BY <2>2, <2>3, <3>1, <3>2 DEF SessionSound, MoveSound, ResetSound, Acting
  <2>5. ASSUME NEW t \in Sessions, t # s PROVE Excludes(s, t)' /\ Excludes(t, s)'
    <3>1. ~OwnsClaim(t, sess[s].epoch, sess[s].key)
      BY <2>5 DEF Claim, ClaimFree
    <3>2. ~OwnsEpoch(t)
      BY <2>3, <2>5 DEF SqlInv, Excludes
    <3>3. \A w \in Wallets : ~OwnsWallet(s, w)'
      BY <2>0, <2>2, <2>3, WalletsAssumption DEF OwnsWallet, PlaceSound, Acting
    <3>4. /\ ~OwnsEpoch(s)' /\ ~HoldsResetLock(s)' /\ ~OwnsEpoch(t)'
          /\ \A e \in Epochs, k \in Keys : OwnsClaim(s, e, k)' =>
                e = sess[s].epoch /\ k = sess[s].key
      BY <2>2, <2>3, <2>5, <3>2 DEF OwnsEpoch, HoldsResetLock, OwnsClaim, Acting
    <3>5. \A e, k : OwnsClaim(t, e, k)' <=> OwnsClaim(t, e, k)
      BY <2>2, <2>5 DEF OwnsClaim
    <3>. QED BY <3>1, <3>3, <3>4, <3>5 DEF Excludes
  <2>. QED BY <2>0, <2>2, <2>4, <2>5, SessionStep
<1>. QED BY <1>1, <1>2 DEF Claim

LEMMA CaptureKeeps ==
  ASSUME SqlInv, NEW s \in Sessions, Capture(s)
  PROVE  SqlInv'
<1>1. CASE End(s)
  BY <1>1, Ends DEF Capture
<1>2. CASE /\ \A w \in Wallets : wallet[w] # None
           /\ \E plan \in Plans : Affordable(wallet, plan) /\
                sess' = [sess EXCEPT ![s].at = "commit", ![s].plan = plan,
                                ![s].seen = [balance |-> wallet, version |-> version]]
  <2>0. /\ sess[s].at = "capture" /\ sess[s].op = "execute" /\ dataUnchanged
        /\ PlaceSound(s) /\ ActionSound(s) /\ SharesEpoch(s)
    BY DEF Capture, At, SqlInv, SessionSound, PlaceSound, SharesEpoch
  <2>1. PICK plan \in Plans : Affordable(wallet, plan) /\
                sess' = [sess EXCEPT ![s].at = "commit", ![s].plan = plan,
                                ![s].seen = [balance |-> wallet, version |-> version]]
    BY <1>2
  <2>2. wallet \in [Wallets -> Nat] /\ version \in Nat
    BY <1>2 DEF SqlInv, SqlTypes
  <2>. DEFINE seen == [balance |-> wallet, version |-> version]
  <2>3. /\ sess' \in [Sessions -> Tx] /\ \A t \in Sessions : t # s => sess'[t] = sess[t]
        /\ sess'[s].at = "commit" /\ sess'[s].op = sess[s].op
        /\ sess'[s].key = sess[s].key /\ sess'[s].variant = sess[s].variant
        /\ sess'[s].epoch = sess[s].epoch /\ sess'[s].move = sess[s].move
        /\ sess'[s].plan = plan /\ sess'[s].seen = seen
    <3>1. sess \in [Sessions -> Tx] /\ sess[s] \in Tx
      BY DEF SqlInv, SqlTypes
    <3>2. seen \in Seen
      BY <2>2 DEF Seen
    <3>. HIDE DEF seen
    <3>3. [sess[s] EXCEPT !.at = "commit", !.plan = plan, !.seen = seen] \in Tx
      BY <3>1, <3>2 DEF Tx, Places
    <3>4. sess' = [sess EXCEPT ![s] = [sess[s] EXCEPT !.at = "commit", !.plan = plan, !.seen = seen]]
      BY <2>1 DEF seen
    <3>. QED BY <3>1, <3>3, <3>4 DEF Tx
  <2>4. SessionSound(s)'
    <3>1. PlaceSound(s)'
      BY <2>0, <2>3 DEF PlaceSound, Acting
    <3>2. ActionSound(s)'
      BY <2>0, <2>1, <2>2, <2>3 DEF ActionSound, SharesEpoch, Acting, dataUnchanged
    <3>. QED BY <2>0, <2>3, <3>1, <3>2 DEF SessionSound, MoveSound, ResetSound
  <2>5. ASSUME NEW t \in Sessions, t # s PROVE Excludes(s, t)' /\ Excludes(t, s)'
    <3>1. \A w \in Wallets : ~OwnsWallet(t, w)
      BY <2>5 DEF Capture, Locks, WalletFree
    <3>2. Excludes(s, t) /\ Excludes(t, s)
      BY <2>5 DEF SqlInv
    <3>. QED BY <2>0, <2>3, <2>5, <3>1, <3>2
         DEF Excludes, OwnsEpoch, SharesEpoch, OwnsClaim, OwnsWallet, HoldsResetLock
  <2>. QED BY <2>0, <2>3, <2>4, <2>5, SessionStep
<1>. QED BY <1>1, <1>2 DEF Capture, Refuse

LEMMA TransactKeeps ==
  ASSUME SqlInv, NEW s \in Sessions, NEW w \in Wallets, NEW amount \in Amounts,
         Transact(s, w, amount)
  PROVE  SqlInv'
<1>. DEFINE tx == [NoTx EXCEPT !.op = "transact", !.at = "wallet",
                               !.move = [wallet |-> w, amount |-> amount]]
<1>1. /\ tx \in Tx /\ tx.op = "transact" /\ tx.at = "wallet" /\ tx.key = None
      /\ tx.move = [wallet |-> w, amount |-> amount]
  BY NoTxType, FundsAssumption DEF Tx, Places, NoTx
<1>. HIDE DEF tx
<1>2. /\ sess' \in [Sessions -> Tx] /\ sess'[s] = tx
      /\ \A t \in Sessions : t # s => sess'[t] = sess[t]
  BY <1>1 DEF Transact, tx, SqlInv, SqlTypes
<1>3. SessionSound(s)'
  BY <1>1, <1>2 DEF SessionSound, PlaceSound, ActionSound, MoveSound, ResetSound, SharesEpoch,
     Acting
<1>4. ASSUME NEW t \in Sessions, t # s PROVE Excludes(s, t)' /\ Excludes(t, s)'
  BY <1>1, <1>2 DEF Excludes, OwnsEpoch, SharesEpoch, OwnsClaim, OwnsWallet, HoldsResetLock
<1>. QED BY <1>2, <1>3, <1>4, SessionStep DEF Transact

LEMMA ReadWalletKeeps ==
  ASSUME SqlInv, NEW s \in Sessions, ReadWallet(s)
  PROVE  SqlInv'
<1>. DEFINE w == sess[s].move.wallet
<1>0. sess[s].at = "wallet" /\ dataUnchanged /\ WalletFree(s, w) /\ PlaceSound(s)
  BY DEF ReadWallet, At, SqlInv, SessionSound
<1>1. CASE End(s)
  BY <1>0, <1>1, Ends
<1>2. CASE /\ wallet[w] # None /\ Covered(wallet[w], sess[s].move.amount)
           /\ sess' = [sess EXCEPT ![s].at = "commit", ![s].seen = wallet[w]]
  <2>1. /\ sess[s].op = "transact" /\ w \in Wallets /\ sess[s].key = None
        /\ sess[s].move.amount \in Amounts
    BY <1>0 DEF PlaceSound
  <2>2. wallet[w] \in Nat /\ wallet[w] + sess[s].move.amount >= 0
    BY <1>2, <2>1 DEF SqlInv, SqlTypes, Covered
  <2>3. /\ sess' \in [Sessions -> Tx] /\ \A t \in Sessions : t # s => sess'[t] = sess[t]
        /\ sess'[s].at = "commit" /\ sess'[s].op = "transact" /\ sess'[s].seen = wallet[w]
        /\ sess'[s].key = None /\ sess'[s].move = sess[s].move
    <3>1. sess \in [Sessions -> Tx] /\ sess[s] \in Tx
      BY DEF SqlInv, SqlTypes
    <3>2. [sess[s] EXCEPT !.at = "commit", !.seen = wallet[w]] \in Tx
      BY <2>2, <3>1 DEF Tx, Places
    <3>3. sess' = [sess EXCEPT ![s] = [sess[s] EXCEPT !.at = "commit", !.seen = wallet[w]]]
      BY <1>2
    <3>. QED BY <2>1, <3>1, <3>2, <3>3 DEF Tx
  <2>4. SessionSound(s)'
    BY <1>0, <2>1, <2>2, <2>3
    DEF SessionSound, PlaceSound, ActionSound, MoveSound, ResetSound, SharesEpoch, Acting,
       dataUnchanged
  <2>5. ASSUME NEW t \in Sessions, t # s PROVE Excludes(s, t)' /\ Excludes(t, s)'
    <3>1. ~OwnsWallet(t, w)
      BY <1>0, <2>5 DEF WalletFree
    <3>2. /\ ~OwnsEpoch(s)' /\ ~SharesEpoch(s)' /\ ~HoldsResetLock(s)'
          /\ \A e \in Epochs, k \in Keys : ~OwnsClaim(s, e, k)'
      BY <2>3, GameNoneAssumption DEF OwnsEpoch, SharesEpoch, HoldsResetLock, OwnsClaim
    <3>3. \A x \in Wallets : OwnsWallet(s, x)' => x = w
      BY <2>3 DEF OwnsWallet
    <3>4. \A x : OwnsWallet(t, x)' <=> OwnsWallet(t, x)
      BY <2>3, <2>5 DEF OwnsWallet
    <3>. QED BY <3>1, <3>2, <3>3, <3>4 DEF Excludes
  <2>. QED BY <1>0, <2>3, <2>4, <2>5, SessionStep
<1>. QED BY <1>1, <1>2 DEF ReadWallet

LEMMA ResetKeeps ==
  ASSUME SqlInv, NEW s \in Sessions, Reset(s)
  PROVE  SqlInv'
<1>. DEFINE tx == [NoTx EXCEPT !.op = "reset", !.at = "epoch"]
<1>1. tx \in Tx /\ tx.op = "reset" /\ tx.at = "epoch"
  BY NoTxType DEF Tx, Places, NoTx
<1>. HIDE DEF tx
<1>2. /\ sess' \in [Sessions -> Tx] /\ sess'[s] = tx
      /\ \A t \in Sessions : t # s => sess'[t] = sess[t]
  BY <1>1 DEF Reset, tx, SqlInv, SqlTypes
<1>3. SessionSound(s)'
  BY <1>1, <1>2
  DEF Reset, SessionSound, PlaceSound, ActionSound, MoveSound, ResetSound, SharesEpoch, Acting,
     dataUnchanged
<1>4. ASSUME NEW t \in Sessions, t # s PROVE Excludes(s, t)' /\ Excludes(t, s)'
  <2>1. ~HoldsResetLock(t)
    BY DEF Reset
  <2>. QED BY <1>1, <1>2, <1>4, <2>1
       DEF Excludes, OwnsEpoch, SharesEpoch, OwnsClaim, OwnsWallet, HoldsResetLock
<1>. QED BY <1>2, <1>3, <1>4, SessionStep DEF Reset

LEMMA LockEpochKeeps ==
  ASSUME SqlInv, NEW s \in Sessions, LockEpoch(s)
  PROVE  SqlInv'
<1>0. /\ sess[s].at = "epoch" /\ sess[s].op = "reset" /\ dataUnchanged /\ EpochWritable(s)
      /\ PlaceSound(s) /\ ResetSound(s)
  BY DEF LockEpoch, At, SqlInv, SessionSound
<1>. DEFINE next == epoch + 1
<1>1. next \in Nat
  BY EpochAssumption DEF SqlInv, SqlTypes, Epochs
<1>2. /\ sess' \in [Sessions -> Tx] /\ \A t \in Sessions : t # s => sess'[t] = sess[t]
      /\ sess'[s].at = "clear" /\ sess'[s].op = "reset" /\ sess'[s].epoch = next
  <2>1. sess \in [Sessions -> Tx] /\ sess[s] \in Tx
    BY DEF SqlInv, SqlTypes
  <2>2. sess' = [sess EXCEPT ![s] = [sess[s] EXCEPT !.at = "clear", !.epoch = next]]
    BY DEF LockEpoch
  <2>. HIDE DEF next
  <2>3. [sess[s] EXCEPT !.at = "clear", !.epoch = next] \in Tx
    BY <1>1, <2>1 DEF Tx, Places
  <2>. QED BY <1>0, <2>1, <2>2, <2>3 DEF Tx
<1>3. SessionSound(s)'
  BY <1>0, <1>2
  DEF SessionSound, PlaceSound, ActionSound, MoveSound, ResetSound, SharesEpoch, Acting,
     dataUnchanged
<1>4. ASSUME NEW t \in Sessions, t # s PROVE Excludes(s, t)' /\ Excludes(t, s)'
  <2>1. ~OwnsEpoch(t) /\ ~SharesEpoch(t)
    BY <1>0, <1>4 DEF EpochWritable
  <2>2. ~HoldsResetLock(t)
    BY <1>0, <1>4 DEF SqlInv, Excludes, HoldsResetLock
  <2>. QED BY <1>2, <1>4, <2>1, <2>2
       DEF Excludes, OwnsEpoch, SharesEpoch, OwnsClaim, OwnsWallet, HoldsResetLock
<1>. QED BY <1>0, <1>2, <1>3, <1>4, SessionStep

LEMMA ClearKeeps ==
  ASSUME SqlInv, NEW s \in Sessions, Clear(s)
  PROVE  SqlInv'
<1>0. /\ sess[s].at = "clear" /\ dataUnchanged /\ Goto(s, "commitReset")
      /\ \A w \in Wallets : WalletFree(s, w)
      /\ PlaceSound(s) /\ ResetSound(s) /\ sess[s].op = "reset"
  BY DEF Clear, At, SqlInv, SessionSound, PlaceSound
<1>2. /\ sess' \in [Sessions -> Tx] /\ \A t \in Sessions : t # s => sess'[t] = sess[t]
      /\ sess'[s].at = "commitReset" /\ sess'[s].op = "reset" /\ sess'[s].epoch = sess[s].epoch
  BY <1>0, Goes DEF SqlInv, Places
<1>3. SessionSound(s)'
  BY <1>0, <1>2
  DEF SessionSound, PlaceSound, ActionSound, MoveSound, ResetSound, SharesEpoch, Acting,
     dataUnchanged
<1>4. ASSUME NEW t \in Sessions, t # s PROVE Excludes(s, t)' /\ Excludes(t, s)'
  <2>1. \A w \in Wallets : ~OwnsWallet(t, w)
    BY <1>0, <1>4 DEF WalletFree
  <2>2. Excludes(s, t) /\ Excludes(t, s)
    BY <1>4 DEF SqlInv
  <2>. QED BY <1>0, <1>2, <1>4, <2>1, <2>2
       DEF Excludes, OwnsEpoch, SharesEpoch, OwnsClaim, OwnsWallet, HoldsResetLock
<1>. QED BY <1>0, <1>2, <1>3, <1>4, SessionStep

LEMMA FinalizeKeeps ==
  ASSUME SqlInv, NEW s \in Sessions, Finalize(s)
  PROVE  SqlInv'
<1>0. /\ sess[s].at = "finalize" /\ dataUnchanged /\ EpochWritable(s)
      /\ PlaceSound(s) /\ ResetSound(s) /\ sess[s].op = "reset"
  BY DEF Finalize, At, SqlInv, SessionSound, PlaceSound
<1>1. CASE End(s)
  BY <1>0, <1>1, Ends
<1>2. CASE Goto(s, "commitReady")
  <2>1. /\ sess' \in [Sessions -> Tx] /\ \A t \in Sessions : t # s => sess'[t] = sess[t]
        /\ sess'[s].at = "commitReady" /\ sess'[s].op = "reset"
    BY <1>0, <1>2, Goes DEF SqlInv, Places
  <2>2. SessionSound(s)'
    BY <1>0, <2>1
    DEF SessionSound, PlaceSound, ActionSound, MoveSound, ResetSound, SharesEpoch, Acting,
       dataUnchanged
  <2>3. ASSUME NEW t \in Sessions, t # s PROVE Excludes(s, t)' /\ Excludes(t, s)'
    <3>1. ~OwnsEpoch(t) /\ ~SharesEpoch(t)
      BY <1>0, <2>3 DEF EpochWritable
    <3>2. ~HoldsResetLock(t)
      BY <1>0, <2>3 DEF SqlInv, Excludes, HoldsResetLock
    <3>. QED BY <2>1, <2>3, <3>1, <3>2
         DEF Excludes, OwnsEpoch, SharesEpoch, OwnsClaim, OwnsWallet, HoldsResetLock
  <2>. QED BY <1>0, <2>1, <2>2, <2>3, SessionStep
<1>. QED BY <1>1, <1>2 DEF Finalize

LEMMA LoseConnectionKeeps ==
  ASSUME SqlInv, NEW s \in Sessions, LoseConnection(s)
  PROVE  SqlInv'
<1>0. /\ dataUnchanged /\ sess[s].at # "idle" /\ SessionSound(s)
      /\ sess' = [sess EXCEPT ![s].gone = TRUE]
  BY DEF LoseConnection, SqlInv
<1>1. /\ sess' \in [Sessions -> Tx] /\ \A t \in Sessions : t # s => sess'[t] = sess[t]
      /\ sess'[s].at = sess[s].at /\ sess'[s].op = sess[s].op /\ sess'[s].key = sess[s].key
      /\ sess'[s].variant = sess[s].variant /\ sess'[s].epoch = sess[s].epoch
      /\ sess'[s].seen = sess[s].seen /\ sess'[s].plan = sess[s].plan
      /\ sess'[s].move = sess[s].move
  <2>1. sess \in [Sessions -> Tx] /\ sess[s] \in Tx
    BY DEF SqlInv, SqlTypes
  <2>2. [sess[s] EXCEPT !.gone = TRUE] \in Tx
    BY <2>1 DEF Tx
  <2>3. sess' = [sess EXCEPT ![s] = [sess[s] EXCEPT !.gone = TRUE]]
    BY <1>0
  <2>. QED BY <2>1, <2>2, <2>3 DEF Tx
<1>2. SessionSound(s)'
  <2>1. PlaceSound(s)'
    BY <1>0, <1>1 DEF SessionSound, PlaceSound
  <2>2. ActionSound(s)'
    BY <1>0, <1>1 DEF SessionSound, ActionSound, SharesEpoch, dataUnchanged
  <2>3. MoveSound(s)' /\ ResetSound(s)'
    BY <1>0, <1>1 DEF SessionSound, MoveSound, ResetSound, dataUnchanged
  <2>. QED BY <2>1, <2>2, <2>3 DEF SessionSound
<1>3. ASSUME NEW t \in Sessions, t # s PROVE Excludes(s, t)' /\ Excludes(t, s)'
  <2>1. Excludes(s, t) /\ Excludes(t, s)
    BY <1>3 DEF SqlInv
  <2>. QED BY <1>1, <1>3, <2>1
       DEF Excludes, OwnsEpoch, SharesEpoch, OwnsClaim, OwnsWallet, HoldsResetLock
<1>. QED BY <1>0, <1>1, <1>2, <1>3, SessionStep

\* A commit lets go of every lock of its transaction.
LEMMA Unlocks ==
  ASSUME SqlInv, NEW s \in Sessions,
         \A t \in Sessions : t # s => sess'[t] = sess[t],
         sess'[s].at \in {"idle", "answer", "bootstrap"},
         sess'[s].op \in {"none", sess[s].op}
  PROVE  \A t, u \in Sessions : t # u => Excludes(t, u)'
<1>. SUFFICES ASSUME NEW t \in Sessions, NEW u \in Sessions, t # u PROVE Excludes(t, u)'
  OBVIOUS
<1>1. Excludes(t, u)
  BY DEF SqlInv
<1>2. \A x \in Sessions : x # s =>
        /\ OwnsEpoch(x)' = OwnsEpoch(x) /\ SharesEpoch(x)' = SharesEpoch(x)
        /\ HoldsResetLock(x)' = HoldsResetLock(x)
        /\ \A e, k : OwnsClaim(x, e, k)' = OwnsClaim(x, e, k)
        /\ \A w : OwnsWallet(x, w)' = OwnsWallet(x, w)
  BY DEF OwnsEpoch, SharesEpoch, OwnsClaim, OwnsWallet, HoldsResetLock
<1>3. /\ ~OwnsEpoch(s)' /\ ~SharesEpoch(s)' /\ (HoldsResetLock(s)' => HoldsResetLock(s))
      /\ \A e, k : ~OwnsClaim(s, e, k)'
      /\ \A w : ~OwnsWallet(s, w)'
  BY DEF OwnsEpoch, SharesEpoch, OwnsClaim, OwnsWallet, HoldsResetLock
<1>. QED BY <1>1, <1>2, <1>3 DEF Excludes

\* Whichever way a transaction ends, or goes on to another.
LEMMA Leaves ==
  ASSUME SqlTypes, NEW s \in Sessions, NEW place \in Places,
         (IF sess[s].gone THEN End(s) ELSE Goto(s, place))
  PROVE  /\ sess' \in [Sessions -> Tx]
         /\ \A t \in Sessions : t # s => sess'[t] = sess[t]
         /\ \/ sess'[s] = NoTx /\ sess'[s].at = "idle" /\ sess'[s].op = "none"
            \/ /\ sess'[s].at = place /\ sess'[s].op = sess[s].op
               /\ sess'[s].key = sess[s].key /\ sess'[s].variant = sess[s].variant
               /\ sess'[s].epoch = sess[s].epoch /\ sess'[s].move = sess[s].move
<1>1. CASE End(s)
  <2>1. sess' \in [Sessions -> Tx] /\ sess'[s] = NoTx /\ \A t \in Sessions : t # s => sess'[t] = sess[t]
    BY <1>1, NoTxType DEF End, SqlTypes
  <2>. QED BY <2>1 DEF NoTx
<1>2. CASE Goto(s, place)
  BY <1>2, Goes
<1>. QED BY <1>1, <1>2

\* A session that acts works on its key in this epoch.
LEMMA ActsHere ==
  ASSUME SqlInv, NEW s \in Sessions, sess[s].op \in Acting, sess[s].at \in {"capture", "commit"}
  PROVE  /\ sess[s].epoch = epoch /\ epoch \in Epochs /\ phase = "ready"
         /\ sess[s].key \in Keys /\ sess[s].variant \in Variants
         /\ claims[epoch][sess[s].key] = None
         /\ OwnsClaim(s, epoch, sess[s].key)
<1>1. PlaceSound(s) /\ ActionSound(s) /\ SharesEpoch(s) /\ epoch \in Epochs
  BY DEF SqlInv, SqlTypes, SessionSound, SharesEpoch, Acting
<1>. QED BY <1>1 DEF PlaceSound, ActionSound, OwnsClaim

\* A claim that a session makes leaves those of the others as they knew them.
LEMMA OthersClaims ==
  ASSUME SqlInv, NEW s \in Sessions, sess[s].op \in Acting, sess[s].at = "commit",
         NEW c \in Outcome,
         claims' = [claims EXCEPT ![sess[s].epoch][sess[s].key] = c],
         UNCHANGED <<epoch, phase>>,
         NEW t \in Sessions, t # s, sess'[t] = sess[t],
         sess[t].op = "execute" /\ sess[t].at = "commit" =>
            UNCHANGED <<wallet, version>>
  PROVE  ActionSound(t)'
<1>1. /\ sess[s].epoch = epoch /\ epoch \in Epochs /\ sess[s].key \in Keys
      /\ OwnsClaim(s, epoch, sess[s].key)
  BY ActsHere
<1>2. claims \in [Epochs -> [Keys -> Outcome \union {None}]] /\ ActionSound(t) /\ Excludes(s, t)
  BY DEF SqlInv, SqlTypes, SessionSound
<1>3. ASSUME NEW e \in Epochs, NEW k \in Keys, e # epoch \/ k # sess[s].key
      PROVE  claims'[e][k] = claims[e][k]
  BY <1>1, <1>2, <1>3
<1>4. claims'[epoch][sess[s].key] = c /\ c # None
  BY <1>1, <1>2, GameNoneAssumption
<1>5. ASSUME sess[t].op \in Acting, sess[t].at \in {"capture", "commit"}
      PROVE  claims'[sess[t].epoch][sess[t].key] = None
  <2>1. /\ sess[t].epoch = epoch /\ sess[t].key \in Keys /\ claims[epoch][sess[t].key] = None
        /\ OwnsClaim(t, epoch, sess[t].key)
    BY <1>5, ActsHere
  <2>2. sess[t].key # sess[s].key
    BY <1>1, <1>2, <2>1 DEF Excludes
  <2>. QED BY <1>1, <1>3, <2>1, <2>2
<1>6. ASSUME sess[t].at = "answer"
      PROVE  sess[t].epoch \in Epochs /\ claims'[sess[t].epoch][sess[t].key] # None
  <2>1. sess[t].epoch \in Epochs /\ claims[sess[t].epoch][sess[t].key] # None
    BY <1>2, <1>6 DEF ActionSound
  <2>2. PlaceSound(t)
    BY DEF SqlInv, SessionSound
  <2>3. sess[t].key \in Keys
    BY <1>6, <2>2 DEF PlaceSound, Acting
  <2>. QED BY <1>3, <1>4, <2>1, <2>3
<1>7. (SharesEpoch(t) => sess[t].epoch = epoch /\ phase = "ready")'
  BY <1>2 DEF ActionSound, SharesEpoch
<1>8. (sess[t].op = "execute" /\ sess[t].at = "commit" =>
        /\ sess[t].plan \in Plans
        /\ wallet \in [Wallets -> Nat]
        /\ sess[t].seen = [balance |-> wallet, version |-> version]
        /\ Affordable(wallet, sess[t].plan))'
  BY <1>2 DEF ActionSound
<1>. QED BY <1>5, <1>6, <1>7, <1>8 DEF ActionSound

LEMMA CommitUncommittedKeeps ==
  ASSUME SqlInv, NEW s \in Sessions, CommitUncommitted(s)
  PROVE  SqlInv'
<1>. DEFINE c == [variant |-> sess[s].variant, receipt |-> None]
<1>0. /\ sess[s].at = "commit" /\ sess[s].op = "resolve" /\ sess[s].op \in Acting
      /\ UNCHANGED <<wallet, version, epoch, phase, moves>>
      /\ claims' = [claims EXCEPT ![sess[s].epoch][sess[s].key] = c]
      /\ (IF sess[s].gone THEN End(s) ELSE Goto(s, "answer"))
      /\ SqlTypes
  BY DEF CommitUncommitted, Committing, Acting, SqlInv
<1>1. /\ sess[s].epoch = epoch /\ epoch \in Epochs /\ sess[s].key \in Keys
      /\ sess[s].variant \in Variants
  BY <1>0, ActsHere
<1>2. c \in Outcome
  BY <1>1 DEF Outcome
<1>. HIDE DEF c
<1>3. /\ sess' \in [Sessions -> Tx] /\ \A t \in Sessions : t # s => sess'[t] = sess[t]
      /\ \/ sess'[s] = NoTx /\ sess'[s].at = "idle" /\ sess'[s].op = "none"
         \/ /\ sess'[s].at = "answer" /\ sess'[s].op = sess[s].op
            /\ sess'[s].key = sess[s].key /\ sess'[s].variant = sess[s].variant
            /\ sess'[s].epoch = sess[s].epoch /\ sess'[s].move = sess[s].move
  <2>1. "answer" \in Places
    BY DEF Places
  <2>. QED BY <1>0, <2>1, Leaves
<1>4. claims \in [Epochs -> [Keys -> Outcome \union {None}]]
  BY <1>0 DEF SqlTypes
<1>5. claims' \in [Epochs -> [Keys -> Outcome \union {None}]]
  BY <1>0, <1>1, <1>2, <1>4
<1>6. SqlTypes' /\ ReadyIsWhole'
  BY <1>0, <1>3, <1>5 DEF SqlInv, SqlTypes, ReadyIsWhole
<1>7. SessionSound(s)'
  <2>1. claims'[sess[s].epoch][sess[s].key] # None
    BY <1>0, <1>1, <1>2, <1>4, GameNoneAssumption
  <2>2. PlaceSound(s)
    BY DEF SqlInv, SessionSound
  <2>3. PlaceSound(s)'
    BY <1>0, <1>3, <2>2 DEF PlaceSound, Acting
  <2>4. ActionSound(s)'
    BY <1>1, <1>3, <2>1 DEF ActionSound, SharesEpoch
  <2>5. MoveSound(s)' /\ ResetSound(s)'
    BY <1>0, <1>3 DEF MoveSound, ResetSound
  <2>. QED BY <2>3, <2>4, <2>5 DEF SessionSound
<1>8. ASSUME NEW t \in Sessions, t # s PROVE SessionSound(t)'
  <2>1. ActionSound(t)'
    BY <1>0, <1>2, <1>3, <1>8, OthersClaims
  <2>2. PlaceSound(t)' /\ MoveSound(t)' /\ ResetSound(t)'
    BY <1>0, <1>3, <1>8 DEF SqlInv, SessionSound, PlaceSound, MoveSound, ResetSound
  <2>. QED BY <2>1, <2>2 DEF SessionSound
<1>9. \A t, u \in Sessions : t # u => Excludes(t, u)'
  BY <1>3, Unlocks
<1>. QED BY <1>6, <1>7, <1>8, <1>9 DEF SqlInv

LEMMA CommitActionKeeps ==
  ASSUME SqlInv, NEW s \in Sessions, CommitAction(s)
  PROVE  SqlInv'
<1>. DEFINE r == NewReceipt(sess[s].key, sess[s].variant, sess[s].plan, wallet, version)
            c == [variant |-> sess[s].variant, receipt |-> r]
<1>0. /\ sess[s].at = "commit" /\ sess[s].op = "execute" /\ sess[s].op \in Acting
      /\ UNCHANGED <<epoch, phase, moves>>
      /\ (IF sess[s].gone THEN End(s) ELSE Goto(s, "answer"))
      /\ SqlTypes
  BY DEF CommitAction, Committing, Acting, SqlInv
<1>1. /\ sess[s].epoch = epoch /\ epoch \in Epochs /\ sess[s].key \in Keys
      /\ sess[s].variant \in Variants
  BY <1>0, ActsHere
<1>2. /\ sess[s].plan \in Plans /\ wallet \in [Wallets -> Nat]
      /\ sess[s].seen.balance = wallet /\ sess[s].seen.version = version
      /\ Affordable(wallet, sess[s].plan) /\ version \in Nat
  BY <1>0 DEF SqlInv, SqlTypes, SessionSound, ActionSound
<1>3. /\ claims' = [claims EXCEPT ![sess[s].epoch][sess[s].key] = c]
      /\ wallet' = r.after /\ version' = version + 1
  BY <1>2 DEF CommitAction
<1>4. /\ r \in Receipt /\ r.after \in [Wallets -> Nat]
  BY <1>1, <1>2, PlanTypes
<1>. HIDE DEF r
<1>5. c \in Outcome /\ wallet' \in [Wallets -> Nat] /\ version' \in Nat
  BY <1>1, <1>2, <1>3, <1>4 DEF Outcome
<1>. HIDE DEF c
<1>6. /\ sess' \in [Sessions -> Tx] /\ \A t \in Sessions : t # s => sess'[t] = sess[t]
      /\ \/ sess'[s] = NoTx /\ sess'[s].at = "idle" /\ sess'[s].op = "none"
         \/ /\ sess'[s].at = "answer" /\ sess'[s].op = sess[s].op
            /\ sess'[s].key = sess[s].key /\ sess'[s].variant = sess[s].variant
            /\ sess'[s].epoch = sess[s].epoch /\ sess'[s].move = sess[s].move
  <2>1. "answer" \in Places
    BY DEF Places
  <2>. QED BY <1>0, <2>1, Leaves
<1>7. claims \in [Epochs -> [Keys -> Outcome \union {None}]]
  BY <1>0 DEF SqlTypes
<1>8. claims' \in [Epochs -> [Keys -> Outcome \union {None}]]
  BY <1>1, <1>3, <1>5, <1>7
<1>9. SqlTypes' /\ ReadyIsWhole'
  <2>1. SqlTypes'
    BY <1>0, <1>5, <1>6, <1>8 DEF SqlTypes
  <2>2. ReadyIsWhole'
    BY <1>5, GameNoneAssumption DEF ReadyIsWhole
  <2>. QED BY <2>1, <2>2
<1>10. SessionSound(s)'
  <2>1. claims'[sess[s].epoch][sess[s].key] # None
    BY <1>1, <1>3, <1>5, <1>7, GameNoneAssumption
  <2>2. PlaceSound(s)
    BY DEF SqlInv, SessionSound
  <2>3. PlaceSound(s)'
    BY <1>0, <1>6, <2>2 DEF PlaceSound, Acting
  <2>4. ActionSound(s)'
    BY <1>1, <1>6, <2>1 DEF ActionSound, SharesEpoch
  <2>5. MoveSound(s)' /\ ResetSound(s)'
    BY <1>0, <1>6 DEF MoveSound, ResetSound
  <2>. QED BY <2>3, <2>4, <2>5 DEF SessionSound
<1>11. ASSUME NEW t \in Sessions, t # s PROVE SessionSound(t)'
  <2>0. Excludes(s, t) /\ SessionSound(t) /\ sess'[t] = sess[t]
    BY <1>6, <1>11 DEF SqlInv
  <2>1. \A w \in Wallets : ~OwnsWallet(t, w)
    BY <1>0, <2>0 DEF Excludes, OwnsWallet
  <2>2. ~(sess[t].op = "execute" /\ sess[t].at = "commit")
    BY <2>1, WalletsAssumption DEF OwnsWallet
  <2>3. ActionSound(t)'
    BY <1>0, <1>3, <1>5, <1>11, <2>0, <2>2, OthersClaims
  <2>4. MoveSound(t)'
    <3>1. ~(sess[t].op = "transact" /\ sess[t].at = "commit")
      BY <2>0, <2>1 DEF OwnsWallet, SessionSound, PlaceSound
    <3>. QED BY <2>0, <3>1 DEF MoveSound
  <2>5. PlaceSound(t)' /\ ResetSound(t)'
    BY <1>0, <1>5, <2>0 DEF SessionSound, PlaceSound, ResetSound
  <2>. QED BY <2>3, <2>4, <2>5 DEF SessionSound
<1>12. \A t, u \in Sessions : t # u => Excludes(t, u)'
  BY <1>6, Unlocks
<1>. QED BY <1>9, <1>10, <1>11, <1>12 DEF SqlInv

LEMMA CommitMoveKeeps ==
  ASSUME SqlInv, NEW s \in Sessions, CommitMove(s)
  PROVE  SqlInv'
<1>. DEFINE w == sess[s].move.wallet
            left == sess[s].seen + sess[s].move.amount
<1>0. /\ sess[s].at = "commit" /\ sess[s].op = "transact" /\ SqlTypes /\ SessionSound(s)
      /\ UNCHANGED <<version, epoch, phase, claims>>
      /\ wallet' = [wallet EXCEPT ![w] = left] /\ moves' = moves + 1 /\ moves < MaxMoves /\ End(s)
  BY DEF CommitMove, Committing, SqlInv
<1>1. w \in Wallets /\ sess[s].move.amount \in Int /\ sess[s].seen \in Nat /\ left >= 0
  BY <1>0, FundsAssumption DEF SessionSound, PlaceSound, MoveSound
<1>2. left \in Nat
  BY <1>1
<1>. HIDE DEF left
<1>3. wallet' \in [Wallets -> Nat \union {None}] /\ moves' \in 0..MaxMoves
  BY <1>0, <1>1, <1>2, MaxMovesAssumption DEF SqlTypes
<1>4. \A x \in Wallets : wallet[x] # None => wallet'[x] # None
  BY <1>0, <1>1, <1>2, GameNoneAssumption DEF SqlTypes
<1>5. /\ sess' \in [Sessions -> Tx] /\ sess'[s] = NoTx /\ \A t \in Sessions : t # s => sess'[t] = sess[t]
  BY <1>0, NoTxType DEF End, SqlTypes
<1>6. sess'[s].at = "idle" /\ sess'[s].op = "none"
  BY <1>5 DEF NoTx
<1>7. SqlTypes' /\ ReadyIsWhole'
  BY <1>0, <1>3, <1>4, <1>5 DEF SqlInv, SqlTypes, ReadyIsWhole
<1>8. SessionSound(s)'
  BY <1>5, <1>6 DEF SessionSound, PlaceSound, ActionSound, MoveSound, ResetSound, SharesEpoch,
     Acting
<1>9. ASSUME NEW t \in Sessions, t # s PROVE SessionSound(t)'
  <2>0. Excludes(s, t) /\ SessionSound(t) /\ sess'[t] = sess[t] /\ PlaceSound(t)
    BY <1>5, <1>9 DEF SqlInv, SessionSound
  <2>1. ~OwnsWallet(t, w)
    BY <1>0, <1>1, <2>0 DEF Excludes, OwnsWallet
  <2>2. ~(sess[t].op = "execute" /\ sess[t].at = "commit")
    BY <2>1 DEF OwnsWallet
  <2>3. ActionSound(t)'
    BY <1>0, <2>0, <2>2 DEF SessionSound, ActionSound, SharesEpoch
  <2>4. MoveSound(t)'
    <3>1. ASSUME sess[t].op = "transact", sess[t].at = "commit"
          PROVE  sess[t].move.wallet \in Wallets /\ sess[t].move.wallet # w
      BY <2>0, <2>1, <3>1 DEF OwnsWallet, PlaceSound
    <3>2. ASSUME sess[t].op = "transact", sess[t].at = "commit"
          PROVE  wallet'[sess[t].move.wallet] = wallet[sess[t].move.wallet]
      BY <1>0, <1>1, <3>1, <3>2 DEF SqlTypes
    <3>. QED BY <2>0, <3>2 DEF SessionSound, MoveSound
  <2>5. ResetSound(t)'
    <3>1. wallet \in [Wallets -> Nat] => wallet' \in [Wallets -> Nat]
      BY <1>0, <1>1, <1>2
    <3>. QED BY <1>0, <2>0, <3>1 DEF SessionSound, ResetSound
  <2>6. PlaceSound(t)'
    BY <2>0 DEF PlaceSound
  <2>. QED BY <2>3, <2>4, <2>5, <2>6 DEF SessionSound
<1>10. \A t, u \in Sessions : t # u => Excludes(t, u)'
  BY <1>5, <1>6, Unlocks
<1>. QED BY <1>7, <1>8, <1>9, <1>10 DEF SqlInv

LEMMA CommitResetKeeps ==
  ASSUME SqlInv, NEW s \in Sessions, CommitReset(s)
  PROVE  SqlInv'
<1>0. /\ sess[s].at = "commitReset" /\ SqlTypes /\ SessionSound(s)
      /\ UNCHANGED <<claims, moves>>
      /\ epoch' = sess[s].epoch /\ phase' = "resetting"
      /\ wallet' = [w \in Wallets |-> None] /\ version' = 0
      /\ (IF sess[s].gone THEN End(s) ELSE Goto(s, "bootstrap"))
  BY DEF CommitReset, Committing, SqlInv
<1>1. sess[s].op = "reset" /\ sess[s].epoch = epoch + 1 /\ epoch < MaxEpoch
  BY <1>0 DEF SessionSound, PlaceSound, ResetSound
<1>2. epoch' \in Epochs
  BY <1>0, <1>1, EpochAssumption DEF SqlTypes, Epochs
<1>3. /\ sess' \in [Sessions -> Tx] /\ \A t \in Sessions : t # s => sess'[t] = sess[t]
      /\ \/ sess'[s] = NoTx /\ sess'[s].at = "idle" /\ sess'[s].op = "none"
         \/ sess'[s].at = "bootstrap" /\ sess'[s].op = sess[s].op
  <2>1. "bootstrap" \in Places
    BY DEF Places
  <2>. QED BY <1>0, <2>1, Leaves
<1>4. SqlTypes' /\ ReadyIsWhole'
  <2>1. wallet' \in [Wallets -> Nat \union {None}]
    BY <1>0
  <2>2. SqlTypes'
    BY <1>0, <1>2, <1>3, <2>1 DEF SqlTypes
  <2>. QED BY <1>0, <2>2 DEF ReadyIsWhole
<1>5. SessionSound(s)'
  BY <1>1, <1>3 DEF SessionSound, PlaceSound, ActionSound, MoveSound, ResetSound, SharesEpoch,
     Acting
<1>6. ASSUME NEW t \in Sessions, t # s PROVE SessionSound(t)'
  <2>0. /\ Excludes(s, t) /\ SessionSound(t) /\ sess'[t] = sess[t] /\ PlaceSound(t)
        /\ ActionSound(t)
    BY <1>3, <1>6 DEF SqlInv, SessionSound
  <2>1. /\ ~SharesEpoch(t) /\ ~HoldsResetLock(t)
    BY <1>0, <1>1, <2>0 DEF Excludes, OwnsEpoch, HoldsResetLock
  <2>2. \A w \in Wallets : ~OwnsWallet(t, w)
    BY <1>0, <2>0 DEF Excludes, OwnsWallet
  <2>3. ActionSound(t)'
    <3>1. ~(sess[t].op \in Acting /\ sess[t].at \in {"capture", "commit"})
      BY <2>1 DEF SharesEpoch, Acting
    <3>2. ~SharesEpoch(t)'
      BY <2>0, <2>1 DEF SharesEpoch
    <3>. QED BY <1>0, <2>0, <3>1, <3>2 DEF ActionSound, Acting
  <2>4. MoveSound(t)'
    <3>1. ~(sess[t].op = "transact" /\ sess[t].at = "commit")
      BY <2>0, <2>2 DEF OwnsWallet, PlaceSound
    <3>. QED BY <2>0, <3>1 DEF MoveSound
  <2>5. PlaceSound(t)' /\ ResetSound(t)'
    BY <2>0, <2>1 DEF PlaceSound, ResetSound, HoldsResetLock
  <2>. QED BY <2>3, <2>4, <2>5 DEF SessionSound
<1>7. \A t, u \in Sessions : t # u => Excludes(t, u)'
  BY <1>3, Unlocks
<1>. QED BY <1>4, <1>5, <1>6, <1>7 DEF SqlInv

LEMMA BootstrapKeeps ==
  ASSUME SqlInv, NEW s \in Sessions, Bootstrap(s)
  PROVE  SqlInv'
<1>0. /\ sess[s].at = "bootstrap" /\ SqlTypes /\ SessionSound(s)
      /\ UNCHANGED <<version, epoch, phase, claims, moves>>
      /\ wallet' = [w \in Wallets |-> IF wallet[w] = None THEN Opening ELSE wallet[w]]
      /\ Goto(s, "finalize")
  BY DEF Bootstrap, At, SqlInv
<1>1. wallet' \in [Wallets -> Nat]
  BY <1>0, FundsAssumption DEF SqlTypes
<1>2. \A w \in Wallets : wallet[w] # None => wallet'[w] = wallet[w]
  BY <1>0
<1>3. /\ sess' \in [Sessions -> Tx] /\ \A t \in Sessions : t # s => sess'[t] = sess[t]
      /\ sess'[s].at = "finalize" /\ sess'[s].op = "reset"
  BY <1>0, Goes DEF Places, SessionSound, PlaceSound
<1>4. SqlTypes' /\ ReadyIsWhole'
  <2>1. SqlTypes'
    BY <1>0, <1>1, <1>3 DEF SqlTypes
  <2>. QED BY <1>1, <2>1, GameNoneAssumption DEF ReadyIsWhole
<1>5. SessionSound(s)'
  BY <1>1, <1>3 DEF SessionSound, PlaceSound, ActionSound, MoveSound, ResetSound, SharesEpoch,
     Acting
<1>6. ASSUME NEW t \in Sessions, t # s PROVE SessionSound(t)'
  <2>0. /\ SessionSound(t) /\ sess'[t] = sess[t] /\ PlaceSound(t) /\ ActionSound(t) /\ MoveSound(t)
    BY <1>3, <1>6 DEF SqlInv, SessionSound
  <2>1. wallet \in [Wallets -> Nat] => wallet' = wallet
    BY <1>0, <1>1, <1>2, GameNoneAssumption
  <2>2. ActionSound(t)'
    BY <1>0, <2>0, <2>1 DEF ActionSound, SharesEpoch
  <2>3. MoveSound(t)'
    <3>1. ASSUME sess[t].op = "transact", sess[t].at = "commit"
          PROVE  wallet'[sess[t].move.wallet] = wallet[sess[t].move.wallet]
      BY <1>2, <2>0, <3>1, GameNoneAssumption DEF PlaceSound, MoveSound
    <3>. QED BY <2>0, <3>1 DEF MoveSound
  <2>4. PlaceSound(t)' /\ ResetSound(t)'
    BY <1>0, <1>1, <2>0 DEF SessionSound, PlaceSound, ResetSound
  <2>. QED BY <2>2, <2>3, <2>4 DEF SessionSound
<1>7. ASSUME NEW t \in Sessions, NEW u \in Sessions, t # u PROVE Excludes(t, u)'
  <2>1. Excludes(t, u)
    BY <1>7 DEF SqlInv
  <2>2. \A x \in Sessions : x # s =>
          /\ OwnsEpoch(x)' = OwnsEpoch(x) /\ SharesEpoch(x)' = SharesEpoch(x)
          /\ HoldsResetLock(x)' = HoldsResetLock(x)
          /\ \A e, k : OwnsClaim(x, e, k)' = OwnsClaim(x, e, k)
          /\ \A w : OwnsWallet(x, w)' = OwnsWallet(x, w)
    BY <1>3 DEF OwnsEpoch, SharesEpoch, OwnsClaim, OwnsWallet, HoldsResetLock
  <2>3. /\ ~OwnsEpoch(s)' /\ ~SharesEpoch(s)' /\ HoldsResetLock(s)
        /\ \A e, k : ~OwnsClaim(s, e, k)'
        /\ \A w : ~OwnsWallet(s, w)'
    BY <1>0, <1>3 DEF OwnsEpoch, SharesEpoch, OwnsClaim, OwnsWallet, HoldsResetLock,
       SessionSound, PlaceSound
  <2>. QED BY <2>1, <2>2, <2>3 DEF Excludes
<1>. QED BY <1>4, <1>5, <1>6, <1>7 DEF SqlInv

LEMMA CommitReadyKeeps ==
  ASSUME SqlInv, NEW s \in Sessions, CommitReady(s)
  PROVE  SqlInv'
<1>0. /\ sess[s].at = "commitReady" /\ SqlTypes /\ SessionSound(s)
      /\ UNCHANGED <<wallet, version, epoch, claims, moves>>
      /\ phase' = "ready" /\ End(s)
  BY DEF CommitReady, Committing, SqlInv
<1>1. wallet \in [Wallets -> Nat]
  BY <1>0 DEF SessionSound, PlaceSound, ResetSound
<1>2. /\ sess' \in [Sessions -> Tx] /\ sess'[s] = NoTx /\ \A t \in Sessions : t # s => sess'[t] = sess[t]
  BY <1>0, NoTxType DEF End, SqlTypes
<1>3. sess'[s].at = "idle" /\ sess'[s].op = "none"
  BY <1>2 DEF NoTx
<1>4. SqlTypes' /\ ReadyIsWhole'
  BY <1>0, <1>1, <1>2, GameNoneAssumption DEF SqlTypes, ReadyIsWhole
<1>5. SessionSound(s)'
  BY <1>2, <1>3 DEF SessionSound, PlaceSound, ActionSound, MoveSound, ResetSound, SharesEpoch,
     Acting
<1>6. ASSUME NEW t \in Sessions, t # s PROVE SessionSound(t)'
  <2>0. SessionSound(t) /\ sess'[t] = sess[t]
    BY <1>2, <1>6 DEF SqlInv
  <2>. QED BY <1>0, <2>0
       DEF SessionSound, PlaceSound, ActionSound, MoveSound, ResetSound, SharesEpoch
<1>7. \A t, u \in Sessions : t # u => Excludes(t, u)'
  BY <1>2, <1>3, Unlocks
<1>. QED BY <1>4, <1>5, <1>6, <1>7 DEF SqlInv

LEMMA StatementKeeps ==
  ASSUME SqlInv, NEW s \in Sessions, Statement(s)
  PROVE  SqlInv'
<1>1. CASE Answer(s)
  BY <1>1, Ends DEF Answer
<1>. QED
  BY <1>1, ReadEpochKeeps, ClaimKeeps, CaptureKeeps, CommitActionKeeps, CommitUncommittedKeeps,
     ReadWalletKeeps, CommitMoveKeeps, LockEpochKeeps, ClearKeeps, CommitResetKeeps,
     BootstrapKeeps, FinalizeKeeps, CommitReadyKeeps
  DEF Statement

LEMMA NextKeeps == SqlInv /\ [Next]_vars => SqlInv'
<1>. SUFFICES ASSUME SqlInv, [Next]_vars PROVE SqlInv'
  OBVIOUS
<1>1. ASSUME NEW s \in Sessions, Request(s) PROVE SqlInv'
  <2>1. ASSUME NEW op \in {"execute", "resolve"}, NEW k \in Keys, NEW v \in Variants,
               Ask(s, op, k, v)
        PROVE  SqlInv'
    BY <2>1, AskKeeps DEF Acting
  <2>. QED BY <1>1, <2>1, TransactKeeps, ResetKeeps DEF Request
<1>2. ASSUME NEW s \in Sessions, RollBack(s) PROVE SqlInv'
  BY <1>2, Ends DEF RollBack
<1>3. CASE UNCHANGED vars
  <2>1. /\ sess' = sess /\ wallet' = wallet /\ version' = version /\ epoch' = epoch
        /\ phase' = phase /\ claims' = claims /\ moves' = moves
    BY <1>3 DEF vars
  <2>2. SqlTypes' /\ ReadyIsWhole'
    BY <2>1 DEF SqlInv, SqlTypes, ReadyIsWhole
  <2>3. ASSUME NEW s \in Sessions PROVE SessionSound(s)'
    BY <2>1 DEF SqlInv, SessionSound, PlaceSound, ActionSound, MoveSound, ResetSound, SharesEpoch
  <2>4. ASSUME NEW s \in Sessions, NEW t \in Sessions, s # t PROVE Excludes(s, t)'
    BY <2>1, <2>4 DEF SqlInv, Excludes, OwnsEpoch, SharesEpoch, OwnsClaim, OwnsWallet,
       HoldsResetLock
  <2>. QED BY <2>2, <2>3, <2>4 DEF SqlInv
<1>. QED BY <1>1, <1>2, <1>3, StatementKeeps, LoseConnectionKeeps DEF Next

LEMMA SqlInvariance == Spec => []SqlInv
BY SqlInit, NextKeeps, PTL DEF Spec

-------------------------------------------------------------------------------
(* What follows                                                                *)

\* Type correctness: balances are natural numbers or absent, a claim is an outcome, and
\* a transaction that is about to commit has a plan and a balance to commit.
THEOREM SqlTypeCorrect == Spec => []TypeOK
<1>1. SqlInv => TypeOK
  <2>. SUFFICES ASSUME SqlInv PROVE TypeOK
    OBVIOUS
  <2>1. \A e \in Epochs, k \in Keys : claims[e][k] # None => claims[e][k] \in Outcome
    BY DEF SqlInv, SqlTypes
  <2>2. ASSUME NEW s \in Sessions
        PROVE  /\ sess[s].at \in Places
               /\ sess[s].at = "commit" /\ sess[s].op = "execute" => sess[s].plan \in Plans
               /\ sess[s].at = "commit" /\ sess[s].op = "transact" => sess[s].seen \in Nat
    <3>1. sess[s] \in Tx /\ ActionSound(s) /\ MoveSound(s)
      BY DEF SqlInv, SqlTypes, SessionSound
    <3>. QED BY <3>1 DEF Tx, ActionSound, MoveSound
  <2>. QED BY <2>1, <2>2 DEF SqlInv, SqlTypes, TypeOK
<1>. QED BY <1>1, SqlInvariance, PTL

\* Whoever finds the epoch ready finds every wallet: no failure or lost connection between
\* the commit of a reset and its bootstrap publishes a table of missing players.
THEOREM ResetsPublishWhole == Spec => []ReadyIsWhole
<1>1. SqlInv => ReadyIsWhole
  BY DEF SqlInv
<1>. QED BY <1>1, SqlInvariance, PTL

-------------------------------------------------------------------------------
(* The SQL provider implements the promise                                     *)

\* The balances the promise speaks of.
Bal == [w \in Wallets |-> IF wallet[w] = None THEN Opening ELSE wallet[w]]

\* The instance reads the vocabulary of game actions as this module does.
LEMMA SameVocabulary ==
  /\ Promise!Epochs = Epochs
  /\ \A before, plan, n : Promise!After(before, plan, n) = After(before, plan, n)
  /\ \A before, plan : Promise!Affordable(before, plan) <=> Affordable(before, plan)
  /\ \A k, v, plan, before, n :
        Promise!NewReceipt(k, v, plan, before, n) = NewReceipt(k, v, plan, before, n)
<1>1. \A plan, n, w : Promise!Moved(plan, n, w) = Moved(plan, n, w)
  BY DEF Promise!Moved, Moved
<1>2. \A before, plan, n : Promise!After(before, plan, n) = After(before, plan, n)
  BY <1>1 DEF Promise!After, After
<1>3. \A before, plan : Promise!Affordable(before, plan) <=> Affordable(before, plan)
  BY <1>2 DEF Promise!Affordable, Affordable
<1>4. \A k, v, plan, before, n :
        Promise!NewReceipt(k, v, plan, before, n) = NewReceipt(k, v, plan, before, n)
  BY <1>2 DEF Promise!NewReceipt, NewReceipt
<1>. QED BY <1>2, <1>3, <1>4 DEF Promise!Epochs, Epochs

LEMMA InitRefines == Init => Promise!Init
<1>. SUFFICES ASSUME Init PROVE Promise!Init
  OBVIOUS
<1>1. Bal = [w \in Wallets |-> Opening]
  BY DEF Init, Bal
<1>. QED BY <1>1, SameVocabulary DEF Init, Bal, Promise!Init

\* A step that only changes what sessions know.
LEMMA QuietStep ==
  ASSUME dataUnchanged, UNCHANGED told
  PROVE  UNCHANGED Promise!vars
BY DEF dataUnchanged, Promise!vars

LEMMA TellRefines ==
  ASSUME SqlInv, dataUnchanged, NEW e \in Epochs, NEW k \in Keys, claims[e][k] # None,
         Tell(0, e, k)
  PROVE  Promise!Next
<1>1. Promise!Tell(e, k)
  BY DEF Tell, Promise!Tell, dataUnchanged
<1>. QED BY <1>1, SameVocabulary DEF Promise!Next

LEMMA ClaimRefines ==
  ASSUME SqlInv, NEW s \in Sessions, Claim(s)
  PROVE  [Promise!Next]_(Promise!vars)
<1>0. sess[s].at = "claim" /\ dataUnchanged /\ PlaceSound(s) /\ ActionSound(s) /\ epoch \in Epochs
  BY DEF Claim, At, SqlInv, SqlTypes, SessionSound
<1>1. sess[s].epoch \in Epochs /\ sess[s].key \in Keys
  BY <1>0 DEF PlaceSound, ActionSound, SharesEpoch, Acting
<1>2. CASE UNCHANGED told
  BY <1>0, <1>2, QuietStep
<1>3. CASE claims[sess[s].epoch][sess[s].key] # None /\ Tell(s, sess[s].epoch, sess[s].key)
  <2>1. Tell(0, sess[s].epoch, sess[s].key)
    BY <1>3 DEF Tell
  <2>. QED BY <1>0, <1>1, <1>3, <2>1, TellRefines
<1>. QED BY <1>2, <1>3 DEF Claim, Insert

LEMMA AnswerRefines ==
  ASSUME SqlInv, NEW s \in Sessions, Answer(s)
  PROVE  Promise!Next
<1>0. /\ sess[s].at = "answer" /\ dataUnchanged /\ PlaceSound(s) /\ ActionSound(s)
      /\ Tell(0, sess[s].epoch, sess[s].key)
  BY DEF Answer, At, SqlInv, SessionSound, Tell
<1>1. /\ sess[s].epoch \in Epochs /\ sess[s].key \in Keys
      /\ claims[sess[s].epoch][sess[s].key] # None
  BY <1>0 DEF PlaceSound, ActionSound, Acting
<1>. QED BY <1>0, <1>1, TellRefines

LEMMA CommitActionRefines ==
  ASSUME SqlInv, NEW s \in Sessions, CommitAction(s)
  PROVE  Promise!Next
<1>0. /\ sess[s].at = "commit" /\ sess[s].op = "execute" /\ sess[s].op \in Acting
      /\ UNCHANGED <<epoch, told>>
  BY DEF CommitAction, Committing, Acting
<1>1. PICK k \in Keys, v \in Variants, plan \in Plans :
        k = sess[s].key /\ v = sess[s].variant /\ plan = sess[s].plan
  BY <1>0, ActsHere DEF SqlInv, SessionSound, ActionSound
<1>2. /\ wallet \in [Wallets -> Nat] /\ version \in Nat
      /\ sess[s].seen.balance = wallet /\ sess[s].seen.version = version
      /\ Affordable(wallet, plan)
  BY <1>0, <1>1 DEF SqlInv, SqlTypes, SessionSound, ActionSound
<1>. DEFINE r == NewReceipt(k, v, plan, wallet, version)
<1>3. sess[s].epoch = epoch /\ claims[epoch][k] = None
  BY <1>0, <1>1, ActsHere
<1>4. /\ claims' = [claims EXCEPT ![epoch][k] = [variant |-> v, receipt |-> r]]
      /\ wallet' = r.after /\ version' = version + 1
  BY <1>1, <1>2, <1>3 DEF CommitAction
<1>5. r.after \in [Wallets -> Nat]
  BY <1>2, PlanTypes
<1>6. Bal = wallet /\ Bal' = wallet'
  <2>1. wallet' \in [Wallets -> Nat]
    BY <1>4, <1>5
  <2>. QED BY <1>2, <2>1, GameNoneAssumption DEF Bal
<1>7. Promise!NewReceipt(k, v, plan, Bal, version) = r /\ Promise!Affordable(Bal, plan)
  BY <1>2, <1>6, SameVocabulary
<1>. HIDE DEF r
<1>8. Promise!Commit(k, v, plan)
  BY <1>0, <1>3, <1>4, <1>6, <1>7 DEF Promise!Commit, Promise!Decide, Bal
<1>. QED BY <1>8 DEF Promise!Next

LEMMA CommitUncommittedRefines ==
  ASSUME SqlInv, NEW s \in Sessions, CommitUncommitted(s)
  PROVE  Promise!Next
<1>0. /\ sess[s].at = "commit" /\ sess[s].op = "resolve" /\ sess[s].op \in Acting
  BY DEF CommitUncommitted, Committing, Acting
<1>1. /\ sess[s].epoch = epoch /\ sess[s].key \in Keys /\ sess[s].variant \in Variants
      /\ claims[epoch][sess[s].key] = None
  BY <1>0, ActsHere
<1>2. Promise!Cancel(sess[s].key, sess[s].variant)
  BY <1>1 DEF CommitUncommitted, Promise!Cancel, Promise!Decide
<1>. QED BY <1>1, <1>2 DEF Promise!Next

LEMMA CommitMoveRefines ==
  ASSUME SqlInv, NEW s \in Sessions, CommitMove(s)
  PROVE  Promise!Next
<1>0. /\ sess[s].at = "commit" /\ sess[s].op = "transact" /\ SqlTypes /\ SessionSound(s)
      /\ UNCHANGED <<version, epoch, claims, told>>
  BY DEF CommitMove, Committing, SqlInv
<1>1. PICK w \in Wallets, amount \in Amounts :
        w = sess[s].move.wallet /\ amount = sess[s].move.amount
  BY <1>0 DEF SessionSound, PlaceSound
<1>2. /\ sess[s].seen \in Nat /\ sess[s].seen = wallet[w] /\ sess[s].seen + amount >= 0
      /\ amount \in Int
  BY <1>0, <1>1, FundsAssumption DEF SessionSound, MoveSound
<1>. DEFINE left == sess[s].seen + amount
<1>3. left \in Nat /\ left # None /\ wallet[w] # None
  BY <1>2, GameNoneAssumption
<1>4. Bal[w] = sess[s].seen
  BY <1>2, <1>3 DEF Bal
<1>5. Bal' = [Bal EXCEPT ![w] = left]
  <2>1. wallet' = [wallet EXCEPT ![w] = left]
    BY <1>1 DEF CommitMove
  <2>. HIDE DEF left
  <2>2. ASSUME NEW x \in Wallets PROVE Bal'[x] = [Bal EXCEPT ![w] = left][x]
    BY <1>0, <1>3, <2>1 DEF Bal, SqlTypes
  <2>. QED BY <2>2 DEF Bal
<1>6. Promise!Move(w, amount)
  BY <1>0, <1>2, <1>4, <1>5 DEF Promise!Move, Bal
<1>. QED BY <1>6 DEF Promise!Next

LEMMA CommitResetRefines ==
  ASSUME SqlInv, NEW s \in Sessions, CommitReset(s)
  PROVE  Promise!Next
<1>0. /\ sess[s].at = "commitReset" /\ SessionSound(s)
      /\ UNCHANGED <<claims, told>> /\ epoch' = sess[s].epoch
      /\ wallet' = [w \in Wallets |-> None] /\ version' = 0
  BY DEF CommitReset, Committing, SqlInv
<1>1. epoch' = epoch + 1 /\ epoch < MaxEpoch
  BY <1>0 DEF SessionSound, PlaceSound, ResetSound
<1>2. Bal' = [w \in Wallets |-> Opening]
  BY <1>0 DEF Bal
<1>3. Promise!Reset
  BY <1>0, <1>1, <1>2 DEF Promise!Reset, Bal
<1>. QED BY <1>3 DEF Promise!Next

LEMMA BootstrapRefines ==
  ASSUME SqlInv, NEW s \in Sessions, Bootstrap(s)
  PROVE  UNCHANGED Promise!vars
<1>1. wallet' = Bal /\ UNCHANGED <<version, epoch, claims, told>>
  BY DEF Bootstrap, Bal
<1>2. \A w \in Wallets : Bal[w] # None
  BY FundsAssumption, GameNoneAssumption DEF Bal
<1>3. Bal' = Bal
  BY <1>1, <1>2 DEF Bal
<1>. QED BY <1>1, <1>3 DEF Promise!vars, Bal

LEMMA StepRefines == SqlInv /\ [Next]_vars => [Promise!Next]_(Promise!vars)
<1>. SUFFICES ASSUME SqlInv, [Next]_vars PROVE [Promise!Next]_(Promise!vars)
  OBVIOUS
<1>1. CASE UNCHANGED vars
  BY <1>1 DEF vars, Promise!vars
<1>2. ASSUME NEW s \in Sessions, Request(s) \/ RollBack(s) \/ LoseConnection(s)
      PROVE  UNCHANGED Promise!vars
  BY <1>2, QuietStep DEF Request, Ask, Transact, Reset, RollBack, LoseConnection
<1>3. ASSUME NEW s \in Sessions,
             \/ ReadEpoch(s) \/ Capture(s) \/ ReadWallet(s)
             \/ LockEpoch(s) \/ Clear(s) \/ Finalize(s)
      PROVE  UNCHANGED Promise!vars
  BY <1>3, QuietStep DEF ReadEpoch, Capture, ReadWallet, LockEpoch, Clear, Finalize
<1>4. ASSUME NEW s \in Sessions, CommitReady(s) PROVE UNCHANGED Promise!vars
  BY <1>4 DEF CommitReady, Promise!vars
<1>5. ASSUME NEW s \in Sessions, Statement(s) PROVE [Promise!Next]_(Promise!vars)
  BY <1>3, <1>4, <1>5, ClaimRefines, AnswerRefines, CommitActionRefines, CommitUncommittedRefines,
     CommitMoveRefines, CommitResetRefines, BootstrapRefines
  DEF Statement
<1>. QED BY <1>1, <1>2, <1>5 DEF Next

\* The SQL provider implements the promise of all providers: each key gets one outcome for
\* good, a committed action moves its wallets and publishes its state in one step, a caller
\* is told nothing else, and a reset starts its epoch in one step, for every number of
\* sessions, wallets, keys and epochs and however transactions interleave and are lost.
THEOREM SqlRefinement == Spec => ImplementsPromise
BY InitRefines, StepRefines, SqlInvariance, PTL DEF Spec, ImplementsPromise, Promise!Spec
===============================================================================
