-------------------------- MODULE Cw20WrapperProofs -------------------------
(***************************************************************************)
(* Lemmas about what the two wrapper tokens share: the rounding of each    *)
(* conversion, and the effect of each ledger operation and handler on the  *)
(* types, the vault and the supply.                                        *)
(***************************************************************************)
EXTENDS Cw20Wrapper, ArithmeticLemmas

-----------------------------------------------------------------------------
(* Conversions.                                                            *)

(* Minting n tokens costs LSD worth at least n Luna.                       *)
LEMMA DepositCovers ==
  ASSUME NEW n \in Nat, NEW r \in Nat \ {0}
  PROVE  /\ DepositFor(n, r) \in Nat
         /\ DepositFor(n, r) * r >= n * ONE
<1> DEFINE q == Quo(FromInt(n), r)
           d == DepositFor(n, r)
<1>1. /\ q \in Nat
      /\ (n * ONE) * ONE < q * r + r
  BY QuoBounds
<1>2. /\ d \in Nat
      /\ q + ONE < d * ONE + ONE
  BY <1>1, TruncBounds, OneAssumption DEF DepositFor
<1> HIDE DEF q, d
<1>3. (q + 1) * r <= (d * ONE) * r
  BY <1>1, <1>2, OneAssumption, MulMono
<1>4. (n * ONE) * ONE < (d * r) * ONE
  BY <1>1, <1>2, <1>3, OneAssumption, SMT
<1>5. n * ONE < d * r
  BY <1>2, <1>4, OneAssumption, MulNat, MulCancel
<1> QED
  BY <1>2, <1>5, OneAssumption, MulNat DEF d

(* n LSD buy tokens worth at most as much.                                 *)
LEMMA MintCovered ==
  ASSUME NEW n \in Nat, NEW r \in Nat
  PROVE  /\ MintFor(n, r) \in Nat
         /\ n * r >= MintFor(n, r) * ONE
BY ProdFromInt, TruncBounds, MulNat DEF MintFor

(* Burning n tokens pays LSD worth at most n Luna.                         *)
LEMMA PayoutCovered ==
  ASSUME NEW n \in Nat, NEW r \in Nat \ {0}
  PROVE  /\ PayoutFor(n, r) \in Nat
         /\ PayoutFor(n, r) * r <= n * ONE
<1> DEFINE q == Quo(FromInt(n), r)
           p == PayoutFor(n, r)
<1>1. /\ q \in Nat
      /\ q * r <= (n * ONE) * ONE
  BY QuoBounds
<1>2. /\ p \in Nat
      /\ p * ONE <= q
  BY <1>1, TruncBounds DEF PayoutFor
<1> HIDE DEF q, p
<1>3. (p * ONE) * r <= q * r
  BY <1>1, <1>2, OneAssumption, MulNat, MulMono
<1>4. (p * r) * ONE <= (n * ONE) * ONE
  BY <1>1, <1>2, <1>3, OneAssumption, SMT
<1>5. p * r <= n * ONE
  BY <1>2, <1>4, OneAssumption, MulNat, MulCancelLeq
<1> QED
  BY <1>2, <1>5 DEF p

(* The comparison that detects a slashing is exact, in spite of the two    *)
(* roundings in the exchange rate.                                         *)
LEMMA SlashedExactly ==
  ASSUME NEW b \in Nat, NEW s \in Nat, NEW r \in Nat
  PROVE  ExchangeRate(b, s, r) < ONE <=> b * r < s * ONE
<1>1. b * r \in Nat
  BY MulNat
<1>2. CASE s = 0
  BY <1>1, <1>2, OneAssumption DEF ExchangeRate
<1>3. CASE s # 0
  <2> DEFINE e == (b * r) \div s
  <2>1. ExchangeRate(b, s, r) = e
    BY <1>3, ProdFromInt DEF ExchangeRate, QuoInt, Backing
  <2>2. /\ e \in Nat
        /\ e * s <= b * r
        /\ b * r < e * s + s
    BY <1>1, <1>3, DivBounds
  <2> HIDE DEF e
  <2>3. ASSUME e < ONE PROVE b * r < s * ONE
    <3>1. (e + 1) * s <= ONE * s
      BY <2>2, <2>3, OneAssumption, MulMono
    <3> QED BY <2>2, <3>1, OneAssumption, SMT
  <2>4. ASSUME ONE <= e PROVE s * ONE <= b * r
    <3>1. ONE * s <= e * s
      BY <2>2, <2>4, OneAssumption, MulMono
    <3> QED BY <2>2, <3>1, OneAssumption, SMT
  <2> QED BY <1>1, <2>1, <2>2, <2>3, <2>4, OneAssumption, MulNat, SMT
<1> QED BY <1>2, <1>3

(* The whole LSD beyond what the supply needs.  Any part of it less one    *)
(* unit may leave the vault without touching the backing, and at most one  *)
(* LSD and a fraction exceeds it.                                          *)
LEMMA ExcessLsdBounds ==
  ASSUME NEW b \in Nat, NEW s \in Nat, NEW r \in Nat \ {0},
         b * r >= s * ONE
  PROVE  /\ ExcessLsd(b, s, r) \in Nat
         /\ ExcessLsd(b, s, r) <= b
         /\ \A w \in Nat : w < ExcessLsd(b, s, r) => (b - w) * r >= s * ONE
         /\ (b - ExcessLsd(b, s, r) - 1) * r < s * ONE
<1> DEFINE q == Quo(FromInt(s), r)
           y == ExcessLsd(b, s, r)
<1>1. /\ q \in Nat
      /\ q * r <= (s * ONE) * ONE
      /\ (s * ONE) * ONE < q * r + r
  BY QuoBounds
<1>2. b * ONE - q \in Nat
  <2>1. q * r <= (b * ONE) * r
    BY <1>1, OneAssumption, SMT
  <2>2. q <= b * ONE
    BY <1>1, <2>1, OneAssumption, MulNat, MulCancelLeq
  <2> QED BY <1>1, <2>2, OneAssumption, MulNat, SMT
<1>3. /\ y \in Nat
      /\ y * ONE <= b * ONE - q
      /\ b * ONE - q < y * ONE + ONE
  BY <1>2, TruncBounds DEF ExcessLsd, FromInt
<1> HIDE DEF q, y
<1>4. y <= b
  <2>1. y * ONE <= b * ONE
    BY <1>1, <1>2, <1>3, OneAssumption, SMT
  <2> QED BY <1>3, <2>1, OneAssumption, MulCancelLeq
<1>5. ASSUME NEW w \in Nat, w < y
      PROVE  (b - w) * r >= s * ONE
  <2>1. q + 1 <= (b - w) * ONE
    <3>1. (w + 1) * ONE <= y * ONE
      BY <1>3, <1>5, OneAssumption, MulMono
    <3> QED BY <1>1, <1>2, <1>3, <3>1, OneAssumption, SMT
  <2>2. b - w \in Nat
    BY <1>3, <1>4, <1>5
  <2>3. (q + 1) * r <= ((b - w) * ONE) * r
    BY <1>1, <2>1, <2>2, OneAssumption, MulNat, MulMono
  <2>4. (s * ONE) * ONE < ((b - w) * r) * ONE
    BY <1>1, <2>2, <2>3, OneAssumption, SMT
  <2>5. s * ONE < (b - w) * r
    BY <2>2, <2>4, OneAssumption, MulNat, MulCancel
  <2> QED BY <2>2, <2>5, OneAssumption, MulNat
<1>6. (b - y - 1) * r < s * ONE
  <2>1. (b - y - 1) * ONE < q
    BY <1>1, <1>2, <1>3, OneAssumption, SMT
  <2>2. ((b - y - 1) * ONE) * r < q * r
    BY <1>1, <1>3, <2>1, OneAssumption, SMT
  <2>3. ((b - y - 1) * r) * ONE < (s * ONE) * ONE
    BY <1>1, <1>3, <2>2, OneAssumption, SMT
  <2>4. (b - y - 1) * r \in Int /\ s * ONE \in Int
    BY <1>3, OneAssumption, SMT
  <2> QED BY <2>3, <2>4, OneAssumption, MulCancel
<1> QED
  BY <1>3, <1>4, <1>5, <1>6 DEF y

(* The Luna beyond the supply are at least the whole Luna one LSD is       *)
(* worth, when there is a whole LSD beyond the supply.                     *)
LEMMA LunaCoversLsd ==
  ASSUME NEW b \in Nat, NEW s \in Nat, NEW r \in Nat \ {0},
         b * r >= s * ONE
  PROVE  /\ ExcessLuna(b, s, r) \in Nat
         /\ OrdinaryRate(r) /\ ExcessLsd(b, s, r) > 0 =>
              ExcessLuna(b, s, r) >= Trunc(r)
<1> DEFINE v == b * r
           w == Trunc(v)
<1>1. v \in Nat /\ w \in Nat /\ v < w * ONE + ONE
  BY MulNat, TruncBounds
<1>2. ExcessLuna(b, s, r) = w - s
  BY ProdFromInt DEF ExcessLuna, Backing
<1> HIDE DEF w
<1>3. s <= w
  <2>1. s * ONE < (w + 1) * ONE
    BY <1>1, OneAssumption, MulNat, SMT
  <2> QED BY <1>1, <2>1, OneAssumption, MulCancel
<1>4. ASSUME OrdinaryRate(r), ExcessLsd(b, s, r) > 0
      PROVE  s + Trunc(r) <= w
  <2> DEFINE k == r \div ONE
             e == r % ONE
             q == Quo(FromInt(s), r)
             y == ExcessLsd(b, s, r)
  <2>1. /\ k \in Nat /\ e \in Nat /\ r = k * ONE + e /\ e < ONE
        /\ e >= k \/ (e = 0 /\ k <= ONE)
    BY <1>4, OneAssumption, SMT DEF OrdinaryRate
  <2>2. q \in Nat /\ (s * ONE) * ONE < q * r + r
    BY QuoBounds
  <2>3. y \in Nat /\ y > 0 /\ (b - y) * r >= (s * ONE) - r
    <3>1. y \in Nat /\ y > 0 /\ y - 1 \in Nat /\ y - 1 < y
      BY <1>4, ExcessLsdBounds
    <3>2. (b - (y - 1)) * r >= s * ONE
      BY <3>1, ExcessLsdBounds
    <3> HIDE DEF y
    <3>3. (b - (y - 1)) * r = (b - y) * r + r
      BY <3>1, SMT
    <3>4. (b - y) * r \in Int /\ s * ONE \in Nat
      BY <3>1, OneAssumption, MulNat, SMT
    <3> QED BY <3>1, <3>2, <3>3, <3>4
  <2>4. q <= (b - 1) * ONE
    <3>1. y = (b * ONE - q) \div ONE
      BY DEF ExcessLsd, Trunc, FromInt
    <3> HIDE DEF q, y
    <3>2. b * ONE - q >= ONE
      BY <2>2, <2>3, <3>1, OneAssumption, MulNat, SMT
    <3> QED BY <2>2, <3>2, OneAssumption, SMT
  <2> HIDE DEF q, y, k, e
  <2>5. (q + 1) * r <= ((b - 1) * ONE + 1) * r
    BY <2>2, <2>4, OneAssumption, SMT
  <2>6. (s * ONE) * ONE < ((b - 1) * ONE + 1) * r
    <3>1. (q + 1) * r = q * r + r /\ q * r \in Nat
      BY <2>2, MulNat, SMT
    <3>2. ((b - 1) * ONE + 1) * r \in Int /\ (s * ONE) * ONE \in Nat
      BY OneAssumption, MulNat, SMT
    <3> QED BY <2>2, <2>5, <3>1, <3>2
  <2>7. (s + k) * ONE <= v
    BY <2>1, <2>6, WholeUnitFits
  <2>8. (s + k) * ONE < (w + 1) * ONE
    BY <1>1, <2>1, <2>7, OneAssumption, MulNat, SMT
  <2>9. s + k < w + 1
    BY <1>1, <2>1, <2>8, OneAssumption, MulCancel
  <2> QED BY <1>1, <2>1, <2>9 DEF Trunc, k
<1> QED
  BY <1>1, <1>2, <1>3, <1>4, TruncBounds

-----------------------------------------------------------------------------
(* Type correctness.                                                       *)

(* A transfer between accounts, to oneself included, moves exactly n.      *)
LEMMA MoveFacts ==
  ASSUME NEW b \in [Accounts -> Nat], NEW from \in Accounts,
         NEW to \in Accounts, NEW n \in Nat, n <= b[from]
  PROVE  /\ Move(b, from, to, n) \in [Accounts -> Nat]
         /\ from = to => Move(b, from, to, n) = b
         /\ from # to => /\ Move(b, from, to, n)[from] = b[from] - n
                         /\ Move(b, from, to, n)[to] = b[to] + n
         /\ \A a \in Accounts \ {from, to} : Move(b, from, to, n)[a] = b[a]
<1> DEFINE d == [b EXCEPT ![from] = @ - n]
           m == Move(b, from, to, n)
<1>1. /\ d \in [Accounts -> Nat]
      /\ d[from] = b[from] - n
      /\ \A a \in Accounts \ {from} : d[a] = b[a]
  OBVIOUS
<1>2. m = [d EXCEPT ![to] = @ + n]
  BY DEF Move
<1> HIDE DEF d, m
<1>3. /\ m \in [Accounts -> Nat]
      /\ m[to] = d[to] + n
      /\ \A a \in Accounts \ {to} : m[a] = d[a]
  BY <1>1, <1>2
<1>4. ASSUME from = to PROVE m = b
  <2>1. \A a \in Accounts : m[a] = b[a]
    BY <1>1, <1>3, <1>4
  <2> QED BY <1>3, <2>1
<1> QED
  BY <1>1, <1>3, <1>4 DEF m

LEMMA UsersAreAccounts ==
  /\ Users \subseteq Accounts /\ Wrapper \in Accounts /\ Hub \in Accounts
  /\ \A u \in Users \cup {Hub} : u # Wrapper
BY ActorAssumption DEF Accounts

(* The initial state is well typed.                                        *)
LEMMA TokenInitType == TokenInit => TokenTypeOK
BY AmountAssumption DEF TokenInit, TokenTypeOK, Allowances, NoAllowance

(* An allowance replaced by another leaves the table of allowances typed.  *)
LEMMA AllowanceUpdate ==
  ASSUME TokenTypeOK, NEW o \in Accounts, NEW s \in Accounts,
         NEW a \in Allowances,
         allowance' = [allowance EXCEPT ![o][s] = a]
  PROVE  allowance' \in [Accounts -> [Accounts -> Allowances]]
<1>1. allowance[o] \in [Accounts -> Allowances]
  BY DEF TokenTypeOK
<1>2. [allowance[o] EXCEPT ![s] = a] \in [Accounts -> Allowances]
  BY <1>1
<1> QED
  BY <1>2 DEF TokenTypeOK

LEMMA AllowanceOf ==
  ASSUME TokenTypeOK, NEW o \in Accounts, NEW s \in Accounts
  PROVE  /\ allowance[o][s] \in Allowances
         /\ allowance[o][s].amount \in Nat
         /\ allowance[o][s] =
              [amount |-> allowance[o][s].amount,
               expires |-> allowance[o][s].expires]
BY DEF TokenTypeOK, Allowances

(* The ledger operations, one at a time.                                   *)
LEMMA IssueType ==
  ASSUME TokenTypeOK, NEW to \in Accounts, NEW n \in Nat, Issue(to, n)
  PROVE  bal' \in [Accounts -> Nat] /\ supply' \in Nat
BY DEF TokenTypeOK, Issue

LEMMA DestroyType ==
  ASSUME TokenTypeOK, NEW from \in Accounts, NEW n \in Nat, Destroy(from, n)
  PROVE  bal' \in [Accounts -> Nat] /\ supply' \in Nat
BY DEF TokenTypeOK, Destroy

LEMMA SpendType ==
  ASSUME TokenTypeOK, NEW owner \in Accounts, NEW spender \in Accounts,
         NEW n \in Nat, Spend(owner, spender, n)
  PROVE  allowance' \in [Accounts -> [Accounts -> Allowances]]
<1> DEFINE a == [allowance[owner][spender] EXCEPT !.amount = @ - n]
<1>1. a \in Allowances
  <2>1. /\ allowance[owner][spender] \in Allowances
        /\ allowance[owner][spender].amount \in Nat
    BY AllowanceOf
  <2>2. n <= allowance[owner][spender].amount
    BY DEF Spend
  <2>3. allowance[owner][spender].amount - n \in Nat
    BY <2>1, <2>2
  <2> QED BY <2>1, <2>3 DEF Allowances
<1>2. allowance' = [allowance EXCEPT ![owner][spender] = a]
  BY DEF Spend
<1> QED
  BY <1>1, <1>2, AllowanceUpdate

LEMMA PullFacts ==
  ASSUME TokenTypeOK, NEW u \in Users \cup {Hub}, NEW n \in Nat, PullLsd(u, n)
  PROVE  /\ lsd' \in [Accounts -> Nat]
         /\ lsd'[Wrapper] = lsd[Wrapper] + n
<1>1. /\ u \in Accounts /\ u # Wrapper /\ Wrapper \in Accounts
      /\ lsd \in [Accounts -> Nat] /\ n <= lsd[u]
  BY UsersAreAccounts DEF TokenTypeOK, PullLsd
<1>2. /\ Move(lsd, u, Wrapper, n) \in [Accounts -> Nat]
      /\ Move(lsd, u, Wrapper, n)[Wrapper] = lsd[Wrapper] + n
  BY <1>1, MoveFacts
<1> QED
  BY <1>2 DEF PullLsd

LEMMA PushFacts ==
  ASSUME TokenTypeOK, NEW u \in Accounts, NEW n \in Nat, PushLsd(u, n)
  PROVE  /\ lsd' \in [Accounts -> Nat]
         /\ u # Wrapper => lsd'[Wrapper] = lsd[Wrapper] - n
         /\ u = Wrapper => lsd'[Wrapper] = lsd[Wrapper]
BY UsersAreAccounts, MoveFacts DEF TokenTypeOK, PushLsd

-----------------------------------------------------------------------------
(* Handlers.                                                               *)

(* What a handler changes of the vault and the supply when it keeps the    *)
(* types: the LSD that come in or go out, and the tokens issued or burnt.  *)
LEMMA MintAtFacts ==
  ASSUME TokenTypeOK, NEW x \in Nat, NEW u \in Users, NEW v \in Accounts,
         NEW n \in Amounts, MintAt(x, u, v, n)
  PROVE  /\ TokenTypeOK' /\ rate' = rate
         /\ n \in Nat /\ DepositFor(n, x) \in Nat
         /\ DepositFor(n, x) * x >= n * ONE
         /\ lsd'[Wrapper] = lsd[Wrapper] + DepositFor(n, x)
         /\ supply' = supply + n
<1> DEFINE d == DepositFor(n, x)
<1>1. /\ n \in Nat /\ x \in Nat \ {0} /\ d \in Nat
      /\ d * x >= n * ONE
  BY AmountAssumption, DepositCovers DEF MintAt
<1> HIDE DEF d
<1>2. PullLsd(u, d)
  BY DEF MintAt, d
<1>3. /\ lsd' \in [Accounts -> Nat]
      /\ lsd'[Wrapper] = lsd[Wrapper] + d
  BY <1>1, <1>2, PullFacts
<1>4. /\ bal' \in [Accounts -> Nat] /\ supply' \in Nat
      /\ supply' = supply + n
  BY <1>1, IssueType DEF MintAt, Issue
<1>5. TokenTypeOK' /\ rate' = rate
  BY <1>3, <1>4 DEF TokenTypeOK, MintAt
<1> QED
  BY <1>1, <1>3, <1>4, <1>5 DEF d

LEMMA MintWithAtFacts ==
  ASSUME TokenTypeOK, NEW x \in Nat, NEW u \in Users, NEW v \in Accounts,
         NEW n \in Amounts, MintWithAt(x, u, v, n)
  PROVE  /\ TokenTypeOK' /\ rate' = rate
         /\ n \in Nat /\ MintFor(n, x) \in Nat
         /\ n * x >= MintFor(n, x) * ONE
         /\ lsd'[Wrapper] = lsd[Wrapper] + n
         /\ supply' = supply + MintFor(n, x)
<1> DEFINE m == MintFor(n, x)
<1>1. /\ n \in Nat /\ m \in Nat
      /\ n * x >= m * ONE
  BY AmountAssumption, MintCovered
<1> HIDE DEF m
<1>2. /\ lsd' \in [Accounts -> Nat]
      /\ lsd'[Wrapper] = lsd[Wrapper] + n
  BY <1>1, PullFacts DEF MintWithAt
<1>3. Issue(v, m)
  BY DEF MintWithAt, m
<1>4. /\ bal' \in [Accounts -> Nat] /\ supply' \in Nat
      /\ supply' = supply + m
  BY <1>1, <1>3, IssueType DEF Issue
<1>5. TokenTypeOK' /\ rate' = rate
  BY <1>2, <1>4 DEF TokenTypeOK, MintWithAt
<1> QED
  BY <1>1, <1>2, <1>4, <1>5 DEF m

(* The part that Burn, BurnAll and BurnFrom share.                         *)
LEMMA RedeemFacts ==
  ASSUME TokenTypeOK, NEW x \in Nat \ {0}, NEW u \in Users,
         NEW o \in Accounts, NEW n \in Nat,
         Destroy(o, n), PushLsd(u, PayoutFor(n, x))
  PROVE  /\ bal' \in [Accounts -> Nat] /\ lsd' \in [Accounts -> Nat]
         /\ PayoutFor(n, x) \in Nat
         /\ PayoutFor(n, x) * x <= n * ONE
         /\ lsd'[Wrapper] = lsd[Wrapper] - PayoutFor(n, x)
         /\ supply' = supply - n /\ supply' \in Nat
<1> DEFINE p == PayoutFor(n, x)
<1>1. /\ p \in Nat
      /\ p * x <= n * ONE
  BY PayoutCovered
<1> HIDE DEF p
<1>2. PushLsd(u, p)
  BY DEF p
<1>3. /\ lsd' \in [Accounts -> Nat]
      /\ lsd'[Wrapper] = lsd[Wrapper] - p
  BY <1>1, <1>2, PushFacts, UsersAreAccounts
<1>4. /\ bal' \in [Accounts -> Nat] /\ supply' \in Nat
      /\ supply' = supply - n
  BY DestroyType DEF Destroy
<1> QED
  BY <1>1, <1>3, <1>4 DEF p

LEMMA BurnAtFacts ==
  ASSUME TokenTypeOK, NEW x \in Nat, NEW u \in Users, NEW n \in Nat,
         BurnAt(x, u, n)
  PROVE  /\ TokenTypeOK' /\ rate' = rate /\ x > 0
         /\ PayoutFor(n, x) \in Nat
         /\ PayoutFor(n, x) * x <= n * ONE
         /\ lsd'[Wrapper] = lsd[Wrapper] - PayoutFor(n, x)
         /\ supply' = supply - n
<1>1. x \in Nat \ {0} /\ u \in Accounts
  BY UsersAreAccounts DEF BurnAt
<1> QED
  BY <1>1, RedeemFacts DEF BurnAt, TokenTypeOK

LEMMA BurnFromAtFacts ==
  ASSUME TokenTypeOK, NEW x \in Nat, NEW u \in Users, NEW o \in Accounts,
         NEW n \in Nat, BurnFromAt(x, u, o, n)
  PROVE  /\ TokenTypeOK' /\ rate' = rate /\ x > 0
         /\ PayoutFor(n, x) \in Nat
         /\ PayoutFor(n, x) * x <= n * ONE
         /\ lsd'[Wrapper] = lsd[Wrapper] - PayoutFor(n, x)
         /\ supply' = supply - n
<1>1. x \in Nat \ {0} /\ u \in Accounts
  BY UsersAreAccounts DEF BurnFromAt
<1> QED
  BY <1>1, RedeemFacts, SpendType DEF BurnFromAt, TokenTypeOK

(* Steps that leave the vault and the supply alone.                        *)
LEMMA TransferStep ==
  ASSUME TokenTypeOK, NEW u \in Accounts, NEW v \in Accounts, NEW n \in Nat,
         n <= bal[u], bal' = Move(bal, u, v, n)
  PROVE  bal' \in [Accounts -> Nat]
BY MoveFacts DEF TokenTypeOK

LEMMA AllowanceStep ==
  ASSUME TokenTypeOK, NEW u \in Users, NEW s \in Accounts, NEW n \in Nat,
         NEW given \in Expiries \cup {"keep"},
         IncreaseAllowance(u, s, n, given) \/ DecreaseAllowance(u, s, n, given)
  PROVE  TokenTypeOK' /\ UNCHANGED <<lsd, supply, rate>>
<1> DEFINE e == Expiry(allowance[u][s].expires, given)
           old == allowance[u][s].amount
<1>1. /\ u \in Accounts /\ old \in Nat
      /\ e \in {"absent", "never", "later", "past"}
  BY UsersAreAccounts, AllowanceOf, ExpiryAssumption DEF Expiry, Allowances
<1>2. PICK a \in Allowances : allowance' = [allowance EXCEPT ![u][s] = a]
  <2>1. [amount |-> old + n, expires |-> e] \in Allowances
    BY <1>1 DEF Allowances
  <2>2. n < old => [amount |-> old - n, expires |-> e] \in Allowances
    BY <1>1 DEF Allowances
  <2>3. NoAllowance \in Allowances
    BY DEF NoAllowance, Allowances
  <2>4. CASE IncreaseAllowance(u, s, n, given)
    BY <2>1, <2>4 DEF IncreaseAllowance
  <2>5. CASE DecreaseAllowance(u, s, n, given) /\ n < old
    BY <2>2, <2>5 DEF DecreaseAllowance
  <2>6. CASE DecreaseAllowance(u, s, n, given) /\ ~(n < old)
    BY <2>3, <2>6 DEF DecreaseAllowance
  <2> QED BY <2>4, <2>5, <2>6
<1>3. allowance' \in [Accounts -> [Accounts -> Allowances]]
  BY <1>1, <1>2, AllowanceUpdate
<1> QED
  BY <1>3 DEF TokenTypeOK, IncreaseAllowance, DecreaseAllowance

LEMMA ExpiryStep ==
  ASSUME TokenTypeOK, NEW o \in Accounts, NEW s \in Accounts,
         AllowanceExpires(o, s)
  PROVE  TokenTypeOK' /\ UNCHANGED <<lsd, supply, rate>>
<1> DEFINE a == [allowance[o][s] EXCEPT !.expires = "past"]
<1>1. a \in Allowances
  BY AllowanceOf DEF Allowances
<1>2. allowance' \in [Accounts -> [Accounts -> Allowances]]
  BY <1>1, AllowanceUpdate DEF AllowanceExpires
<1> QED
  BY <1>2 DEF TokenTypeOK, AllowanceExpires

(* The cw20 messages that neither mint nor burn.                           *)
LEMMA Cw20StepFacts ==
  ASSUME TokenTypeOK, NEW u \in Users, Cw20Step(u)
  PROVE  TokenTypeOK' /\ UNCHANGED <<lsd, supply, rate>>
<1> USE AmountAssumption
<1>0. u \in Accounts
  BY UsersAreAccounts
<1>1. ASSUME NEW v \in Accounts, NEW n \in Amounts,
             Transfer(u, v, n) \/ Send(u, v, n)
      PROVE  TokenTypeOK' /\ UNCHANGED <<lsd, supply, rate>>
  BY <1>0, <1>1, TransferStep DEF Transfer, Send, TokenTypeOK
<1>2. ASSUME NEW v \in Accounts, NEW n \in Amounts,
             NEW given \in Expiries \cup {"keep"},
             \/ IncreaseAllowance(u, v, n, given)
             \/ DecreaseAllowance(u, v, n, given)
      PROVE  TokenTypeOK' /\ UNCHANGED <<lsd, supply, rate>>
  BY <1>2, AllowanceStep
<1>3. ASSUME NEW v \in Accounts, NEW n \in Amounts, NEW o \in Accounts,
             TransferFrom(u, o, v, n) \/ SendFrom(u, o, v, n)
      PROVE  TokenTypeOK' /\ UNCHANGED <<lsd, supply, rate>>
  <2>1. TransferFrom(u, o, v, n)
    BY <1>3 DEF SendFrom
  <2>2. bal' \in [Accounts -> Nat]
    BY <2>1, TransferStep DEF TransferFrom
  <2>3. allowance' \in [Accounts -> [Accounts -> Allowances]]
    BY <1>0, <2>1, SpendType DEF TransferFrom
  <2> QED BY <2>1, <2>2, <2>3 DEF TransferFrom, TokenTypeOK
<1> QED
  BY <1>1, <1>2, <1>3 DEF Cw20Step

(* LSD change hands outside the wrapper, or are quoted at another rate.    *)
LEMMA LsdTransferFacts ==
  ASSUME TokenTypeOK, NEW u \in Users \cup {Hub}, NEW v \in Accounts,
         NEW n \in Amounts, LsdTransfer(u, v, n)
  PROVE  /\ TokenTypeOK' /\ UNCHANGED <<supply, rate>> /\ n \in Nat
         /\ \/ lsd'[Wrapper] = lsd[Wrapper]
            \/ lsd'[Wrapper] = lsd[Wrapper] + n
<1>1. /\ u \in Accounts /\ u # Wrapper /\ Wrapper \in Accounts /\ n \in Nat
      /\ lsd \in [Accounts -> Nat] /\ n <= lsd[u]
  BY UsersAreAccounts, AmountAssumption DEF TokenTypeOK, LsdTransfer
<1>2. /\ Move(lsd, u, v, n) \in [Accounts -> Nat]
      /\ v = Wrapper => Move(lsd, u, v, n)[Wrapper] = lsd[Wrapper] + n
      /\ v # Wrapper => Move(lsd, u, v, n)[Wrapper] = lsd[Wrapper]
  BY <1>1, MoveFacts
<1> QED
  BY <1>1, <1>2 DEF TokenTypeOK, LsdTransfer

LEMMA RateChangeFacts ==
  ASSUME TokenTypeOK, LsdRateChange
  PROVE  TokenTypeOK' /\ UNCHANGED <<lsd, supply>> /\ rate' \in Nat
BY AmountAssumption DEF TokenTypeOK, LsdRateChange

-----------------------------------------------------------------------------
(* The supply is the sum of the balances.                                  *)
Balanced == supply = SumFunction(bal)

LEMMA AccountsFinite == IsFiniteSet(Accounts)
<1>1. IsFiniteSet(Users)
  BY ActorAssumption
<1>2. IsFiniteSet({Wrapper}) /\ IsFiniteSet({Hub})
  BY FS_Singleton
<1>3. IsFiniteSet(Users \cup {Wrapper})
  BY <1>1, <1>2, FS_Union
<1>4. IsFiniteSet((Users \cup {Wrapper}) \cup {Hub})
  BY <1>2, <1>3, FS_Union
<1>5. (Users \cup {Wrapper}) \cup {Hub} = Accounts
  BY DEF Accounts
<1> QED
  BY <1>4, <1>5

(* One account holds what instantiate grants, and nobody anything else.    *)
LEMMA InitBalanced == TokenInit => Balanced
<1> SUFFICES ASSUME TokenInit PROVE Balanced
  OBVIOUS
<1>1. PICK u \in Users, n \in InitialGrants :
        /\ bal = [a \in Accounts |-> IF a = u THEN n ELSE 0]
        /\ supply = n
  BY DEF TokenInit
<1>2. u \in Accounts /\ n \in Nat
  BY UsersAreAccounts, AmountAssumption
<1>3. SumFunction(bal) = n
  BY <1>1, <1>2, AccountsFinite, SumSingle
<1> QED
  BY <1>1, <1>3 DEF Balanced

LEMMA IssueBalanced ==
  ASSUME TokenTypeOK, Balanced, NEW to \in Accounts, NEW n \in Nat, Issue(to, n)
  PROVE  Balanced'
<1>1. bal \in [Accounts -> Nat] /\ supply \in Nat
  BY DEF TokenTypeOK
<1>2. /\ bal' = [bal EXCEPT ![to] = @ + n]
      /\ supply' = supply + n
  BY DEF Issue
<1>3. bal' \in [Accounts -> Nat] /\ bal'[to] = bal[to] + n /\ bal[to] \in Nat
  BY <1>1, <1>2
<1>4. \A x \in Accounts : x # to => bal'[x] = bal[x]
  BY <1>1, <1>2
<1>5. SumFunction(bal') = SumFunction(bal) + (bal'[to] - bal[to])
  BY <1>1, <1>3, <1>4, AccountsFinite, SumChange
<1> QED
  BY <1>1, <1>2, <1>3, <1>5 DEF Balanced

LEMMA DestroyBalanced ==
  ASSUME TokenTypeOK, Balanced, NEW from \in Accounts, NEW n \in Nat,
         Destroy(from, n)
  PROVE  Balanced'
<1>1. bal \in [Accounts -> Nat] /\ supply \in Nat
  BY DEF TokenTypeOK
<1>2. /\ bal' = [bal EXCEPT ![from] = @ - n]
      /\ supply' = supply - n /\ n <= bal[from]
  BY DEF Destroy
<1>3. /\ bal' \in [Accounts -> Nat]
      /\ bal'[from] = bal[from] - n /\ bal[from] \in Nat
  BY <1>1, <1>2
<1>4. \A x \in Accounts : x # from => bal'[x] = bal[x]
  BY <1>1, <1>2
<1>5. SumFunction(bal') = SumFunction(bal) + (bal'[from] - bal[from])
  BY <1>1, <1>3, <1>4, AccountsFinite, SumChange
<1> QED
  BY <1>1, <1>2, <1>3, <1>5 DEF Balanced

(* A transfer, to oneself as well, keeps the sum.                          *)
LEMMA MoveBalanced ==
  ASSUME TokenTypeOK, Balanced, NEW from \in Accounts, NEW to \in Accounts,
         NEW n \in Nat, n <= bal[from],
         bal' = Move(bal, from, to, n), supply' = supply
  PROVE  Balanced'
<1> DEFINE t == [bal EXCEPT ![from] = @ - n]
<1>1. bal \in [Accounts -> Nat]
  BY DEF TokenTypeOK
<1>2. bal' = [t EXCEPT ![to] = @ + n]
  BY DEF Move
<1>3. /\ t \in [Accounts -> Nat]
      /\ bal[from] = t[from] + n
      /\ \A x \in Accounts : x # from => t[x] = bal[x]
  BY <1>1
<1> HIDE DEF t
<1>4. /\ bal' \in [Accounts -> Nat]
      /\ bal'[to] = t[to] + n
      /\ \A x \in Accounts : x # to => bal'[x] = t[x]
  BY <1>2, <1>3
<1>5. SumFunction(bal') = SumFunction(bal)
  BY <1>1, <1>3, <1>4, AccountsFinite, SumMoved
<1> QED
  BY <1>5 DEF Balanced

LEMMA Cw20StepBalanced ==
  ASSUME TokenTypeOK, Balanced, NEW u \in Users, Cw20Step(u)
  PROVE  Balanced'
<1> USE AmountAssumption
<1>1. PICK v \in Accounts, n \in Amounts :
        \/ Transfer(u, v, n) \/ Send(u, v, n)
        \/ \E given \in Expiries \cup {"keep"} :
              IncreaseAllowance(u, v, n, given) \/ DecreaseAllowance(u, v, n, given)
        \/ \E o \in Accounts : TransferFrom(u, o, v, n) \/ SendFrom(u, o, v, n)
  BY DEF Cw20Step
<1>2. u \in Accounts /\ n \in Nat
  BY UsersAreAccounts
<1>3. CASE Transfer(u, v, n) \/ Send(u, v, n)
  <2>1. n <= bal[u] /\ bal' = Move(bal, u, v, n) /\ supply' = supply
    BY <1>3 DEF Transfer, Send
  <2> QED
    BY <1>2, <2>1, MoveBalanced
<1>4. CASE \E given \in Expiries \cup {"keep"} :
             IncreaseAllowance(u, v, n, given) \/ DecreaseAllowance(u, v, n, given)
  BY <1>4 DEF IncreaseAllowance, DecreaseAllowance, Balanced
<1>5. ASSUME NEW o \in Accounts, TransferFrom(u, o, v, n) \/ SendFrom(u, o, v, n)
      PROVE  Balanced'
  <2>1. n <= bal[o] /\ bal' = Move(bal, o, v, n) /\ supply' = supply
    BY <1>5 DEF TransferFrom, SendFrom
  <2> QED
    BY <1>2, <2>1, MoveBalanced
<1> QED
  BY <1>1, <1>3, <1>4, <1>5

LEMMA MintBurnBalanced ==
  ASSUME TokenTypeOK, Balanced, NEW x \in Nat, NEW u \in Users,
         NEW v \in Accounts, NEW n \in Nat,
         \/ MintAt(x, u, v, n) \/ MintWithAt(x, u, v, n)
         \/ BurnAt(x, u, n) \/ BurnFromAt(x, u, v, n)
  PROVE  Balanced'
<1>1. u \in Accounts /\ MintFor(n, x) \in Nat
  BY UsersAreAccounts, MintCovered
<1>2. CASE MintAt(x, u, v, n)
  BY <1>2, IssueBalanced DEF MintAt
<1>3. CASE MintWithAt(x, u, v, n)
  BY <1>1, <1>3, IssueBalanced DEF MintWithAt
<1>4. CASE BurnAt(x, u, n)
  BY <1>1, <1>4, DestroyBalanced DEF BurnAt
<1>5. CASE BurnFromAt(x, u, v, n)
  BY <1>5, DestroyBalanced DEF BurnFromAt
<1> QED
  BY <1>2, <1>3, <1>4, <1>5

LEMMA OutsideBalanced ==
  ASSUME Balanced, OutsideStep
  PROVE  Balanced'
BY DEF Balanced, OutsideStep, LsdRateChange, AllowanceExpires, LsdTransfer
=============================================================================
