--------------------------- MODULE AccountsProofs ---------------------------
(***************************************************************************)
(* What a venue and its merchant accounts keep, for any courts, rate cards *)
(* and merchants, whatever the owner does meanwhile.  A payment made to an *)
(* account the arena has kept is found at the gateway.  What the grids     *)
(* show of the hours is what the booking service would answer, and the     *)
(* price they show is the price that is charged.                           *)
(***************************************************************************)
EXTENDS Accounts, SequenceTheorems, WellFoundedInduction, TLAPS

(* Until the account is replaced or removed, the arena still has the one    *)
(* the player was sent to.                                                  *)
SentTo(c) ==
    /\ c.provider \in Providers
    /\ ~moved => account[c.provider] # Null /\ account[c.provider].merchant = c.merchant

IInv ==
    /\ account = [p \in Providers |-> account[p]]
    /\ checkout # Null => SentTo(checkout)
    /\ payment # Null => /\ checkout = Null
                         /\ SentTo(payment)
                         /\ payment.status = "verified" => payment.paid

LEMMA InitIInv == Init => IInv
  BY Zenon DEF Init, IInv

(* Storing another row, or none, where the player was sent is remembered.   *)
LEMMA StoreStep ==
    ASSUME IInv, NEW p \in Providers, NEW row, StoreAccount(p, row)
    PROVE  IInv'
<1>1. account' = [account EXCEPT ![p] = row] /\ UNCHANGED <<checkout, payment>>
    BY DEF StoreAccount
<1>2. \A q \in Providers : account'[q] = IF q = p THEN row ELSE account[q]
    BY <1>1 DEF IInv
<1>3. account' = [q \in Providers |-> account'[q]]
    BY <1>1 DEF IInv
<1>4. ASSUME NEW c, c.provider = InUse, SentTo(c) PROVE SentTo(c)'
  <2>1. CASE moved'
      BY <1>4, <2>1 DEF SentTo
  <2>2. CASE ~moved'
    <3>1. ~moved /\ ~(p = InUse /\ (row = Null \/ account[p] = Null \/ row.merchant # account[p].merchant))
        BY <2>2 DEF StoreAccount
    <3> QED
        BY <1>2, <1>4, <3>1 DEF SentTo
  <2> QED
      BY <2>1, <2>2
<1>5. payment # Null => payment.provider = InUse
    BY DEF InUse
<1>6. checkout # Null => payment = Null /\ checkout.provider = InUse
    BY DEF IInv, InUse
<1> QED
    BY <1>1, <1>3, <1>4, <1>5, <1>6 DEF IInv, SentTo

LEMMA IInvStep == IInv /\ [Next]_vars => IInv'
<1> SUFFICES ASSUME IInv, [Next]_vars PROVE IInv'
    OBVIOUS
<1>1. CASE UNCHANGED accountVars
    BY <1>1 DEF accountVars, IInv, SentTo
<1>2. ASSUME NEW u \in Visitors, handleSetPaymentAccount(u) \/ handleDeletePaymentAccount(u) PROVE IInv'
    BY <1>2, StoreStep
    DEF handleSetPaymentAccount, handleDeletePaymentAccount, SetPaymentAccount, RemovePaymentAccount,
        UpsertOwnerScoped, DeleteOwnerScoped
<1>3. ASSUME NEW p \in Providers, ForCheckout(p) PROVE IInv'
    BY <1>3 DEF ForCheckout, EnabledForBooking, IInv, SentTo
<1>4. CASE StartPayment
    BY <1>4 DEF StartPayment, IInv, SentTo
<1>5. CASE Pay
  <2>1. payment # Null /\ payment' = [payment EXCEPT !.paid = TRUE] /\ UNCHANGED <<account, checkout, moved>>
      BY <1>5 DEF Pay
  <2> QED
      BY <2>1 DEF IInv, SentTo
<1>6. CASE Settle
    BY <1>6 DEF Settle, IInv, SentTo, Outcome, Answer, AnswerOfEsewa, AnswerOfKhalti
<1> QED
    BY <1>1, <1>2, <1>3, <1>4, <1>5, <1>6
    DEF Next, AccountStep, handleCreateCheckout, vars, accountVars

(* Money paid to an account the arena has kept, switched off or not, is     *)
(* found when the gateway is asked, and nothing else is ever taken for it.  *)
THEOREM AccountsSettle == Spec => []KeptAccountsSettle
<1>1. IInv => KeptAccountsSettle
    BY DEF IInv, SentTo, KeptAccountsSettle, Outcome, ForSettlement, ForPayment, Answer,
           AnswerOfEsewa, AnswerOfKhalti, Providers
<1> QED
    BY <1>1, InitIInv, IInvStep, PTL DEF Spec
-----------------------------------------------------------------------------
(* Arithmetic. *)

(* A day and a time of day are what division by the length of the day says. *)
LEMMA DivisionIsUnique ==
    ASSUME NEW d \in Int, NEW q \in Int, NEW r \in 0 .. d - 1
    PROVE  (q * d + r) \div d = q /\ (q * d + r) % d = r
<1> DEFINE x == q * d + r
           k == x \div d
           m == x % d
<1>1. d \in Nat \ {0}
    OBVIOUS
<1>2. q * d \in Int
    OBVIOUS
<1>3. x \in Int
    BY <1>2
<1>4. k \in Int /\ m \in 0 .. d - 1 /\ x = d * k + m
    BY <1>1, <1>3
<1> HIDE DEF k, m
<1>5. CASE k <= q - 1
  <2>1. d * k <= d * (q - 1)
      BY <1>1, <1>4, <1>5
  <2> QED
      BY <1>2, <1>4, <2>1
<1>6. CASE k >= q + 1
  <2>1. d * k >= d * (q + 1)
      BY <1>1, <1>4, <1>6
  <2> QED
      BY <1>2, <1>4, <2>1
<1>7. k = q
    BY <1>4, <1>5, <1>6
<1>8. m = r
    BY <1>2, <1>4, <1>7
<1> QED
    BY <1>7, <1>8 DEF k, m

(* Induction over a card is by the least prefix that goes wrong.            *)
LEMMA LeastNat == ASSUME NEW S \in SUBSET Nat, S # {} PROVE \E n \in S : \A m \in S : n <= m
<1>1. IsWellFoundedOn(OpToRel(<,Nat), Nat)
    BY NatLessThanWellFounded
<1>2. PICK n \in S : \A y \in S : <<y, n>> \notin OpToRel(<,Nat)
    BY <1>1, WFMin
<1>3. \A y \in S : ~(y < n)
    BY <1>2 DEF OpToRel
<1> QED BY <1>3

-----------------------------------------------------------------------------
(* Rates.  The loop over a card keeps a best rule for each prefix of it.    *)
Better(r, t, old) == IF Covers(r, t) /\ (old = Null \/ beats(r, old)) THEN r ELSE old
BestSoFar(best, card, t, n) ==
    best = [i \in 0 .. n |-> IF i = 0 THEN Null ELSE Better(card[i], t, best[i - 1])]

(* There is such a function: the loop comes to an end.                      *)
LEMMA LoopIsDefined ==
    ASSUME NEW card, NEW t, NEW n \in Nat
    PROVE  \E best : BestSoFar(best, card, t, n)
<1> DEFINE Undefined == {k \in Nat : ~\E best : BestSoFar(best, card, t, k)}
<1>1. SUFFICES ASSUME Undefined # {} PROVE FALSE
    OBVIOUS
<1>2. PICK k \in Undefined : \A m \in Undefined : k <= m
    BY <1>1, LeastNat
<1>3. CASE k = 0
  <2> DEFINE f == [i \in 0 .. 0 |-> Null]
  <2>1. BestSoFar(f, card, t, 0)
      BY DEF BestSoFar
  <2> QED
      BY <1>2, <1>3, <2>1
<1>4. CASE k # 0
  <2>1. k - 1 \in Nat /\ k - 1 \notin Undefined
      BY <1>2, <1>4
  <2>2. PICK f : BestSoFar(f, card, t, k - 1)
      BY <2>1
  <2> DEFINE g == [i \in 0 .. k |-> IF i = k THEN Better(card[k], t, f[k - 1]) ELSE f[i]]
  <2>3. ASSUME NEW i \in 0 .. k
        PROVE  g[i] = IF i = 0 THEN Null ELSE Better(card[i], t, g[i - 1])
    <3>1. CASE i = k
        BY <1>4, <2>1, <3>1
    <3>2. CASE i # k
      <4>1. i \in 0 .. k - 1
          BY <3>2
      <4>2. f[i] = IF i = 0 THEN Null ELSE Better(card[i], t, f[i - 1])
          BY <2>2, <4>1 DEF BestSoFar
      <4>3. g[i] = f[i] /\ (i # 0 => g[i - 1] = f[i - 1])
          BY <3>2, <4>1
      <4> QED
          BY <4>2, <4>3
    <3> QED
        BY <3>1, <3>2
  <2>4. BestSoFar(g, card, t, k)
      BY <2>3 DEF BestSoFar
  <2> QED
      BY <1>2, <2>4
<1> QED
    BY <1>3, <1>4

LEMMA PickRuleIsTheLoop ==
    ASSUME NEW card, NEW t, Len(card) \in Nat
    PROVE  \E best : BestSoFar(best, card, t, Len(card)) /\ pickRule(card, t) = best[Len(card)]
<1> DEFINE the == CHOOSE best : BestSoFar(best, card, t, Len(card))
<1>1. BestSoFar(the, card, t, Len(card))
    BY LoopIsDefined
<1>2. pickRule(card, t) = the[Len(card)]
    BY DEF pickRule, BestSoFar, Better
<1> QED
    BY <1>1, <1>2
(* The rule picked is one that covers the instant and that no rule covering *)
(* it beats; there is none only when no rule covers it.                     *)
Wins(w, card, t, n) ==
    \/ w = Null /\ \A i \in 1 .. n : ~Covers(card[i], t)
    \/ /\ \E i \in 1 .. n : w = card[i]
       /\ Covers(w, t)
       /\ \A j \in 1 .. n : Covers(card[j], t) => ~beats(card[j], w)

(* Two rules that do not beat each other ask the same price.                *)
LEMMA BeatsIsAWeakOrder ==
    ASSUME NEW q \in RateRule, NEW r \in RateRule, NEW s \in RateRule
    PROVE  /\ ~beats(r, r)
           /\ beats(r, s) /\ ~beats(q, s) => ~beats(q, r)
           /\ ~beats(r, s) /\ ~beats(s, r) => r.price = s.price
  BY DEF RateRule, beats, span

LEMMA PickedRuleWins ==
    ASSUME NEW card \in Seq(RateRule), NEW t
    PROVE  Wins(pickRule(card, t), card, t, Len(card))
<1>1. /\ Len(card) \in Nat
      /\ \A i \in 1 .. Len(card) : card[i] \in RateRule
    BY LenProperties
<1>2. PICK best : /\ BestSoFar(best, card, t, Len(card))
                  /\ pickRule(card, t) = best[Len(card)]
    BY <1>1, PickRuleIsTheLoop
<1>3. \A n \in 0 .. Len(card) : best[n] = IF n = 0 THEN Null ELSE Better(card[n], t, best[n - 1])
    BY <1>1, <1>2 DEF BestSoFar
<1> DEFINE Wrong == {n \in 0 .. Len(card) : ~Wins(best[n], card, t, n)}
<1>4. SUFFICES ASSUME Wrong # {} PROVE FALSE
    BY <1>1, <1>2
<1>5. PICK n \in Wrong : \A m \in Wrong : n <= m
  <2>1. Wrong \in SUBSET Nat
      BY <1>1
  <2> QED
      BY <1>4, <2>1, LeastNat
<1>6. CASE n = 0
    BY <1>1, <1>3, <1>5, <1>6 DEF Wins
<1>7. CASE n # 0
  <2>1. n \in 1 .. Len(card) /\ n - 1 \in 0 .. Len(card) /\ 1 .. n = (1 .. n - 1) \cup {n}
      BY <1>1, <1>5, <1>7
  <2>2. Wins(best[n - 1], card, t, n - 1)
      BY <1>5, <2>1
  <2>3. best[n] = Better(card[n], t, best[n - 1])
      BY <1>3, <2>1
  <2>4. CASE ~Covers(card[n], t)
    <3>1. best[n] = best[n - 1]
        BY <2>3, <2>4 DEF Better
    <3> QED
        BY <1>5, <2>1, <2>2, <2>4, <3>1 DEF Wins
  <2>5. CASE Covers(card[n], t) /\ best[n - 1] = Null
    <3>1. best[n] = card[n]
        BY <2>3, <2>5 DEF Better
    <3>2. \A i \in 1 .. n - 1 : ~Covers(card[i], t)
        BY <1>1, <2>1, <2>2, <2>5, NullIsNoRule DEF Wins
    <3>3. ~beats(card[n], card[n])
        BY <1>1, <2>1, BeatsIsAWeakOrder
    <3> QED
        BY <1>5, <2>1, <2>5, <3>1, <3>2, <3>3 DEF Wins
  <2>6. CASE Covers(card[n], t) /\ best[n - 1] # Null
    <3>1. PICK i \in 1 .. n - 1 : best[n - 1] = card[i]
        BY <2>2, <2>6 DEF Wins
    <3>2. \A j \in 1 .. n - 1 : Covers(card[j], t) => ~beats(card[j], card[i])
        BY <2>2, <2>6, <3>1 DEF Wins
    <3>3. CASE beats(card[n], card[i])
      <4>1. best[n] = card[n]
          BY <2>3, <2>6, <3>1, <3>3 DEF Better
      <4>2. \A j \in 1 .. n : Covers(card[j], t) => ~beats(card[j], card[n])
          BY <1>1, <2>1, <3>1, <3>2, <3>3, BeatsIsAWeakOrder
      <4> QED
          BY <1>5, <2>1, <2>6, <4>1, <4>2 DEF Wins
    <3>4. CASE ~beats(card[n], card[i])
      <4>1. best[n] = card[i]
          BY <2>3, <2>6, <3>1, <3>4 DEF Better
      <4>2. Covers(card[i], t)
          BY <2>2, <2>6, <3>1 DEF Wins
      <4> QED
          BY <1>5, <2>1, <3>1, <3>2, <3>4, <4>1, <4>2 DEF Wins
    <3> QED
        BY <3>3, <3>4
  <2> QED
      BY <2>4, <2>5, <2>6
<1> QED
    BY <1>6, <1>7

(* The price of a slot depends on the rules of a card, not on their order.  *)
SameRules(card, other) ==
    /\ \A i \in 1 .. Len(card) : \E j \in 1 .. Len(other) : card[i] = other[j]
    /\ \A j \in 1 .. Len(other) : \E i \in 1 .. Len(card) : card[i] = other[j]

LEMMA OrderSetsNoPrice ==
    ASSUME NEW card \in Seq(RateRule), NEW other \in Seq(RateRule), SameRules(card, other),
           NEW base, NEW s
    PROVE  ResolvePrice(base, card, s) = ResolvePrice(base, other, s)
<1> DEFINE v == pickRule(card, s.start)
           w == pickRule(other, s.start)
<1>1. Wins(v, card, s.start, Len(card)) /\ Wins(w, other, s.start, Len(other))
    BY PickedRuleWins
<1>2. /\ \A i \in 1 .. Len(card) : card[i] \in RateRule
      /\ \A i \in 1 .. Len(other) : other[i] \in RateRule
    BY LenProperties
<1> HIDE DEF v, w
<1>3. v = Null <=> w = Null
    BY <1>1, <1>2, NullIsNoRule DEF Wins, SameRules
<1>4. ASSUME v # Null PROVE v.price = w.price
  <2>1. /\ v \in RateRule /\ w \in RateRule
        /\ ~beats(v, w) /\ ~beats(w, v)
      BY <1>1, <1>2, <1>3, <1>4 DEF Wins, SameRules
  <2> QED
      BY <2>1, BeatsIsAWeakOrder
<1> QED
    BY <1>3, <1>4 DEF ResolvePrice, v, w

-----------------------------------------------------------------------------
(* The rows of the venue. *)

(* The three ways a card is written leave rules in it.                      *)
LEMMA CardSteps ==
    ASSUME NEW card \in Seq(RateRule)
    PROVE  /\ \A r \in RateRule : Append(card, r) \in Seq(RateRule)
           /\ \A other \in Seq(RateRule) : card \o other \in Seq(RateRule)
           /\ \A i \in DOMAIN card : RemoveAt(card, i) \in Seq(RateRule)
<1>1. /\ \A r \in RateRule : Append(card, r) \in Seq(RateRule)
      /\ \A other \in Seq(RateRule) : card \o other \in Seq(RateRule)
    BY AppendProperties, ConcatProperties
<1>2. ASSUME NEW i \in DOMAIN card PROVE RemoveAt(card, i) \in Seq(RateRule)
  <2>1. Len(card) \in Nat /\ i \in 1 .. Len(card) /\ \A j \in 1 .. Len(card) : card[j] \in RateRule
      BY <1>2, LenProperties
  <2>2. SubSeq(card, 1, i - 1) \in Seq(RateRule)
      BY <2>1, SubSeqProperties
  <2>3. SubSeq(card, i + 1, Len(card)) \in Seq(RateRule)
      BY <2>1, SubSeqProperties
  <2> QED
      BY <2>2, <2>3, ConcatProperties DEF RemoveAt
<1> QED
    BY <1>1, <1>2

LEMMA StoredRules ==
    ASSUME NEW r \in RateRule
    PROVE  isoDays(r) \in RateRule /\ scanPricingRule(r) \in RateRule
<1>1. /\ \A d \in Int : ISOWeekday(d) \in Int
      /\ \A d \in Int : WeekdayFromISO(d) \in Int
    BY DEF ISOWeekday, WeekdayFromISO
<1> QED
    BY <1>1 DEF RateRule, isoDays, scanPricingRule

(* Two readings of a card differ in the order of its rules only.            *)
LEMMA RowOrdersAreCards ==
    ASSUME NEW rows \in Seq(RateRule), NEW card \in RowOrders(rows), NEW other \in RowOrders(rows)
    PROVE  card \in Seq(RateRule) /\ SameRules(card, other)
<1>1. /\ Len(rows) \in Nat /\ DOMAIN rows = 1 .. Len(rows)
      /\ \A i \in 1 .. Len(rows) : rows[i] \in RateRule
    BY LenProperties
<1>2. PICK p \in Bijection(DOMAIN rows, DOMAIN rows) : card = [i \in DOMAIN rows |-> scanPricingRule(rows[p[i]])]
    BY DEF RowOrders
<1>3. PICK q \in Bijection(DOMAIN rows, DOMAIN rows) : other = [i \in DOMAIN rows |-> scanPricingRule(rows[q[i]])]
    BY DEF RowOrders
<1>4. /\ p \in [DOMAIN rows -> DOMAIN rows] /\ \A v \in DOMAIN rows : \E u \in DOMAIN rows : p[u] = v
      /\ q \in [DOMAIN rows -> DOMAIN rows] /\ \A v \in DOMAIN rows : \E u \in DOMAIN rows : q[u] = v
    BY DEF Bijection, Injection, Surjection, IsInjective
<1>5. card \in Seq(RateRule) /\ Len(card) = Len(rows) /\ Len(other) = Len(rows)
  <2>1. card \in [1 .. Len(rows) -> RateRule] /\ other \in [1 .. Len(rows) -> RateRule]
      BY <1>1, <1>2, <1>3, <1>4, StoredRules
  <2> QED
      BY <1>1, <2>1
<1>6. ASSUME NEW i \in 1 .. Len(rows) PROVE \E j \in 1 .. Len(rows) : card[i] = other[j]
  <2>1. PICK j \in 1 .. Len(rows) : q[j] = p[i]
      BY <1>1, <1>4
  <2> QED
      BY <1>1, <1>2, <1>3, <2>1
<1>7. ASSUME NEW j \in 1 .. Len(rows) PROVE \E i \in 1 .. Len(rows) : card[i] = other[j]
  <2>1. PICK i \in 1 .. Len(rows) : p[i] = q[j]
      BY <1>1, <1>4
  <2> QED
      BY <1>1, <1>2, <1>3, <2>1
<1> QED
    BY <1>5, <1>6, <1>7 DEF SameRules

LEMMA PriceIsANumber ==
    ASSUME NEW card \in Seq(RateRule), NEW base \in Int, NEW s \in [start : Int, end : Int]
    PROVE  ResolvePrice(base, card, s) \in Int
<1>1. \A i \in 1 .. Len(card) : card[i] \in RateRule
    BY LenProperties
<1>2. pickRule(card, s.start) # Null => pickRule(card, s.start).price \in Int
    BY <1>1, PickedRuleWins DEF Wins, RateRule
<1>3. Hours(s) \in Int
    BY SlotsAssumption DEF Hours
<1> QED
    BY <1>2, <1>3 DEF ResolvePrice

LEMMA CourtWritten ==
    ASSUME VenueTypeOK, NEW c \in Courts, NEW row \in CourtRow, WriteCourt(c, row)
    PROVE  VenueTypeOK'
<1>1. row # Null
    BY NullIsNoCourt
<1> QED
    BY <1>1 DEF VenueTypeOK, WriteCourt

LEMMA OwnedCourt ==
    ASSUME VenueTypeOK, NEW u, NEW c \in Courts, OwnsCourt(u, c)
    PROVE  courts[c] \in CourtRow /\ courts[c].rules \in Seq(RateRule)
  BY DEF VenueTypeOK, OwnsCourt, CourtRow

LEMMA OwnerKeepsTypes ==
    ASSUME VenueTypeOK, NEW u \in Visitors, OwnerStep(u)
    PROVE  VenueTypeOK'
<1>1. ASSUME NEW h \in OpeningHours, CreateArena(u, h) \/ UpdateArena(u, h) PROVE VenueTypeOK'
  <2>1. h[1] \in Int /\ h[2] \in Int /\ ArenaIsValid(h)
      BY <1>1, VenueAssumption DEF CreateArena, UpdateArena
  <2>2. CASE CreateArena(u, h)
      BY <2>1, <2>2 DEF CreateArena, CreateArenaRow, VenueTypeOK, ArenaIsValid
  <2>3. CASE UpdateArena(u, h)
      BY <2>1, <2>3 DEF UpdateArena, UpdateArenaOwnerScoped, Owns, VenueTypeOK, ArenaIsValid
  <2> QED
      BY <1>1, <2>2, <2>3
<1>2. ASSUME NEW active \in BOOLEAN, SetArenaActive(u, active) PROVE VenueTypeOK'
    BY <1>2 DEF SetArenaActive, SetArenaActiveOwnerScoped, Owns, VenueTypeOK
<1>3. ASSUME NEW c \in Courts, NEW base \in Bases, CreateCourt(u, c, base) PROVE VenueTypeOK'
  <2>1. [active |-> TRUE, base |-> base, rules |-> <<>>] \in CourtRow
      BY VenueAssumption, EmptySeq DEF CourtRow
  <2> QED
      BY <1>3, <2>1, CourtWritten DEF CreateCourt, CreateCourtOwnerScoped
<1>4. ASSUME NEW c \in Courts, NEW base \in Bases, UpdateCourt(u, c, base) PROVE VenueTypeOK'
  <2>1. OwnsCourt(u, c) /\ WriteCourt(c, [courts[c] EXCEPT !.base = base])
      BY <1>4 DEF UpdateCourt, UpdateCourtOwnerScoped
  <2>2. [courts[c] EXCEPT !.base = base] \in CourtRow
      BY <2>1, OwnedCourt, VenueAssumption DEF CourtRow
  <2> QED
      BY <2>1, <2>2, CourtWritten
<1>5. ASSUME NEW c \in Courts, NEW active \in BOOLEAN, SetCourtActive(u, c, active) PROVE VenueTypeOK'
  <2>1. OwnsCourt(u, c) /\ WriteCourt(c, [courts[c] EXCEPT !.active = active])
      BY <1>5 DEF SetCourtActive, SetCourtActiveOwnerScoped
  <2>2. [courts[c] EXCEPT !.active = active] \in CourtRow
      BY <2>1, OwnedCourt DEF CourtRow
  <2> QED
      BY <2>1, <2>2, CourtWritten
<1>6. ASSUME NEW c \in Courts, OwnsCourt(u, c), NEW rules \in Seq(RateRule),
             WriteCourt(c, [courts[c] EXCEPT !.rules = rules])
      PROVE  VenueTypeOK'
  <2>1. [courts[c] EXCEPT !.rules = rules] \in CourtRow
      BY <1>6, OwnedCourt DEF CourtRow
  <2> QED
      BY <1>6, <2>1, CourtWritten
<1>7. ASSUME NEW c \in Courts, NEW r \in Rules, CreatePricingRule(u, c, r) PROVE VenueTypeOK'
  <2>1. OwnsCourt(u, c) /\ WriteCourt(c, [courts[c] EXCEPT !.rules = Append(@, isoDays(r))])
      BY <1>7 DEF CreatePricingRule, CreatePricingRuleOwnerScoped
  <2>2. Append(courts[c].rules, isoDays(r)) \in Seq(RateRule)
      BY <2>1, OwnedCourt, CardSteps, StoredRules, VenueAssumption
  <2> QED
      BY <1>6, <2>1, <2>2
<1>8. ASSUME NEW from \in Courts, NEW to \in Courts, CopyPricingRules(u, from, to) PROVE VenueTypeOK'
  <2>1. /\ OwnsCourt(u, from) /\ OwnsCourt(u, to)
        /\ WriteCourt(to, [courts[to] EXCEPT !.rules = @ \o courts[from].rules])
      BY <1>8 DEF CopyPricingRules, CopyPricingRulesOwnerScoped
  <2>2. courts[to].rules \o courts[from].rules \in Seq(RateRule)
      BY <2>1, OwnedCourt, CardSteps
  <2> QED
      BY <1>6, <2>1, <2>2
<1>9. ASSUME NEW c \in Courts, NEW i \in 1 .. MaxRules, DeletePricingRule(u, c, i) PROVE VenueTypeOK'
  <2>1. /\ OwnsCourt(u, c) /\ i \in DOMAIN courts[c].rules
        /\ WriteCourt(c, [courts[c] EXCEPT !.rules = RemoveAt(@, i)])
      BY <1>9 DEF DeletePricingRule, DeletePricingRuleOwnerScoped
  <2>2. RemoveAt(courts[c].rules, i) \in Seq(RateRule)
      BY <2>1, OwnedCourt, CardSteps
  <2> QED
      BY <1>6, <2>1, <2>2
<1> QED
    BY <1>1, <1>2, <1>3, <1>4, <1>5, <1>7, <1>8, <1>9
    DEF OwnerStep, handleCreateArena, handleUpdateArena, handleSetArenaActive, handleCreateCourt,
        handleUpdateCourt, handleSetCourtActive, handleCreatePricingRule, handleCopyPricingRules,
        handleDeletePricingRule

LEMMA PlayersKeepTypes ==
    ASSUME VenueTypeOK
    PROVE  /\ \A u \in Visitors : handleCreateBooking(u) => VenueTypeOK'
           /\ LoadRules \/ CreateHold \/ Release \/ Tick => VenueTypeOK'
<1>1. ASSUME NEW u \in Visitors, NEW c \in Courts, NEW s \in AskedSlots, LoadCourt(u, c, s)
      PROVE  VenueTypeOK'
  <2>1. courts[c] \in CourtRow /\ courts[c] # Null
      BY <1>1 DEF VenueTypeOK, LoadCourt, IsBookable
  <2>2. courts[c].base \in Int
      BY <2>1 DEF CourtRow
  <2>3. /\ hold' = [court |-> c, slot |-> s, base |-> courts[c].base, price |-> Null]
        /\ UNCHANGED <<arena, courts, taken, now>>
      BY <1>1 DEF LoadCourt
  <2> QED
      BY <2>1, <2>2, <2>3 DEF VenueTypeOK
<1>2. ASSUME LoadRules PROVE VenueTypeOK'
  <2>1. PICK card \in RowOrders(courts[hold.court].rules) :
            hold' = [hold EXCEPT !.price = ResolvePrice(hold.base, card, hold.slot)]
      BY <1>2 DEF LoadRules
  <2>2. /\ hold \in [court : Courts, slot : AskedSlots, base : Int, price : {Null} \cup Int]
        /\ UNCHANGED <<arena, courts, taken, now>>
      BY <1>2 DEF LoadRules, VenueTypeOK
  <2>3. courts[hold.court] \in CourtRow /\ courts[hold.court] # Null
      BY <1>2, <2>2 DEF LoadRules, VenueTypeOK
  <2>4. card \in Seq(RateRule)
      BY <2>3, RowOrdersAreCards DEF CourtRow
  <2>5. ResolvePrice(hold.base, card, hold.slot) \in Int
      BY <2>2, <2>4, PriceIsANumber, VenueAssumption
  <2> QED
      BY <2>1, <2>2, <2>3, <2>5 DEF VenueTypeOK
<1>3. ASSUME CreateHold PROVE VenueTypeOK'
  <2>1. hold \in [court : Courts, slot : AskedSlots, base : Int, price : {Null} \cup Int]
      BY <1>3 DEF CreateHold, VenueTypeOK
  <2>2. Booking(hold) \in [court : Courts, slot : AskedSlots]
      BY <2>1 DEF Booking
  <2>3. taken' \subseteq taken \cup {Booking(hold)} /\ hold' = Null /\ UNCHANGED <<arena, courts, now>>
      BY <1>3 DEF CreateHold
  <2> QED
      BY <2>2, <2>3 DEF VenueTypeOK
<1>4. ASSUME Release \/ Tick PROVE VenueTypeOK'
    BY <1>4 DEF Release, Tick, VenueTypeOK
<1> QED
    BY <1>1, <1>2, <1>3, <1>4 DEF handleCreateBooking

LEMMA VenueTypes ==
    /\ Init => VenueTypeOK
    /\ VenueTypeOK /\ [Next]_vars => VenueTypeOK'
<1>1. Init => VenueTypeOK
    BY DEF Init, VenueInit, VenueTypeOK
<1>2. VenueTypeOK /\ UNCHANGED venueVars => VenueTypeOK'
    BY DEF VenueTypeOK, venueVars
<1> QED
    BY <1>1, <1>2, OwnerKeepsTypes, PlayersKeepTypes DEF Next, VenueStep, vars

-----------------------------------------------------------------------------
(* What the public pages show. *)

LEMMA ListedCourt ==
    ASSUME VenueTypeOK, NEW c \in LedgerCourts
    PROVE  /\ c \in Courts /\ IsBookable(c) /\ courts[c] \in CourtRow
           /\ courts[c].rules \in Seq(RateRule)
           /\ arena.opens \in Int /\ arena.closes \in Int
           /\ 0 <= arena.opens /\ arena.opens < arena.closes /\ arena.closes <= Day
  BY DEF VenueTypeOK, LedgerCourts, IsBookable, CourtRow

(* Court page and city page show the same grids.                            *)
LEMMA CellShape ==
    ASSUME VenueTypeOK, NEW day \in Dates, NEW c \in LedgerCourts, NEW grid \in GridsOf(day)[c]
    PROVE  \E card \in RowOrders(courts[c].rules) :
               grid = GridOf(c, card, day, BookedRanges(c, GridWindow(day)))
  BY DEF GridsOf, CityLedger, Availability, BookedRangesForCourts

(* The card a cell was priced with has the rules of any other reading.      *)
LEMMA QuotesAgree == VenueTypeOK => QuotedPriceIsCharged
<1> SUFFICES ASSUME VenueTypeOK, NEW day \in Dates, NEW c \in LedgerCourts,
                    NEW grid \in GridsOf(day)[c], NEW cell \in grid,
                    NEW other \in RowOrders(courts[c].rules)
             PROVE  ResolvePrice(courts[c].base, other, cell.slot) = cell.price
    BY DEF QuotedPriceIsCharged
<1>1. PICK card \in RowOrders(courts[c].rules) :
          grid = GridOf(c, card, day, BookedRanges(c, GridWindow(day)))
    BY CellShape
<1>2. cell.price = ResolvePrice(courts[c].base, card, cell.slot)
    BY <1>1 DEF GridOf, BuildGrid
<1>3. card \in Seq(RateRule) /\ other \in Seq(RateRule) /\ SameRules(card, other)
    BY ListedCourt, RowOrdersAreCards
<1> QED
    BY <1>2, <1>3, OrderSetsNoPrice

(* The clock on the wall, so many ticks after a local midnight.             *)
LEMMA TimeOfDay ==
    ASSUME NEW day \in Int, NEW a \in 0 .. Day - 1
    PROVE  /\ Midnight(day) \in Int
           /\ LocalDay(Midnight(day) + a) = day
           /\ DayTimeOf(Midnight(day) + a) = a
<1>1. Day \in Nat /\ Offset \in Nat /\ day * Day \in Int
    BY SlotsAssumption
<1>2. Midnight(day) + a + Offset = day * Day + a
    BY <1>1 DEF Midnight
<1>3. (day * Day + a) \div Day = day /\ (day * Day + a) % Day = a
    BY <1>1, DivisionIsUnique
<1> QED
    BY <1>1, <1>2, <1>3 DEF Midnight, LocalDay, DayTimeOf

LEMMA NextMidnight == ASSUME NEW day \in Int PROVE Midnight(day + 1) = Midnight(day) + Day
<1>1. Day \in Int /\ Offset \in Int
    BY SlotsAssumption
<1>2. (day + 1) * Day = day * Day + Day
    BY <1>1
<1> QED
    BY <1>1, <1>2 DEF Midnight

(* An hour of the day, counted from opening, is within the opening hours    *)
(* exactly when it ends by closing time.                                    *)
LEMMA HourWithinHours ==
    ASSUME NEW day \in Int, NEW a \in 0 .. Day - 1, NEW opens \in 0 .. a, NEW closes \in opens + 1 .. Day
    PROVE  WithinOperatingHours(Slot(Midnight(day) + a, Midnight(day) + a + Hour), opens, closes)
               <=> a + Hour <= closes
<1> DEFINE t == Midnight(day) + a
<1>1. Hour \in Nat \ {0} /\ Day \in Nat \ {0} /\ Hour <= Day
    BY SlotsAssumption
<1>2. Midnight(day) \in Int /\ LocalDay(t) = day /\ DayTimeOf(t) = a
    BY TimeOfDay
<1>3. CASE a + Hour < Day
  <2>1. a + Hour \in 0 .. Day - 1 /\ t + Hour = Midnight(day) + (a + Hour)
      BY <1>1, <1>2, <1>3
  <2>2. LocalDay(t + Hour) = day /\ DayTimeOf(t + Hour) = a + Hour
      BY <2>1, TimeOfDay
  <2> QED
      BY <1>2, <2>2 DEF WithinOperatingHours, Slot
<1>4. CASE a + Hour >= Day
  <2> DEFINE b == a + Hour - Day
  <2>1. b \in 0 .. Day - 1 /\ t + Hour = Midnight(day + 1) + b
      BY <1>1, <1>2, <1>4, NextMidnight
  <2>2. LocalDay(t + Hour) = day + 1 /\ DayTimeOf(t + Hour) = b
      BY <2>1, TimeOfDay
  <2> QED
      BY <1>1, <1>2, <1>4, <2>2 DEF WithinOperatingHours, Slot
<1> QED
    BY <1>1, <1>3, <1>4

LEMMA WithinTheDay ==
    ASSUME NEW day \in Int, NEW a \in Int, LocalDay(Midnight(day) + a) = day
    PROVE  a \in 0 .. Day - 1
<1>1. Day \in Nat \ {0} /\ Offset \in Int /\ day * Day \in Int
    BY SlotsAssumption
<1>2. (day * Day + a) \div Day = day
    BY <1>1 DEF Midnight, LocalDay
<1> DEFINE x == day * Day + a
           m == x % Day
<1>3. x \in Int
    BY <1>1
<1>4. m \in 0 .. Day - 1 /\ x = Day * (x \div Day) + m
    BY <1>1, <1>3
<1> HIDE DEF m
<1>5. x = Day * day + m
    BY <1>2, <1>4
<1>6. a = m
    BY <1>1, <1>4, <1>5
<1> QED
    BY <1>4, <1>6

LEMMA CellTimes ==
    ASSUME VenueTypeOK, NEW c \in LedgerCourts, NEW k \in Nat
    PROVE  arena.opens + k * Hour \in Nat /\ arena.opens <= arena.opens + k * Hour
           /\ arena.opens + (k + 1) * Hour = arena.opens + k * Hour + Hour
<1>1. k * Hour \in Nat /\ (k + 1) * Hour = k * Hour + Hour
    BY SlotsAssumption
<1> QED
    BY <1>1, ListedCourt, SlotsAssumption

(* The bookings of the day's window are all that could block a cell of it.  *)
LEMMA WindowSuffices ==
    ASSUME VenueTypeOK, NEW day \in Dates, NEW c \in LedgerCourts,
           NEW a \in Nat, a + Hour <= Day
    PROVE  LET s == Slot(Midnight(day) + a, Midnight(day) + a + Hour) IN
           overlapsAny(s, BookedRanges(c, GridWindow(day)))
               <=> \E b \in taken : b.court = c /\ Overlaps(b.slot, s)
<1>1. /\ Midnight(day) \in Int /\ Hour \in Nat \ {0} /\ Day \in Nat
      /\ Midnight(day + 1) = Midnight(day) + Day
    BY TimeOfDay, NextMidnight, SlotsAssumption, VenueAssumption
<1>2. \A b \in taken : b.slot.start \in Int /\ b.slot.end \in Int
    BY VenueAssumption DEF VenueTypeOK
<1> QED
    BY <1>1, <1>2 DEF overlapsAny, BookedRanges, GridWindow, Overlaps, Slot

LEMMA FreeCellsBook == VenueTypeOK => FreeCellsCanBeBooked
<1> SUFFICES ASSUME VenueTypeOK, NEW day \in Dates, NEW c \in LedgerCourts,
                    NEW grid \in GridsOf(day)[c], NEW cell \in grid, Available(cell)
             PROVE  WouldBook(c, cell.slot)
    BY DEF FreeCellsCanBeBooked
<1>1. PICK card \in RowOrders(courts[c].rules) :
          grid = GridOf(c, card, day, BookedRanges(c, GridWindow(day)))
    BY CellShape
<1>2. PICK k \in Cells(arena.opens, arena.closes) :
          LET s == Slot(Midnight(day) + arena.opens + k * Hour, Midnight(day) + arena.opens + k * Hour + Hour) IN
          /\ cell.slot = s
          /\ cell.booked = overlapsAny(s, BookedRanges(c, GridWindow(day)))
          /\ cell.past = (s.start < now)
    BY <1>1 DEF GridOf, BuildGrid, Slot
<1> DEFINE a == arena.opens + k * Hour
           s == Slot(Midnight(day) + a, Midnight(day) + a + Hour)
<1>3. /\ k \in Nat /\ arena.opens + (k + 1) * Hour <= arena.closes
      /\ arena.opens \in Nat /\ arena.closes \in arena.opens + 1 .. Day
    BY ListedCourt, SlotsAssumption DEF Cells
<1>4. a \in Nat /\ arena.opens \in 0 .. a /\ a + Hour <= arena.closes
    BY <1>3, CellTimes
<1>5. day \in Int /\ Midnight(day) \in Int /\ Hour \in Nat \ {0} /\ Day \in Nat /\ now \in Int
    BY TimeOfDay, SlotsAssumption, VenueAssumption DEF VenueTypeOK
<1>6. a \in 0 .. Day - 1 /\ a + Hour <= Day
    BY <1>3, <1>4, <1>5
<1>7. cell.slot = s
  <2>1. Midnight(day) + arena.opens + k * Hour = Midnight(day) + a
      BY <1>3, <1>5, SlotsAssumption
  <2> QED
      BY <1>2, <2>1
<1>8. ~overlapsAny(s, BookedRanges(c, GridWindow(day))) /\ ~(s.start < now)
    BY <1>2, <1>7 DEF Available
<1> HIDE DEF a
<1>9. Validate(s)
    BY <1>4, <1>5, SlotsAssumption DEF Validate, Slot
<1>10. ~IsPast(s, now)
    BY <1>4, <1>5, <1>8, SlotsAssumption DEF IsPast, Slot
<1>11. WithinOperatingHours(s, arena.opens, arena.closes)
    BY <1>3, <1>4, <1>5, <1>6, HourWithinHours
<1>12. \A b \in taken : b.court = c => ~Overlaps(b.slot, s)
    BY <1>4, <1>6, <1>8, WindowSuffices
<1> QED
    BY <1>7, <1>9, <1>10, <1>11, <1>12, ListedCourt DEF WouldBook

LEMMA NothingHidden == VenueTypeOK => GridsHideNothing
<1> SUFFICES ASSUME VenueTypeOK, NEW day \in Dates, NEW c \in LedgerCourts,
                    NEW k \in 0 .. Day \div Hour,
                    NEW t, t = Midnight(day) + arena.opens + k * Hour,
                    LocalDay(t) = day, t >= now, WouldBook(c, Slot(t, t + Hour)),
                    NEW grid \in GridsOf(day)[c]
             PROVE  \E cell \in grid : cell.slot = Slot(t, t + Hour) /\ Available(cell)
    BY DEF GridsHideNothing
<1> DEFINE a == arena.opens + k * Hour
           s == Slot(t, t + Hour)
<1>1. PICK card \in RowOrders(courts[c].rules) :
          grid = GridOf(c, card, day, BookedRanges(c, GridWindow(day)))
    BY CellShape
<1>2. /\ day \in Int /\ Midnight(day) \in Int /\ now \in Int
      /\ Hour \in Nat \ {0} /\ Day \in Nat \ {0} /\ k \in Nat
    BY TimeOfDay, SlotsAssumption, VenueAssumption DEF VenueTypeOK
<1>3. /\ arena.opens \in Nat /\ arena.closes \in arena.opens + 1 .. Day
      /\ a \in Nat /\ arena.opens <= a /\ arena.opens + (k + 1) * Hour = a + Hour
  <2>1. arena.opens \in Nat /\ arena.closes \in arena.opens + 1 .. Day
      BY ListedCourt, SlotsAssumption
  <2> QED
      BY <1>2, <2>1, CellTimes
<1>4. t = Midnight(day) + a
    BY <1>2, <1>3
<1> HIDE DEF a
<1>5. a \in 0 .. Day - 1
    BY <1>2, <1>3, <1>4, WithinTheDay
<1>6. a + Hour <= arena.closes
  <2>1. WithinOperatingHours(Slot(Midnight(day) + a, Midnight(day) + a + Hour), arena.opens, arena.closes)
      BY <1>4 DEF WouldBook
  <2>2. arena.opens \in 0 .. a
      BY <1>3
  <2> QED
      BY <1>2, <1>3, <1>5, <2>1, <2>2, HourWithinHours
<1>7. k \in Cells(arena.opens, arena.closes)
    BY <1>2, <1>3, <1>6 DEF Cells
<1>8. ~overlapsAny(s, BookedRanges(c, GridWindow(day)))
    BY <1>2, <1>3, <1>4, <1>6, WindowSuffices DEF WouldBook
<1> DEFINE cell == [slot |-> s, price |-> ResolvePrice(courts[c].base, card, s),
                    booked |-> overlapsAny(s, BookedRanges(c, GridWindow(day))), past |-> t < now]
<1>9. cell \in grid
    BY <1>1, <1>7 DEF GridOf, BuildGrid, Slot
<1>10. cell.slot = s /\ Available(cell)
  <2>1. ~(t < now)
      BY <1>2, <1>3, <1>4
  <2>2. cell.slot = s /\ cell.booked = overlapsAny(s, BookedRanges(c, GridWindow(day))) /\ cell.past = (t < now)
      OBVIOUS
  <2> QED
      BY <1>8, <2>1, <2>2, Zenon DEF Available
<1> QED
    BY <1>9, <1>10

(* Whatever the owner writes in whatever order, a listed arena opens before *)
(* it closes within one day, every card holds rules, and a request that is  *)
(* being served has a court and a number for its price.                     *)
THEOREM VenueIsTyped == Spec => []VenueTypeOK
  BY VenueTypes, PTL DEF Spec

(* A free hour on a grid of the court's page or of the city's books if it   *)
(* is asked for at once: it is long enough, within the opening hours also   *)
(* when it ends at midnight, not past, and clear of every booking.          *)
THEOREM FreeHoursBook == Spec => []FreeCellsCanBeBooked
  BY VenueIsTyped, FreeCellsBook, PTL

(* No whole hour that would book is missing from a grid or shown as taken.  *)
THEOREM EveryHourIsShown == Spec => []GridsHideNothing
  BY VenueIsTyped, NothingHidden, PTL

(* In whatever order two reads meet the rows of a card, they make the same  *)
(* price of an hour: the rule that wins is one no other covering rule beats.*)
THEOREM QuotesAreKept == Spec => []QuotedPriceIsCharged
  BY VenueIsTyped, QuotesAgree, PTL
=============================================================================
