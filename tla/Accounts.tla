------------------------------ MODULE Accounts ------------------------------
(***************************************************************************)
(* The merchant accounts an arena takes online payments through, and one   *)
(* payment made at it: resolved at checkout from the accounts that are     *)
(* switched on, settled later through whatever account the arena has then. *)
(* What a settlement does to the booking is module Bookings'.              *)
(***************************************************************************)
EXTENDS Venue

CONSTANT Merchants   \* the accounts held at the gateways, per provider

VARIABLES
    account,    \* what the arena stores for each provider, Null when nothing
    checkout,   \* a checkout that has resolved its gateway, Null when none
    payment,    \* the payment, Null until it is created
    moved       \* history: the account was replaced or removed since checkout

accountVars == <<account, checkout, payment, moved>>
vars == <<venueVars, accountVars>>

Providers == {"esewa", "khalti"}

Init ==
    /\ VenueInit
    /\ account = [p \in Providers |-> Null]
    /\ checkout = Null
    /\ payment = Null
    /\ moved = FALSE

-----------------------------------------------------------------------------
(* postgres.ArenaPaymentAccountRepo. *)

(* The provider of the payment that is under way, if any.                   *)
InUse == IF payment # Null THEN payment.provider
         ELSE IF checkout # Null THEN checkout.provider ELSE Null

StoreAccount(p, row) ==
    /\ account' = [account EXCEPT ![p] = row]
    /\ moved' = (moved \/ (p = InUse /\ (row = Null \/ account[p] = Null \/ row.merchant # account[p].merchant)))
    /\ UNCHANGED <<checkout, payment>>

UpsertOwnerScoped(u, p, m, enabled) ==
    Owns(u) /\ StoreAccount(p, [merchant |-> m, enabled |-> enabled])
DeleteOwnerScoped(u, p) == Owns(u) /\ account[p] # Null /\ StoreAccount(p, Null)

EnabledForBooking == {p \in Providers : account[p] # Null /\ account[p].enabled}
ProvidersForArena == EnabledForBooking

(* Switched off or not: the money has moved either way.                     *)
BugForPayment(p) == IF account[p.provider] # Null /\ account[p.provider].enabled
                    THEN account[p.provider] ELSE Null
ForPayment(p) == account[p.provider]

-----------------------------------------------------------------------------
(* The gateways.  They answer for what was paid to the account that asks;   *)
(* a lookup may also go unanswered.  eSewa says of a transaction it does    *)
(* not know that it is not complete, Khalti refuses the lookup.             *)

AnswerOfEsewa(p, m) == IF p.paid /\ p.merchant = m THEN "verified" ELSE "failed"
AnswerOfKhalti(p, m) ==
    IF p.merchant # m THEN "error" ELSE IF p.paid THEN "verified" ELSE "failed"
Answer(p, m) == IF p.provider = "esewa" THEN AnswerOfEsewa(p, m) ELSE AnswerOfKhalti(p, m)

-----------------------------------------------------------------------------
(* service.OwnerService and service.PaymentService. *)

SetPaymentAccount(u, p, m, enabled) == SignedIn(u) /\ UpsertOwnerScoped(u, p, m, enabled)
RemovePaymentAccount(u, p) == SignedIn(u) /\ DeleteOwnerScoped(u, p)

handleSetPaymentAccount(u) ==
    \E p \in Providers, m \in Merchants, enabled \in BOOLEAN : SetPaymentAccount(u, p, m, enabled)
handleDeletePaymentAccount(u) == \E p \in Providers : RemovePaymentAccount(u, p)

(* The gateway is resolved before a payment exists, then the payment is     *)
(* written, then the gateway is asked for a link with the credentials read. *)
ForCheckout(p) ==
    /\ checkout = Null /\ payment = Null
    /\ p \in EnabledForBooking
    /\ checkout' = [provider |-> p, merchant |-> account[p].merchant]
    /\ UNCHANGED <<account, payment, moved>>

StartPayment ==
    /\ checkout # Null
    /\ payment' = [provider |-> checkout.provider, merchant |-> checkout.merchant,
                   paid |-> FALSE, status |-> "initiated"]
    /\ checkout' = Null
    /\ UNCHANGED <<account, moved>>

handleCreateCheckout == (\E p \in Providers : ForCheckout(p)) \/ StartPayment

(* The player pays at the gateway.                                          *)
Pay ==
    /\ payment # Null /\ ~payment.paid
    /\ payment' = [payment EXCEPT !.paid = TRUE]
    /\ UNCHANGED <<account, checkout, moved>>

ForSettlement(p) == ForPayment(p)
Outcome(p) == IF ForSettlement(p) = Null THEN "error" ELSE Answer(p, ForSettlement(p).merchant)

(* A verified payment is final; a failed one is asked about again.          *)
Settle ==
    /\ payment # Null /\ payment.status # "verified"
    /\ Outcome(payment) # "error"
    /\ payment' = [payment EXCEPT !.status = Outcome(payment)]
    /\ UNCHANGED <<account, checkout, moved>>

AccountStep ==
    \/ \E u \in Visitors : handleSetPaymentAccount(u) \/ handleDeletePaymentAccount(u)
    \/ handleCreateCheckout \/ Pay \/ Settle

Next ==
    \/ VenueStep /\ UNCHANGED accountVars
    \/ AccountStep /\ UNCHANGED venueVars

Spec == Init /\ [][Next]_vars

-----------------------------------------------------------------------------
(* Properties. *)

(* Money paid to an account the arena has kept is found when the gateway is *)
(* asked, though the account was switched off in the meantime               *)
(* (postgres/paymentaccount.go:179); and nothing else is ever taken for it. *)
KeptAccountsSettle ==
    payment # Null =>
        /\ payment.paid /\ ~moved => Outcome(payment) = "verified"
        /\ payment.status = "verified" => payment.paid
=============================================================================
