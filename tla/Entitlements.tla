---------------------------- MODULE Entitlements ----------------------------
(***************************************************************************)
(* What a reader gets for the money: the library and rentals modules       *)
(* listening to payment.completed and refund.completed, and the routes     *)
(* that sell, return and remove a book, for one reader and one book.       *)
(*                                                                         *)
(* Payments.tla says when the two events are emitted; a sale here is a     *)
(* payment with its metadata.  An emit does not wait for the listeners,    *)
(* so handlers run concurrently; they live in memory and may be lost.      *)
(*                                                                         *)
(* The library and the rentals are read with db.select, which the router   *)
(* sends to a replica it takes for healthy.  An answer may be an older     *)
(* one, by any amount: a replica counts as healthy until it is probed, and *)
(* the lag is that of the last probe.                                      *)
(***************************************************************************)
EXTENDS Integers, FiniteSets, Sequences

CONSTANTS
    Sales,         \* payments for this reader and this book
    Slots,         \* the handlers in progress at the same time
    MaxExtensions, \* rentals.max_extensions of every rental
    MaxMishaps,    \* how many events may be repeated, handlers cut short or answers old
    None           \* no sale

ASSUME EntitlementsAssumption ==
    /\ MaxExtensions \in Nat
    /\ MaxMishaps \in Nat
    /\ None \notin Sales

VARIABLES
    sale,     \* the payments: what was sold, for which rental, how far it got
    library,  \* every library row ever added: its rental (0: owned), is it still there?
    rentals,  \* the rentals table, oldest first: status, is the end date over, extendedCount
    handler,  \* the handler in each slot: what it does, for what, where it is, what it read
    mishaps,  \* events repeated, handlers cut short and old answers so far
    saw       \* what has happened so far that some properties exclude

vars == <<sale, library, rentals, handler, mishaps, saw>>

Idle == [does |-> "nothing", sale |-> None, rental |-> 0, pc |-> "start", seen |-> 0]

Oddities == {"overlap",   \* two handlers in progress at the same time
             "overtaken", \* a refund handled while a payment is, or the other way round
             "rival",     \* a checkout opened while another was open or a handler in progress
             "removed",   \* the reader took the book off the shelf
             "repeat",    \* an event emitted twice for one payment
             "late",      \* payment.completed emitted again after the refund
             "loss",      \* a handler cut short
             "old",       \* a replica answered with older rows
             "missed"}    \* and the answer named the rental that a refund ends

SaleRow == [kind: {"none", "purchase", "rental", "extension"},
            rental: Nat,
            stage: {"none", "open", "captured", "refunded"},
            got: {"none", "granted", "refused"}]

LibraryRow == [rental: Nat, kept: BOOLEAN]

RentalRow == [status: {"active", "expired", "returned"}, over: BOOLEAN, extended: Nat]

Handler == [does: {"nothing", "grant", "revoke", "shelve", "withdraw", "return"},
            sale: Sales \cup {None},
            rental: Nat,
            pc: {"start", "found", "checked"},
            seen: Nat]

\* The types, and what a row or a handler refers to exists.
TypeOK ==
    /\ sale \in [Sales -> SaleRow]
    /\ library \in Seq(LibraryRow)
    /\ rentals \in Seq(RentalRow)
    /\ handler \in [Slots -> Handler]
    /\ mishaps \in 0..MaxMishaps
    /\ saw \in SUBSET Oddities
    /\ \A i \in DOMAIN library : library[i].rental <= Len(rentals)
    /\ \A k \in Slots :
          /\ handler[k].does \in {"grant", "revoke"} => handler[k].sale \in Sales
          /\ handler[k].does \in {"shelve", "withdraw", "return"} => handler[k].rental \in 1..Len(rentals)

Init ==
    /\ sale = [s \in Sales |-> [kind |-> "none", rental |-> 0, stage |-> "none", got |-> "none"]]
    /\ library = <<>>
    /\ rentals = <<>>
    /\ handler = [k \in Slots |-> Idle]
    /\ mishaps = 0
    /\ saw = {}

OnShelf == {i \in DOMAIN library : library[i].kept}

NewestIsActive == rentals # <<>> /\ rentals[Len(rentals)].status = "active"

(***************************************************************************)
(* Answers.  findByUserAndBook of the library returns any row, there is no *)
(* ORDER BY, or none (0); an older answer may be any row ever added.  That *)
(* of the rentals returns the newest row: the active one or none (0), and  *)
(* each rental was the newest and active once.                             *)
(***************************************************************************)
Reading(old, odd) ==
    /\ old => mishaps < MaxMishaps
    /\ mishaps' = IF old THEN mishaps + 1 ELSE mishaps
    /\ saw' = saw \cup odd \cup (IF old THEN {"old"} ELSE {})

ShelfNow == IF OnShelf = {} THEN {0} ELSE OnShelf
ShelfAnswers == 0..Len(library)
ReadShelf(i, odd) == Reading(i \notin ShelfNow, odd)

RentalNow == IF NewestIsActive THEN Len(rentals) ELSE 0
RentalAnswers == 0..Len(rentals)
ReadRental(r, odd) == Reading(r # RentalNow, odd)

Busy == {k \in Slots : handler[k].does # "nothing"}

\* A column of a row is written, the others are kept.
Ended(rental, status) == [status |-> status, over |-> rental.over, extended |-> rental.extended]
Removed(row) == [rental |-> row.rental, kept |-> FALSE]

-----------------------------------------------------------------------------
(***************************************************************************)
(* Slots.  A handler starts in a free one; it ends, or the listener of the *)
(* event it emits goes on in it.                                           *)
(***************************************************************************)
Overlaps(does) ==
    (IF Busy = {} THEN {} ELSE {"overlap"}) \cup
    (IF \E j \in Busy : {does, handler[j].does} = {"grant", "revoke"} THEN {"overtaken"} ELSE {})

Start(k, does, s, r, pc) ==
    /\ handler[k] = Idle
    /\ handler' = [handler EXCEPT ![k] = [does |-> does, sale |-> s, rental |-> r, pc |-> pc, seen |-> 0]]

End(k) == handler' = [handler EXCEPT ![k] = Idle]

Goto(k, pc, seen) ==
    handler' = [handler EXCEPT ![k] = [does |-> @.does, sale |-> @.sale, rental |-> @.rental,
                                       pc |-> pc, seen |-> seen]]

\* The emit of a rental event: what the library does about it.
Emit(k, does, r) ==
    handler' = [handler EXCEPT ![k] = [does |-> does, sale |-> None, rental |-> r,
                                       pc |-> "start", seen |-> 0]]

At(k, does, kind, pc) ==
    /\ handler[k].does = does
    /\ sale[handler[k].sale].kind = kind
    /\ handler[k].pc = pc

\* History: what the handler of payment.completed gave for the sale; a grant is not forgotten.
Got(s, what) ==
    sale' = [sale EXCEPT ![s] = [kind |-> @.kind, rental |-> @.rental, stage |-> @.stage,
                                 got |-> IF @.got = "granted" THEN "granted" ELSE what]]

Stage(s, stage) ==
    sale' = [sale EXCEPT ![s] = [kind |-> @.kind, rental |-> @.rental, stage |-> stage, got |-> @.got]]

-----------------------------------------------------------------------------
(***************************************************************************)
(* The shop.                                                               *)
(***************************************************************************)

Rivals == Busy \cup {t \in Sales : sale[t].stage = "open"}

\* Mutant: a reader who has the book may buy or rent it.
CheckoutUnchecked(s, kind) ==
    /\ sale[s].stage = "none"
    /\ sale' = [sale EXCEPT ![s] = [kind |-> kind, rental |-> 0, stage |-> "open", got |-> "none"]]
    /\ saw' = saw \cup (IF Rivals = {} THEN {} ELSE {"rival"})
    /\ UNCHANGED <<library, rentals, handler, mishaps>>

\* purchase and rent refuse a reader who has the book on the shelf.
Checkout(s, kind) ==
    /\ sale[s].stage = "none"
    /\ ReadShelf(0, IF Rivals = {} THEN {} ELSE {"rival"})
    /\ sale' = [sale EXCEPT ![s] = [kind |-> kind, rental |-> 0, stage |-> "open", got |-> "none"]]
    /\ UNCHANGED <<library, rentals, handler>>

\* Every rental was active once, with no extension.
extendRental(s, r) ==
    /\ sale[s].stage = "none"
    /\ MaxExtensions > 0
    /\ Reading(rentals[r].status # "active" \/ rentals[r].extended >= MaxExtensions, {})
    /\ sale' = [sale EXCEPT ![s] = [kind |-> "extension", rental |-> r, stage |-> "open", got |-> "none"]]
    /\ UNCHANGED <<library, rentals, handler>>

\* The webhook emits payment.completed.
PaymentCompleted(s, k) ==
    /\ sale[s].stage = "open"
    /\ Start(k, "grant", s, 0, "start")
    /\ saw' = saw \cup Overlaps("grant")
    /\ Stage(s, "captured")
    /\ UNCHANGED <<library, rentals, mishaps>>

\* The refund has settled: refund.completed.
RefundCompleted(s, k) ==
    /\ sale[s].stage = "captured"
    /\ Start(k, "revoke", s, 0, "start")
    /\ saw' = saw \cup Overlaps("revoke")
    /\ Stage(s, "refunded")
    /\ UNCHANGED <<library, rentals, mishaps>>

(***************************************************************************)
(* A second payment.completed, by an overlapping webhook or an operator,   *)
(* which may come after the refund, or a second refund.completed, by a     *)
(* second partial refund.                                                  *)
(***************************************************************************)
EventRepeated(s, k) ==
    \E does \in {"grant", "revoke"} :
       /\ sale[s].stage \in IF does = "grant" THEN {"captured", "refunded"} ELSE {"refunded"}
       /\ mishaps < MaxMishaps
       /\ mishaps' = mishaps + 1
       /\ Start(k, does, s, 0, "start")
       /\ saw' = saw \cup Overlaps(does) \cup {"repeat"} \cup
                 (IF does = "grant" /\ sale[s].stage = "refunded" THEN {"late"} ELSE {})
       /\ UNCHANGED <<sale, library, rentals>>

\* returnRental: read and check, then write.
ReturnCheck(r, k) ==
    /\ Reading(rentals[r].status = "returned", Overlaps("return"))
    /\ Start(k, "return", None, r, "checked")
    /\ UNCHANGED <<sale, library, rentals>>

ReturnRental(k) ==
    /\ handler[k].does = "return"
    /\ rentals' = [rentals EXCEPT ![handler[k].rental] = Ended(@, "returned")]
    /\ Emit(k, "withdraw", handler[k].rental)
    /\ UNCHANGED <<sale, library, mishaps, saw>>

\* removeFromLibrary, asked for by the reader.
RemoveFromLibrary(i) ==
    /\ i \in OnShelf
    /\ library' = [library EXCEPT ![i] = Removed(@)]
    /\ saw' = saw \cup {"removed"}
    /\ UNCHANGED <<sale, rentals, handler, mishaps>>

\* The end date passes.  Nothing else happens: checkAndExpireOverdue has no caller.
RentalLapses(r) ==
    /\ rentals[r].status = "active"
    /\ ~ rentals[r].over
    /\ rentals' = [rentals EXCEPT ![r] =
          [status |-> @.status, over |-> TRUE, extended |-> @.extended]]
    /\ UNCHANGED <<sale, library, handler, mishaps, saw>>

-----------------------------------------------------------------------------
(***************************************************************************)
(* payment.completed: look for what the reader has, then grant.            *)
(***************************************************************************)
PurchaseCheck(k) ==
    /\ At(k, "grant", "purchase", "start")
    /\ \E i \in ShelfAnswers :
          /\ ReadShelf(i, {})
          /\ IF i = 0
             THEN Goto(k, "checked", 0) /\ UNCHANGED sale
             ELSE End(k) /\ Got(handler[k].sale, "refused")
    /\ UNCHANGED <<library, rentals>>

\* Mutant: the library grants ownership for every type of payment.
GrantOwnershipForAnyType(k) ==
    /\ handler[k].does = "grant" /\ handler[k].pc = "checked"
    /\ library' = Append(library, [rental |-> 0, kept |-> TRUE])
    /\ Got(handler[k].sale, "granted")
    /\ End(k)
    /\ UNCHANGED <<rentals, mishaps, saw>>

PurchaseGrant(k) ==
    /\ At(k, "grant", "purchase", "checked")
    /\ library' = Append(library, [rental |-> 0, kept |-> TRUE])
    /\ Got(handler[k].sale, "granted")
    /\ End(k)
    /\ UNCHANGED <<rentals, mishaps, saw>>

RentalCheck(k) ==
    /\ At(k, "grant", "rental", "start")
    /\ \E r \in RentalAnswers :
          /\ ReadRental(r, {})
          /\ IF r = 0
             THEN Goto(k, "checked", 0) /\ UNCHANGED sale
             ELSE End(k) /\ Got(handler[k].sale, "refused")
    /\ UNCHANGED <<library, rentals>>

\* Mutant: the rental that was looked up is announced, not the one that was created.
RentalGrantAnnouncesOther(k) ==
    /\ At(k, "grant", "rental", "checked")
    /\ rentals' = Append(rentals, [status |-> "active", over |-> FALSE, extended |-> 0])
    /\ Got(handler[k].sale, "granted")
    /\ Emit(k, "shelve", Len(rentals))
    /\ UNCHANGED <<library, mishaps, saw>>

RentalGrant(k) ==
    /\ At(k, "grant", "rental", "checked")
    /\ rentals' = Append(rentals, [status |-> "active", over |-> FALSE, extended |-> 0])
    /\ Got(handler[k].sale, "granted")
    /\ Emit(k, "shelve", Len(rentals) + 1)
    /\ UNCHANGED <<library, mishaps, saw>>

\* Mutant: the extension handler trusts the cap that extendRental checked.
ExtensionUnchecked(k) ==
    /\ At(k, "grant", "extension", "start")
    /\ Goto(k, "checked", rentals[sale[handler[k].sale].rental].extended)
    /\ UNCHANGED <<sale, library, rentals, mishaps, saw>>

(***************************************************************************)
(* applyExtension reads the rental; it looks at the cap, not at the        *)
(* status.  An older count may be lower, or higher when an update was      *)
(* lost; an answer without the row ends like one at the cap.               *)
(***************************************************************************)
ExtensionCheck(k) ==
    /\ At(k, "grant", "extension", "start")
    /\ \E extended \in 0..MaxExtensions :
          /\ Reading(extended # rentals[sale[handler[k].sale].rental].extended, {})
          /\ IF extended < MaxExtensions
             THEN Goto(k, "checked", extended) /\ UNCHANGED sale
             ELSE End(k) /\ Got(handler[k].sale, "refused")
    /\ UNCHANGED <<library, rentals>>

\* The new end date may still lie in the past.
ExtensionGrant(k) ==
    /\ At(k, "grant", "extension", "checked")
    /\ \E over \in BOOLEAN :
          /\ over => rentals[sale[handler[k].sale].rental].over
          /\ rentals' = [rentals EXCEPT ![sale[handler[k].sale].rental] =
                [status |-> @.status, over |-> over, extended |-> handler[k].seen + 1]]
    /\ Got(handler[k].sale, "granted")
    /\ End(k)
    /\ UNCHANGED <<library, mishaps, saw>>

-----------------------------------------------------------------------------
(***************************************************************************)
(* refund.completed.                                                       *)
(***************************************************************************)

\* Mutant: the oldest rental is found, as a query without ORDER BY does.
RentalRevokeOldest(k) ==
    /\ At(k, "revoke", "rental", "start")
    /\ IF rentals # <<>> /\ rentals[1].status = "active" THEN Goto(k, "checked", 1) ELSE End(k)
    /\ UNCHANGED <<sale, library, rentals, mishaps, saw>>

\* The newest rental is expired, whichever payment it came from.
RentalRevokeCheck(k) ==
    /\ At(k, "revoke", "rental", "start")
    /\ \E r \in RentalAnswers :
          /\ ReadRental(r, IF r = RentalNow THEN {} ELSE {"missed"})
          /\ IF r = 0 THEN End(k) ELSE Goto(k, "checked", r)
    /\ UNCHANGED <<sale, library, rentals>>

RentalRevoke(k) ==
    /\ At(k, "revoke", "rental", "checked")
    /\ rentals' = [rentals EXCEPT ![handler[k].seen] = Ended(@, "expired")]
    /\ Emit(k, "withdraw", handler[k].seen)
    /\ UNCHANGED <<sale, library, mishaps, saw>>

\* An extension is not taken back.
ExtensionRevoke(k) ==
    /\ At(k, "revoke", "extension", "start")
    /\ End(k)
    /\ UNCHANGED <<sale, library, rentals, mishaps, saw>>

(***************************************************************************)
(* removeBookForRefund, for the refund of a purchase and for a rental that *)
(* ended: look a row up by reader and book, then by id, then delete it.    *)
(* When the second look-up misses the row, nothing is removed, as when the *)
(* first one does.                                                         *)
(***************************************************************************)
Removing(k) ==
    \/ handler[k].does = "revoke" /\ sale[handler[k].sale].kind = "purchase"
    \/ handler[k].does = "withdraw"

RemovalFind(k) ==
    /\ Removing(k)
    /\ handler[k].pc = IF handler[k].does = "revoke" THEN "start" ELSE "found"
    /\ \E i \in ShelfAnswers :
          /\ ReadShelf(i, {})
          /\ IF i = 0 THEN End(k) ELSE Goto(k, "checked", i)
    /\ UNCHANGED <<sale, library, rentals>>

\* Mutant: the removal of a purchase is announced but the row stays.
RemovalForgotten(k) ==
    /\ Removing(k)
    /\ handler[k].pc = "checked"
    /\ End(k)
    /\ UNCHANGED <<sale, library, rentals, mishaps, saw>>

Removal(k) ==
    /\ Removing(k)
    /\ handler[k].pc = "checked"
    /\ library' = [library EXCEPT ![handler[k].seen] = Removed(@)]
    /\ End(k)
    /\ UNCHANGED <<sale, rentals, mishaps, saw>>

-----------------------------------------------------------------------------
(***************************************************************************)
(* rental.created, and rental.returned or rental.expired.                  *)
(***************************************************************************)
ShelveCheck(k) ==
    /\ handler[k].does = "shelve" /\ handler[k].pc = "start"
    /\ \E i \in ShelfAnswers :
          /\ ReadShelf(i, {})
          /\ IF i = 0 THEN Goto(k, "checked", 0) ELSE End(k)
    /\ UNCHANGED <<sale, library, rentals>>

Shelve(k) ==
    /\ handler[k].does = "shelve" /\ handler[k].pc = "checked"
    /\ library' = Append(library, [rental |-> handler[k].rental, kept |-> TRUE])
    /\ End(k)
    /\ UNCHANGED <<sale, rentals, mishaps, saw>>

\* findByRentalId.
ShelvedFor(r) == {i \in DOMAIN library : library[i].rental = r}

WithdrawCheck(k) ==
    /\ handler[k].does = "withdraw" /\ handler[k].pc = "start"
    /\ \E found \in BOOLEAN :
          /\ found => ShelvedFor(handler[k].rental) # {}
          /\ Reading(found # (ShelvedFor(handler[k].rental) \cap OnShelf # {}), {})
          /\ IF found THEN Goto(k, "found", 0) ELSE End(k)
    /\ UNCHANGED <<sale, library, rentals>>

-----------------------------------------------------------------------------
\* The process stops, or an await of the handler rejects; the event is gone.
Lost(k) ==
    /\ handler[k] # Idle
    /\ mishaps < MaxMishaps
    /\ mishaps' = mishaps + 1
    /\ saw' = saw \cup {"loss"}
    /\ End(k)
    /\ UNCHANGED <<sale, library, rentals>>

Shop ==
    \/ \E s \in Sales, kind \in {"purchase", "rental"} : Checkout(s, kind)
    \/ \E s \in Sales, r \in DOMAIN rentals : extendRental(s, r)
    \/ \E s \in Sales, k \in Slots : PaymentCompleted(s, k) \/ RefundCompleted(s, k) \/ EventRepeated(s, k)
    \/ \E i \in DOMAIN library : RemoveFromLibrary(i)
    \/ \E r \in DOMAIN rentals : RentalLapses(r) \/ \E k \in Slots : ReturnCheck(r, k)

Handle(k) ==
    \/ PurchaseCheck(k) \/ PurchaseGrant(k)
    \/ RentalCheck(k) \/ RentalGrant(k)
    \/ ExtensionCheck(k) \/ ExtensionGrant(k)
    \/ RentalRevokeCheck(k) \/ RentalRevoke(k)
    \/ ExtensionRevoke(k)
    \/ RemovalFind(k) \/ Removal(k)
    \/ ShelveCheck(k) \/ Shelve(k)
    \/ WithdrawCheck(k)
    \/ ReturnRental(k)
    \/ Lost(k)

Next == Shop \/ \E k \in Slots : Handle(k)

Spec == Init /\ [][Next]_vars

-----------------------------------------------------------------------------
Paid(s) == sale[s].stage \in {"captured", "refunded"}

\* assertReadAccess may let the reader have the file.
MayRead ==
    \/ \E i \in OnShelf : library[i].rental = 0
    \/ NewestIsActive /\ ~ rentals[Len(rentals)].over

(***************************************************************************)
(* A book is owned only if a purchase of it was paid for: rentals and      *)
(* extensions, whatever is granted, returned, lost or repeated meanwhile,  *)
(* never turn into ownership, however old the rows are that the checks     *)
(* read (handlePaymentCompleted's filter on the type, and addToLibrary's   *)
(* choice of the status).                                                  *)
(***************************************************************************)
OwnershipWasPaid ==
    \A i \in DOMAIN library : library[i].rental = 0 => \E s \in Sales : sale[s].kind = "purchase" /\ Paid(s)

(***************************************************************************)
(* No rental is extended past its cap, however many checkouts were opened  *)
(* below the cap and paid at the same time and however old the counts are  *)
(* that are read (extendRental checks before the payment, applyExtension   *)
(* again after it).                                                        *)
(***************************************************************************)
ExtensionsWithinCap == \A r \in DOMAIN rentals : rentals[r].extended <= MaxExtensions

(***************************************************************************)
(* When every rental payment was refunded and nothing is in progress, no   *)
(* rental gives access, even if payments were handled concurrently or      *)
(* repeated and if every other check was answered by a lagging replica     *)
(* (handleRefundCompleted of the rentals).  Excluded are a payment handled *)
(* at the same time as a refund or after its own, a handler cut short, and *)
(* a refund whose look-up of the rental was answered with older rows: each *)
(* of these does leave a refunded reader the rental.                       *)
(***************************************************************************)
RefundedRentalsEnd ==
    /\ Busy = {}
    /\ saw \cap {"overtaken", "late", "loss", "missed"} = {}
    /\ \A s \in Sales : sale[s].kind = "rental" /\ Paid(s) => sale[s].stage = "refunded"
    => ~ NewestIsActive

(***************************************************************************)
(* When every sale was refunded, the handlers ran one after the other and  *)
(* every look-up was answered with the latest rows, the reader has lost    *)
(* the book: each refund takes back what its payment granted, whatever was *)
(* bought, rented, extended, returned, removed and bought again in between *)
(* (both handleRefundCompleted).                                           *)
(***************************************************************************)
RefundedReaderHasNothing ==
    /\ Busy = {}
    /\ saw \cap {"overlap", "repeat", "loss", "old"} = {}
    /\ \A s \in Sales : sale[s].kind # "extension" /\ Paid(s) => sale[s].stage = "refunded"
    => ~ MayRead

(***************************************************************************)
(* Who pays for one book at a time gets it: if no checkout was opened      *)
(* while another was open or being handled, nothing was lost, the reader   *)
(* did not remove the book and no replica lagged behind a look-up, no      *)
(* purchase or rental was paid for nothing (the checks of purchase and     *)
(* rent before the checkout agree with those of the handlers after the     *)
(* payment).                                                               *)
(***************************************************************************)
NothingPaidInVain ==
    saw \cap {"rival", "removed", "repeat", "loss", "old"} = {} =>
        \A s \in Sales : sale[s].kind # "extension" => sale[s].got # "refused"
=============================================================================
