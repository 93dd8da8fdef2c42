------------------------- MODULE EntitlementsProofs -------------------------
(***************************************************************************)
(* Proofs about Entitlements, for every set of sales and of handlers in    *)
(* progress, every cap on extensions and every number of mishaps.          *)
(***************************************************************************)
EXTENDS Entitlements, SequenceTheorems, TLAPS

(***************************************************************************)
(* What a handler may rely on between two of its awaits: its payment stays *)
(* paid and keeps its kind, rows are never deleted from under an index it  *)
(* read, and an extension was below the cap when it was read.              *)
(***************************************************************************)
Backed(k) ==
    /\ handler[k].does \in {"grant", "revoke"} => Paid(handler[k].sale)
    /\ At(k, "grant", "extension", "checked") => handler[k].seen < MaxExtensions
    /\ At(k, "revoke", "rental", "checked") => handler[k].seen \in 1..Len(rentals)
    /\ Removing(k) /\ handler[k].pc = "checked" => handler[k].seen \in 1..Len(library)

ExtendsARental(s) == sale[s].kind = "extension" => sale[s].rental \in 1..Len(rentals)

\* The inductive invariant.
IInv ==
    /\ TypeOK
    /\ \A k \in Slots : Backed(k)
    /\ \A s \in Sales : ExtendsARental(s)
    /\ OwnershipWasPaid
    /\ ExtensionsWithinCap

\* What every step does to the tables.
SalesGrow ==
    /\ sale' \in [Sales -> SaleRow]
    /\ \A s \in Sales : Paid(s) => Paid(s)' /\ sale'[s].kind = sale[s].kind
    /\ \A s \in Sales : sale'[s].kind = "extension" =>
          sale'[s].rental \in 1..Len(rentals)

RentalsGrow ==
    /\ rentals' \in Seq(RentalRow)
    /\ Len(rentals) <= Len(rentals')
    /\ \A r \in 1..Len(rentals') : rentals'[r].extended <= MaxExtensions

LibraryGrows ==
    /\ library' \in Seq(LibraryRow)
    /\ Len(library) <= Len(library')
    /\ \A i \in 1..Len(library') :
          \/ i <= Len(library) /\ library'[i].rental = library[i].rental
          \/ library'[i].rental \in 1..Len(rentals)
          \/ library'[i].rental = 0 /\ \E s \in Sales : sale[s].kind = "purchase" /\ Paid(s)

-----------------------------------------------------------------------------
(***************************************************************************)
(* A paid sale stays paid and stays what it was.                           *)
(***************************************************************************)
LEMMA SalesStep == IInv /\ Next => SalesGrow
<1> SUFFICES ASSUME IInv, Next
             PROVE  SalesGrow
  OBVIOUS
<1>1. ASSUME UNCHANGED sale
      PROVE  SalesGrow
  BY <1>1 DEF SalesGrow, IInv, TypeOK, ExtendsARental, Paid
<1>2. ASSUME NEW s \in Sales, NEW kind \in {"purchase", "rental"}, Checkout(s, kind)
      PROVE  SalesGrow
  BY <1>2 DEF Checkout, SalesGrow, IInv, TypeOK, ExtendsARental, Paid, SaleRow
<1>3. ASSUME NEW s \in Sales, NEW r \in DOMAIN rentals, extendRental(s, r)
      PROVE  SalesGrow
  <2>1. r \in 1..Len(rentals)
    BY LenProperties DEF IInv, TypeOK
  <2>2. QED
    BY <1>3, <2>1 DEF extendRental, SalesGrow, IInv, TypeOK, ExtendsARental, Paid, SaleRow
<1>4. ASSUME NEW s \in Sales, NEW stage \in {"captured", "refunded"}, Stage(s, stage)
      PROVE  SalesGrow
  BY <1>4 DEF Stage, SalesGrow, IInv, TypeOK, ExtendsARental, Paid, SaleRow
<1>5. ASSUME NEW s \in Sales, NEW what \in {"granted", "refused"}, Got(s, what)
      PROVE  SalesGrow
  BY <1>5 DEF Got, SalesGrow, IInv, TypeOK, ExtendsARental, Paid, SaleRow
<1>6. ASSUME NEW s \in Sales, NEW k \in Slots,
             PaymentCompleted(s, k) \/ RefundCompleted(s, k) \/ EventRepeated(s, k)
      PROVE  SalesGrow
  BY <1>1, <1>4, <1>6 DEF PaymentCompleted, RefundCompleted, EventRepeated
<1>7. ASSUME NEW k \in Slots, Handle(k)
      PROVE  SalesGrow
  <2>1. CASE \/ PurchaseCheck(k) \/ RentalCheck(k) \/ ExtensionCheck(k)
    <3>1. handler[k].sale \in Sales
      BY <2>1 DEF PurchaseCheck, RentalCheck, ExtensionCheck, At, IInv, TypeOK
    <3>2. QED
      BY <1>1, <1>5, <2>1, <3>1 DEF PurchaseCheck, RentalCheck, ExtensionCheck
  <2>2. CASE \/ PurchaseGrant(k) \/ RentalGrant(k) \/ ExtensionGrant(k)
    <3>1. handler[k].sale \in Sales
      BY <2>2 DEF PurchaseGrant, RentalGrant, ExtensionGrant, At, IInv, TypeOK
    <3>2. QED
      BY <1>5, <2>2, <3>1 DEF PurchaseGrant, RentalGrant, ExtensionGrant
  <2>3. CASE \/ RentalRevokeCheck(k) \/ RentalRevoke(k) \/ ExtensionRevoke(k)
             \/ RemovalFind(k) \/ Removal(k) \/ ShelveCheck(k) \/ Shelve(k)
             \/ WithdrawCheck(k) \/ ReturnRental(k) \/ Lost(k)
    BY <1>1, <2>3 DEF RentalRevokeCheck, RentalRevoke, ExtensionRevoke, RemovalFind, Removal,
                      ShelveCheck, Shelve, WithdrawCheck, ReturnRental, Lost
  <2>4. QED
    BY <1>7, <2>1, <2>2, <2>3 DEF Handle
<1>8. CASE \/ \E i \in DOMAIN library : RemoveFromLibrary(i)
           \/ \E r \in DOMAIN rentals : RentalLapses(r) \/ \E k \in Slots : ReturnCheck(r, k)
  BY <1>1, <1>8 DEF RemoveFromLibrary, RentalLapses, ReturnCheck
<1>9. QED
  BY <1>2, <1>3, <1>6, <1>7, <1>8 DEF Next, Shop

(***************************************************************************)
(* Rentals are appended or changed in place, and stay within their cap.    *)
(***************************************************************************)
LEMMA RentalsStep == IInv /\ Next => RentalsGrow
<1> SUFFICES ASSUME IInv, Next
             PROVE  RentalsGrow
  OBVIOUS
<1> USE EntitlementsAssumption
<1>0. /\ rentals \in Seq(RentalRow)
      /\ DOMAIN rentals = 1..Len(rentals)
      /\ \A r \in 1..Len(rentals) : rentals[r] \in RentalRow /\ rentals[r].extended <= MaxExtensions
  BY LenProperties, ElementOfSeq DEF IInv, TypeOK, ExtensionsWithinCap
<1>1. ASSUME UNCHANGED rentals
      PROVE  RentalsGrow
  BY <1>0, <1>1, LenProperties DEF RentalsGrow
<1>2. ASSUME NEW r \in 1..Len(rentals), NEW row \in RentalRow, row.extended <= MaxExtensions,
             rentals' = [rentals EXCEPT ![r] = row]
      PROVE  RentalsGrow
  <2>1. /\ rentals' \in Seq(RentalRow)
        /\ Len(rentals') = Len(rentals)
        /\ \A q \in 1..Len(rentals) : rentals'[q] = IF q = r THEN row ELSE rentals[q]
    BY <1>0, <1>2, ExceptSeq
  <2>2. QED
    BY <1>0, <1>2, <2>1, LenProperties DEF RentalsGrow
<1>3. ASSUME NEW k \in Slots, RentalGrant(k)
      PROVE  RentalsGrow
  <2> DEFINE row == [status |-> "active", over |-> FALSE, extended |-> 0]
  <2>1. row \in RentalRow
    BY DEF RentalRow
  <2>2. rentals' = Append(rentals, row)
    BY <1>3 DEF RentalGrant
  <2>3. /\ rentals' \in Seq(RentalRow)
        /\ Len(rentals') = Len(rentals) + 1
        /\ \A q \in 1..Len(rentals) : rentals'[q] = rentals[q]
        /\ rentals'[Len(rentals) + 1] = row
    BY <1>0, <2>1, <2>2, AppendProperties
  <2>4. ASSUME NEW q \in 1..Len(rentals')
        PROVE  rentals'[q].extended <= MaxExtensions
    <3>1. q \in 1..Len(rentals) \/ q = Len(rentals) + 1
      BY <1>0, <2>3, LenProperties
    <3>2. QED
      BY <1>0, <2>3, <3>1
  <2>5. QED
    BY <1>0, <2>3, <2>4, LenProperties DEF RentalsGrow
<1>4. ASSUME NEW k \in Slots, ExtensionGrant(k)
      PROVE  RentalsGrow
  <2> DEFINE r == sale[handler[k].sale].rental
  <2>1. At(k, "grant", "extension", "checked")
    BY <1>4 DEF ExtensionGrant
  <2>2. handler[k].sale \in Sales /\ handler[k].seen \in Nat /\ handler[k].seen < MaxExtensions
    BY <2>1 DEF IInv, TypeOK, Backed, At, Handler
  <2>3. r \in 1..Len(rentals)
    BY <2>1, <2>2 DEF IInv, ExtendsARental, At
  <2>4. PICK over \in BOOLEAN :
           rentals' = [rentals EXCEPT ![r] =
              [status |-> rentals[r].status, over |-> over, extended |-> handler[k].seen + 1]]
    BY <1>4 DEF ExtensionGrant
  <2>5. [status |-> rentals[r].status, over |-> over, extended |-> handler[k].seen + 1] \in RentalRow
    BY <1>0, <2>2, <2>3 DEF RentalRow
  <2>6. handler[k].seen + 1 <= MaxExtensions
    BY <2>2
  <2> HIDE DEF r
  <2>7. QED
    BY <1>2, <2>3, <2>4, <2>5, <2>6
<1>5. ASSUME NEW r \in 1..Len(rentals), NEW status \in {"expired", "returned"},
             rentals' = [rentals EXCEPT ![r] = Ended(@, status)]
      PROVE  RentalsGrow
  <2>1. Ended(rentals[r], status) \in RentalRow /\ Ended(rentals[r], status).extended <= MaxExtensions
    BY <1>0 DEF Ended, RentalRow
  <2>2. QED
    BY <1>2, <1>5, <2>1
<1>6. ASSUME NEW k \in Slots, RentalRevoke(k)
      PROVE  RentalsGrow
  <2>1. handler[k].seen \in 1..Len(rentals)
    BY <1>6 DEF RentalRevoke, IInv, Backed
  <2>2. QED
    BY <1>5, <1>6, <2>1 DEF RentalRevoke
<1>7. ASSUME NEW k \in Slots, ReturnRental(k)
      PROVE  RentalsGrow
  <2>1. handler[k].rental \in 1..Len(rentals)
    BY <1>7 DEF ReturnRental, IInv, TypeOK
  <2>2. QED
    BY <1>5, <1>7, <2>1 DEF ReturnRental
<1>8. ASSUME NEW r \in DOMAIN rentals, RentalLapses(r)
      PROVE  RentalsGrow
  <2> DEFINE row == [status |-> rentals[r].status, over |-> TRUE, extended |-> rentals[r].extended]
  <2>1. row \in RentalRow /\ row.extended <= MaxExtensions
    BY <1>0 DEF RentalRow
  <2>2. rentals' = [rentals EXCEPT ![r] = row]
    BY <1>8 DEF RentalLapses
  <2> HIDE DEF row
  <2>3. QED
    BY <1>0, <1>2, <2>1, <2>2
<1>9. CASE \/ \E s \in Sales, kind \in {"purchase", "rental"} : Checkout(s, kind)
           \/ \E s \in Sales, r \in DOMAIN rentals : extendRental(s, r)
           \/ \E s \in Sales, k \in Slots : PaymentCompleted(s, k) \/ RefundCompleted(s, k) \/ EventRepeated(s, k)
           \/ \E i \in DOMAIN library : RemoveFromLibrary(i)
           \/ \E r \in DOMAIN rentals, k \in Slots : ReturnCheck(r, k)
  BY <1>1, <1>9 DEF Checkout, extendRental, PaymentCompleted, RefundCompleted, EventRepeated,
                    RemoveFromLibrary, ReturnCheck
<1>10. ASSUME NEW k \in Slots,
              \/ PurchaseCheck(k) \/ PurchaseGrant(k) \/ RentalCheck(k) \/ ExtensionCheck(k)
              \/ RentalRevokeCheck(k) \/ ExtensionRevoke(k) \/ RemovalFind(k) \/ Removal(k)
              \/ ShelveCheck(k) \/ Shelve(k) \/ WithdrawCheck(k) \/ Lost(k)
       PROVE  RentalsGrow
  BY <1>1, <1>10 DEF PurchaseCheck, PurchaseGrant, RentalCheck, ExtensionCheck, RentalRevokeCheck,
                     ExtensionRevoke, RemovalFind, Removal, ShelveCheck, Shelve, WithdrawCheck, Lost
<1>11. QED
  BY <1>3, <1>4, <1>6, <1>7, <1>8, <1>9, <1>10 DEF Next, Shop, Handle

(***************************************************************************)
(* Library rows are appended or marked as removed; a new row records an    *)
(* existing rental, or a purchase that was paid for.                       *)
(***************************************************************************)
LEMMA LibraryStep == IInv /\ Next => LibraryGrows
<1> SUFFICES ASSUME IInv, Next
             PROVE  LibraryGrows
  OBVIOUS
<1>0. /\ library \in Seq(LibraryRow)
      /\ DOMAIN library = 1..Len(library)
      /\ \A i \in 1..Len(library) : library[i] \in LibraryRow
  BY LenProperties, ElementOfSeq DEF IInv, TypeOK
<1>1. ASSUME UNCHANGED library
      PROVE  LibraryGrows
  BY <1>0, <1>1, LenProperties DEF LibraryGrows
<1>2. ASSUME NEW i \in 1..Len(library), library' = [library EXCEPT ![i] = Removed(@)]
      PROVE  LibraryGrows
  <2>1. Removed(library[i]) \in LibraryRow /\ Removed(library[i]).rental = library[i].rental
    BY <1>0 DEF Removed, LibraryRow
  <2>2. /\ library' \in Seq(LibraryRow)
        /\ Len(library') = Len(library)
        /\ \A j \in 1..Len(library) : library'[j] = IF j = i THEN Removed(library[i]) ELSE library[j]
    BY <1>0, <1>2, <2>1, ExceptSeq
  <2>3. QED
    BY <1>0, <2>1, <2>2, LenProperties DEF LibraryGrows
<1>3. ASSUME NEW row \in LibraryRow, library' = Append(library, row),
             \/ row.rental \in 1..Len(rentals)
             \/ row.rental = 0 /\ \E s \in Sales : sale[s].kind = "purchase" /\ Paid(s)
      PROVE  LibraryGrows
  <2>1. /\ library' \in Seq(LibraryRow)
        /\ Len(library') = Len(library) + 1
        /\ \A j \in 1..Len(library) : library'[j] = library[j]
        /\ library'[Len(library) + 1] = row
    BY <1>0, <1>3, AppendProperties
  <2>2. \A j \in 1..Len(library') : j \in 1..Len(library) \/ j = Len(library) + 1
    BY <1>0, <2>1, LenProperties
  <2>3. QED
    BY <1>0, <1>3, <2>1, <2>2, LenProperties DEF LibraryGrows
<1>4. ASSUME NEW k \in Slots, PurchaseGrant(k)
      PROVE  LibraryGrows
  <2> DEFINE row == [rental |-> 0, kept |-> TRUE]
  <2>1. handler[k].sale \in Sales /\ sale[handler[k].sale].kind = "purchase" /\ Paid(handler[k].sale)
    BY <1>4 DEF PurchaseGrant, At, IInv, TypeOK, Backed
  <2>2. row \in LibraryRow /\ row.rental = 0 /\ library' = Append(library, row)
    BY <1>4 DEF PurchaseGrant, LibraryRow
  <2> HIDE DEF row
  <2>3. QED
    BY <1>3, <2>1, <2>2
<1>5. ASSUME NEW k \in Slots, Shelve(k)
      PROVE  LibraryGrows
  <2> DEFINE row == [rental |-> handler[k].rental, kept |-> TRUE]
  <2>1. handler[k] \in Handler /\ handler[k].rental \in 1..Len(rentals)
    BY <1>5 DEF Shelve, IInv, TypeOK
  <2>2. row \in LibraryRow /\ row.rental \in 1..Len(rentals) /\ library' = Append(library, row)
    BY <1>5, <2>1 DEF Shelve, LibraryRow, Handler
  <2> HIDE DEF row
  <2>3. QED
    BY <1>3, <2>2
<1>6. ASSUME NEW k \in Slots, Removal(k)
      PROVE  LibraryGrows
  <2>1. handler[k].seen \in 1..Len(library)
    BY <1>6 DEF Removal, IInv, Backed
  <2>2. QED
    BY <1>2, <1>6, <2>1 DEF Removal
<1>7. ASSUME NEW i \in DOMAIN library, RemoveFromLibrary(i)
      PROVE  LibraryGrows
  BY <1>0, <1>2, <1>7 DEF RemoveFromLibrary
<1>8. CASE \/ \E s \in Sales, kind \in {"purchase", "rental"} : Checkout(s, kind)
           \/ \E s \in Sales, r \in DOMAIN rentals : extendRental(s, r)
           \/ \E s \in Sales, k \in Slots : PaymentCompleted(s, k) \/ RefundCompleted(s, k) \/ EventRepeated(s, k)
           \/ \E r \in DOMAIN rentals : RentalLapses(r) \/ \E k \in Slots : ReturnCheck(r, k)
  BY <1>1, <1>8 DEF Checkout, extendRental, PaymentCompleted, RefundCompleted, EventRepeated,
                    RentalLapses, ReturnCheck
<1>9. ASSUME NEW k \in Slots,
             \/ PurchaseCheck(k) \/ RentalCheck(k) \/ RentalGrant(k) \/ ExtensionCheck(k)
             \/ ExtensionGrant(k) \/ RentalRevokeCheck(k) \/ RentalRevoke(k) \/ ExtensionRevoke(k)
             \/ RemovalFind(k) \/ ShelveCheck(k) \/ WithdrawCheck(k) \/ ReturnRental(k) \/ Lost(k)
      PROVE  LibraryGrows
  BY <1>1, <1>9 DEF PurchaseCheck, RentalCheck, RentalGrant, ExtensionCheck, ExtensionGrant,
                    RentalRevokeCheck, RentalRevoke, ExtensionRevoke, RemovalFind, ShelveCheck,
                    WithdrawCheck, ReturnRental, Lost
<1>10. QED
  BY <1>4, <1>5, <1>6, <1>7, <1>8, <1>9 DEF Next, Shop, Handle

-----------------------------------------------------------------------------
\* What IInv says of one slot.
Sound(k) ==
    /\ handler[k] \in Handler
    /\ handler[k].does \in {"grant", "revoke"} => handler[k].sale \in Sales
    /\ handler[k].does \in {"shelve", "withdraw", "return"} => handler[k].rental \in 1..Len(rentals)
    /\ Backed(k)

(***************************************************************************)
(* A handler is not disturbed by what others do.                           *)
(***************************************************************************)
LEMMA SlotKept ==
  ASSUME IInv, SalesGrow, RentalsGrow, LibraryGrows, NEW j \in Slots, handler'[j] = handler[j]
  PROVE  Sound(j)'
<1>1. Sound(j)
  BY DEF Sound, IInv, TypeOK
<1>2. /\ Len(rentals) \in Nat /\ Len(library) \in Nat
      /\ Len(rentals') \in Nat /\ Len(library') \in Nat
  BY LenProperties DEF IInv, TypeOK, RentalsGrow, LibraryGrows
<1>3. handler[j].does \in {"grant", "revoke"} =>
         /\ Paid(handler[j].sale)'
         /\ sale'[handler[j].sale].kind = sale[handler[j].sale].kind
  BY <1>1 DEF Sound, Backed, SalesGrow
<1>4. (handler[j].does \in {"shelve", "withdraw", "return"} => handler[j].rental \in 1..Len(rentals))'
  BY <1>1, <1>2 DEF Sound, RentalsGrow
<1>5. Backed(j)'
  BY <1>1, <1>2, <1>3 DEF Sound, Backed, At, Removing, RentalsGrow, LibraryGrows, Paid
<1>6. QED
  BY <1>1, <1>3, <1>4, <1>5 DEF Sound

(***************************************************************************)
(* A slot that ends, or goes on as the listener of a rental event, is      *)
(* sound again.                                                            *)
(***************************************************************************)
LEMMA SlotEnds ==
  ASSUME IInv, NEW k \in Slots, handler'[k] = Idle
  PROVE  Sound(k)'
BY DEF Sound, Idle, Handler, Backed, At, Removing

LEMMA SlotEmits ==
  ASSUME IInv, RentalsGrow, NEW k \in Slots, NEW does \in {"shelve", "withdraw"},
         NEW r \in 1..Len(rentals'),
         handler'[k] = [does |-> does, sale |-> None, rental |-> r, pc |-> "start", seen |-> 0]
  PROVE  Sound(k)'
<1>1. r \in Nat
  BY LenProperties DEF RentalsGrow
<1>2. QED
  BY <1>1 DEF Sound, Handler, Backed, At, Removing

(***************************************************************************)
(* Every step leaves every slot sound.                                     *)
(***************************************************************************)
LEMMA HandlersStep ==
  ASSUME IInv, Next, SalesGrow, RentalsGrow, LibraryGrows
  PROVE  handler' \in [Slots -> Handler] /\ \A k \in Slots : Sound(k)'
<1> USE EntitlementsAssumption
<1>0. /\ handler \in [Slots -> Handler]
      /\ rentals \in Seq(RentalRow) /\ library \in Seq(LibraryRow)
      /\ DOMAIN rentals = 1..Len(rentals) /\ DOMAIN library = 1..Len(library)
      /\ Len(rentals) \in Nat /\ Len(library) \in Nat
      /\ \A k \in Slots : Sound(k)
  BY LenProperties DEF IInv, TypeOK, Sound
<1> DEFINE Goal == handler' \in [Slots -> Handler] /\ \A k \in Slots : Sound(k)'
<1>1. ASSUME UNCHANGED handler
      PROVE  Goal
  BY <1>0, <1>1, SlotKept
<1>2. ASSUME NEW k \in Slots, NEW h, handler' = [handler EXCEPT ![k] = h], Sound(k)'
      PROVE  Goal
  <2>1. handler'[k] = h /\ \A j \in Slots \ {k} : handler'[j] = handler[j]
    BY <1>0, <1>2
  <2>2. h \in Handler
    BY <1>2, <2>1 DEF Sound
  <2>3. \A j \in Slots : Sound(j)'
    BY <1>2, <2>1, SlotKept
  <2>4. QED
    BY <1>0, <1>2, <2>2, <2>3
<1>3. ASSUME NEW k \in Slots, End(k)
      PROVE  Goal
  <2>1. handler'[k] = Idle
    BY <1>0, <1>3 DEF End
  <2>2. QED
    BY <1>2, <1>3, <2>1, SlotEnds DEF End
<1>4. ASSUME NEW k \in Slots, NEW does \in {"shelve", "withdraw"}, NEW r \in 1..Len(rentals'), Emit(k, does, r)
      PROVE  Goal
  <2>1. handler'[k] = [does |-> does, sale |-> None, rental |-> r, pc |-> "start", seen |-> 0]
    BY <1>0, <1>4 DEF Emit
  <2>2. QED
    BY <1>2, <1>4, <2>1, SlotEmits DEF Emit
\* Handlers that start.
<1>5. ASSUME NEW s \in Sales, NEW k \in Slots, NEW does \in {"grant", "revoke"},
             Start(k, does, s, 0, "start"), Paid(s)'
      PROVE  Goal
  <2>1. handler'[k] = [does |-> does, sale |-> s, rental |-> 0, pc |-> "start", seen |-> 0]
    BY <1>0, <1>5 DEF Start
  <2>2. Sound(k)'
    BY <1>5, <2>1 DEF Sound, Handler, Backed, At, Removing
  <2>3. QED
    BY <1>2, <1>5, <2>2 DEF Start
<1>6. ASSUME NEW s \in Sales, NEW k \in Slots,
             PaymentCompleted(s, k) \/ RefundCompleted(s, k) \/ EventRepeated(s, k)
      PROVE  Goal
  <2>1. Paid(s)'
    BY <1>6 DEF PaymentCompleted, RefundCompleted, EventRepeated, Stage, Paid, IInv, TypeOK
  <2>2. QED
    BY <1>5, <1>6, <2>1 DEF PaymentCompleted, RefundCompleted, EventRepeated
<1>7. ASSUME NEW r \in DOMAIN rentals, NEW k \in Slots, ReturnCheck(r, k)
      PROVE  Goal
  <2>1. handler'[k] = [does |-> "return", sale |-> None, rental |-> r, pc |-> "checked", seen |-> 0]
    BY <1>0, <1>7 DEF ReturnCheck, Start
  <2>2. r \in 1..Len(rentals) /\ r \in Nat /\ rentals' = rentals
    BY <1>0, <1>7 DEF ReturnCheck
  <2>3. Sound(k)'
    BY <2>1, <2>2 DEF Sound, Handler, Backed, At, Removing
  <2>4. QED
    BY <1>2, <1>7, <2>3 DEF ReturnCheck, Start
\* Handlers that have read something and go on.
<1>8. ASSUME NEW k \in Slots, NEW pc \in {"found", "checked"}, NEW seen \in Nat, Goto(k, pc, seen),
             /\ At(k, "grant", "extension", "start") => seen < MaxExtensions
             /\ At(k, "revoke", "rental", "start") => seen \in 1..Len(rentals)
             /\ Removing(k) /\ pc = "checked" => seen \in 1..Len(library),
             handler[k].does \in {"grant", "revoke"} => handler[k].pc = "start",
             UNCHANGED <<sale, library, rentals>>
      PROVE  Goal
  <2> DEFINE h == [does |-> handler[k].does, sale |-> handler[k].sale, rental |-> handler[k].rental,
                   pc |-> pc, seen |-> seen]
  <2>1. handler' = [handler EXCEPT ![k] = h] /\ handler'[k] = h
    BY <1>0, <1>8 DEF Goto
  <2>2. h \in Handler
    BY <1>0, <1>8 DEF Handler
  <2>3. Sound(k)'
    BY <1>0, <1>8, <2>1, <2>2 DEF Sound, Backed, At, Removing, Paid
  <2> HIDE DEF h
  <2>4. QED
    BY <1>2, <2>1, <2>3
<1>9. ASSUME NEW k \in Slots, ExtensionCheck(k)
      PROVE  Goal
  <2>1. At(k, "grant", "extension", "start") /\ UNCHANGED <<library, rentals>>
    BY <1>9 DEF ExtensionCheck
  <2>2. PICK extended \in 0..MaxExtensions :
           \/ extended < MaxExtensions /\ Goto(k, "checked", extended) /\ UNCHANGED sale
           \/ End(k)
    BY <1>9 DEF ExtensionCheck
  <2>3. CASE extended < MaxExtensions /\ Goto(k, "checked", extended) /\ UNCHANGED sale
    BY <1>8, <2>1, <2>2, <2>3 DEF At, Removing
  <2>4. CASE End(k)
    BY <1>3, <2>4
  <2>5. QED
    BY <2>2, <2>3, <2>4
<1>10. ASSUME NEW k \in Slots, PurchaseCheck(k) \/ RentalCheck(k) \/ ShelveCheck(k)
       PROVE  Goal
  <2>1. CASE Goto(k, "checked", 0) /\ UNCHANGED <<sale, library, rentals>>
    BY <1>8, <1>10, <2>1 DEF PurchaseCheck, RentalCheck, ShelveCheck, At, Removing
  <2>2. CASE End(k)
    BY <1>3, <2>2
  <2>3. QED
    BY <1>10, <2>1, <2>2 DEF PurchaseCheck, RentalCheck, ShelveCheck
<1>11. ASSUME NEW k \in Slots, RentalRevokeCheck(k)
       PROVE  Goal
  <2>1. ASSUME NEW r \in 1..Len(rentals), Goto(k, "checked", r)
        PROVE  Goal
    BY <1>0, <1>8, <1>11, <2>1 DEF RentalRevokeCheck, At, Removing
  <2>2. CASE End(k)
    BY <1>3, <2>2
  <2>3. End(k) \/ \E r \in 1..Len(rentals) : Goto(k, "checked", r)
    BY <1>0, <1>11 DEF RentalRevokeCheck, RentalAnswers
  <2>4. QED
    BY <2>1, <2>2, <2>3
<1>12. ASSUME NEW k \in Slots, RemovalFind(k)
       PROVE  Goal
  <2>1. ASSUME NEW i \in 1..Len(library), Goto(k, "checked", i)
        PROVE  Goal
    BY <1>0, <1>8, <1>12, <2>1 DEF RemovalFind, At, Removing
  <2>2. CASE End(k)
    BY <1>3, <2>2
  <2>3. End(k) \/ \E i \in 1..Len(library) : Goto(k, "checked", i)
    BY <1>0, <1>12 DEF RemovalFind, ShelfAnswers
  <2>4. QED
    BY <2>1, <2>2, <2>3
<1>13. ASSUME NEW k \in Slots, WithdrawCheck(k)
       PROVE  Goal
  <2>1. CASE Goto(k, "found", 0)
    BY <1>8, <1>13, <2>1 DEF WithdrawCheck, At
  <2>2. CASE End(k)
    BY <1>3, <2>2
  <2>3. QED
    BY <1>13, <2>1, <2>2 DEF WithdrawCheck
\* Handlers that write and emit, or end.
<1>14. ASSUME NEW k \in Slots, RentalGrant(k)
       PROVE  Goal
  <2> DEFINE row == [status |-> "active", over |-> FALSE, extended |-> 0]
  <2>1. row \in RentalRow /\ rentals' = Append(rentals, row)
    BY <1>14 DEF RentalGrant, RentalRow
  <2>2. Len(rentals') = Len(rentals) + 1
    BY <1>0, <2>1, AppendProperties
  <2>3. Len(rentals) + 1 \in 1..Len(rentals')
    BY <1>0, <2>2
  <2>4. QED
    BY <1>4, <1>14, <2>3 DEF RentalGrant
<1>15. ASSUME NEW k \in Slots, RentalRevoke(k) \/ ReturnRental(k)
       PROVE  Goal
  <2>1. Len(rentals') \in Nat /\ Len(rentals) <= Len(rentals')
    BY LenProperties DEF RentalsGrow
  <2>2. CASE RentalRevoke(k)
    <3>1. handler[k].seen \in 1..Len(rentals')
      BY <1>0, <2>1, <2>2 DEF RentalRevoke, Sound, Backed
    <3>2. QED
      BY <1>4, <2>2, <3>1 DEF RentalRevoke
  <2>3. CASE ReturnRental(k)
    <3>1. handler[k].rental \in 1..Len(rentals')
      BY <1>0, <2>1, <2>3 DEF ReturnRental, Sound
    <3>2. QED
      BY <1>4, <2>3, <3>1 DEF ReturnRental
  <2>4. QED
    BY <1>15, <2>2, <2>3
<1>16. ASSUME NEW k \in Slots,
              \/ PurchaseGrant(k) \/ ExtensionGrant(k) \/ ExtensionRevoke(k)
              \/ Removal(k) \/ Shelve(k) \/ Lost(k)
       PROVE  Goal
  BY <1>3, <1>16 DEF PurchaseGrant, ExtensionGrant, ExtensionRevoke, Removal, Shelve, Lost
<1>17. CASE \/ \E s \in Sales, kind \in {"purchase", "rental"} : Checkout(s, kind)
            \/ \E s \in Sales, r \in DOMAIN rentals : extendRental(s, r)
            \/ \E i \in DOMAIN library : RemoveFromLibrary(i)
            \/ \E r \in DOMAIN rentals : RentalLapses(r)
  BY <1>1, <1>17 DEF Checkout, extendRental, RemoveFromLibrary, RentalLapses
<1>18. QED
  BY <1>6, <1>7, <1>9, <1>10, <1>11, <1>12, <1>13, <1>14, <1>15, <1>16, <1>17 DEF Next, Shop, Handle

(***************************************************************************)
(* The bound on mishaps and the history keep their types.                  *)
(***************************************************************************)
LEMMA MishapsStep == TypeOK /\ Next => mishaps' \in 0..MaxMishaps /\ saw' \in SUBSET Oddities
<1> SUFFICES ASSUME TypeOK, Next
             PROVE  mishaps' \in 0..MaxMishaps /\ saw' \in SUBSET Oddities
  OBVIOUS
<1> DEFINE Goal == mishaps' \in 0..MaxMishaps /\ saw' \in SUBSET Oddities
<1>0. mishaps \in 0..MaxMishaps /\ saw \in SUBSET Oddities /\ MaxMishaps \in Nat
  BY EntitlementsAssumption DEF TypeOK
<1>1. ASSUME UNCHANGED <<mishaps, saw>>
      PROVE  Goal
  BY <1>0, <1>1
<1>2. ASSUME NEW old \in BOOLEAN, NEW odd \in SUBSET Oddities, Reading(old, odd)
      PROVE  Goal
  <2>1. "old" \in Oddities
    BY DEF Oddities
  <2>2. saw' \in SUBSET Oddities
    BY <1>0, <1>2, <2>1 DEF Reading
  <2>3. mishaps' \in 0..MaxMishaps
    BY <1>0, <1>2 DEF Reading
  <2>4. QED
    BY <2>2, <2>3
<1>3. \A does : Overlaps(does) \in SUBSET Oddities
  BY DEF Overlaps, Oddities
<1>4. {} \in SUBSET Oddities /\ {"rival"} \in SUBSET Oddities /\ {"missed"} \in SUBSET Oddities
      /\ {"removed"} \in SUBSET Oddities /\ {"repeat"} \in SUBSET Oddities
      /\ {"late"} \in SUBSET Oddities /\ {"loss"} \in SUBSET Oddities
  BY DEF Oddities
<1>5. ASSUME NEW i, NEW odd \in SUBSET Oddities, ReadShelf(i, odd)
      PROVE  Goal
  BY <1>2, <1>5 DEF ReadShelf
<1>6. ASSUME NEW r, NEW odd \in SUBSET Oddities, ReadRental(r, odd)
      PROVE  Goal
  BY <1>2, <1>6 DEF ReadRental
<1> HIDE DEF Goal
<1>7. ASSUME NEW s \in Sales, NEW kind \in {"purchase", "rental"}, Checkout(s, kind)
      PROVE  Goal
  BY <1>4, <1>5, <1>7 DEF Checkout
<1>8. ASSUME NEW s \in Sales, NEW k \in Slots, PaymentCompleted(s, k) \/ RefundCompleted(s, k)
      PROVE  Goal
  BY <1>0, <1>3, <1>8 DEF PaymentCompleted, RefundCompleted, Goal
<1>9. ASSUME NEW s \in Sales, NEW k \in Slots, EventRepeated(s, k)
      PROVE  Goal
  <2>1. PICK does : saw' \subseteq saw \cup Overlaps(does) \cup {"repeat"} \cup {"late"}
    BY <1>9 DEF EventRepeated
  <2>2. saw' \in SUBSET Oddities
    BY <1>0, <1>3, <1>4, <2>1
  <2>3. mishaps' \in 0..MaxMishaps
    BY <1>0, <1>9 DEF EventRepeated
  <2>4. QED
    BY <2>2, <2>3 DEF Goal
<1>10. ASSUME NEW r \in DOMAIN rentals, NEW k \in Slots, ReturnCheck(r, k)
       PROVE  Goal
  BY <1>2, <1>3, <1>10 DEF ReturnCheck
<1>11. ASSUME NEW i, RemoveFromLibrary(i)
       PROVE  Goal
  BY <1>0, <1>4, <1>11 DEF RemoveFromLibrary, Goal
<1>12. ASSUME NEW k \in Slots, Lost(k)
       PROVE  Goal
  <2>1. saw' \in SUBSET Oddities
    BY <1>0, <1>4, <1>12 DEF Lost
  <2>2. mishaps' \in 0..MaxMishaps
    BY <1>0, <1>12 DEF Lost
  <2>3. QED
    BY <2>1, <2>2 DEF Goal
<1>13. ASSUME NEW s \in Sales, NEW r \in DOMAIN rentals, extendRental(s, r)
       PROVE  Goal
  BY <1>2, <1>4, <1>13 DEF extendRental
<1>14. ASSUME NEW r, RentalLapses(r)
       PROVE  Goal
  BY <1>1, <1>14 DEF RentalLapses
<1>15. ASSUME NEW k \in Slots, PurchaseCheck(k) \/ RemovalFind(k) \/ ShelveCheck(k)
       PROVE  Goal
  BY <1>4, <1>5, <1>15 DEF PurchaseCheck, RemovalFind, ShelveCheck
<1>16. ASSUME NEW k \in Slots, RentalCheck(k) \/ RentalRevokeCheck(k)
       PROVE  Goal
  BY <1>4, <1>6, <1>16 DEF RentalCheck, RentalRevokeCheck
<1>17. ASSUME NEW k \in Slots, ExtensionCheck(k) \/ WithdrawCheck(k)
       PROVE  Goal
  BY <1>2, <1>4, <1>17 DEF ExtensionCheck, WithdrawCheck
<1>18. ASSUME NEW k \in Slots,
              \/ PurchaseGrant(k) \/ RentalGrant(k) \/ ExtensionGrant(k) \/ RentalRevoke(k)
              \/ ExtensionRevoke(k) \/ Removal(k) \/ Shelve(k) \/ ReturnRental(k)
       PROVE  Goal
  BY <1>1, <1>18 DEF PurchaseGrant, RentalGrant, ExtensionGrant, RentalRevoke, ExtensionRevoke,
                     Removal, Shelve, ReturnRental
<1>19. ASSUME NEW k \in Slots, Handle(k)
       PROVE  Goal
  BY <1>12, <1>15, <1>16, <1>17, <1>18, <1>19 DEF Handle
<1>20. Goal
  BY <1>7, <1>8, <1>9, <1>10, <1>11, <1>13, <1>14, <1>19 DEF Next, Shop
<1>21. QED
  BY <1>20 DEF Goal

-----------------------------------------------------------------------------
(***************************************************************************)
(* The invariant holds, and with it what the runs check: the tables and    *)
(* handlers are well typed and refer to what exists, ownership was paid    *)
(* for, and no rental is extended past its cap.                            *)
(***************************************************************************)
THEOREM EntitlementsInvariant == Spec => []IInv
<1> USE EntitlementsAssumption
<1>1. Init => IInv
  <2> SUFFICES ASSUME Init
               PROVE  IInv
    OBVIOUS
  <2>1. /\ library \in Seq(LibraryRow) /\ rentals \in Seq(RentalRow)
        /\ DOMAIN library = {} /\ DOMAIN rentals = {}
    BY EmptySeq DEF Init
  <2>2. QED
    BY <2>1 DEF Init, IInv, TypeOK, SaleRow, Handler, Idle, Backed, At, Removing, ExtendsARental,
                OwnershipWasPaid, ExtensionsWithinCap
<1>2. IInv /\ [Next]_vars => IInv'
  <2> SUFFICES ASSUME IInv, [Next]_vars
               PROVE  IInv'
    OBVIOUS
  <2>1. CASE UNCHANGED vars
    BY <2>1 DEF vars, IInv, TypeOK, Backed, At, Removing, ExtendsARental, OwnershipWasPaid, Paid,
                ExtensionsWithinCap
  <2>2. CASE Next
    <3>1. SalesGrow /\ RentalsGrow /\ LibraryGrows
      BY <2>2, SalesStep, RentalsStep, LibraryStep
    <3>2. handler' \in [Slots -> Handler] /\ \A k \in Slots : Sound(k)'
      BY <2>2, <3>1, HandlersStep
    <3>3. /\ Len(rentals) \in Nat /\ Len(rentals') \in Nat
          /\ Len(library) \in Nat /\ Len(library') \in Nat
          /\ DOMAIN rentals' = 1..Len(rentals') /\ DOMAIN library' = 1..Len(library')
          /\ DOMAIN library = 1..Len(library)
      BY <3>1, LenProperties DEF IInv, TypeOK, RentalsGrow, LibraryGrows
    <3>4. mishaps' \in 0..MaxMishaps /\ saw' \in SUBSET Oddities
      BY <2>2, MishapsStep DEF IInv
    <3>5. ASSUME NEW i \in 1..Len(library')
          PROVE  library'[i].rental <= Len(rentals')
      <4>1. CASE i \in 1..Len(library) /\ library'[i].rental = library[i].rental
        <5>1. library[i] \in LibraryRow /\ library[i].rental <= Len(rentals)
          BY <3>3, <4>1, ElementOfSeq DEF IInv, TypeOK
        <5>2. library[i].rental \in Nat /\ Len(rentals) <= Len(rentals')
          BY <3>1, <5>1 DEF LibraryRow, RentalsGrow
        <5>3. QED
          BY <3>3, <4>1, <5>1, <5>2
      <4>2. CASE library'[i].rental \in 1..Len(rentals) \/ library'[i].rental = 0
        BY <3>1, <3>3, <4>2 DEF RentalsGrow
      <4>3. QED
        BY <3>1, <3>3, <4>1, <4>2 DEF LibraryGrows
    <3>6. TypeOK'
      BY <3>1, <3>2, <3>3, <3>4, <3>5 DEF TypeOK, SalesGrow, RentalsGrow, LibraryGrows, Sound
    <3>7. \A s \in Sales : ExtendsARental(s)'
      BY <3>1, <3>3 DEF SalesGrow, RentalsGrow, ExtendsARental
    <3>8. OwnershipWasPaid'
      BY <3>1, <3>3 DEF IInv, OwnershipWasPaid, LibraryGrows, SalesGrow
    <3>9. ExtensionsWithinCap'
      BY <3>1, <3>3 DEF ExtensionsWithinCap, RentalsGrow
    <3>10. QED
      BY <3>2, <3>6, <3>7, <3>8, <3>9 DEF IInv, Sound
  <2>3. QED
    BY <2>1, <2>2
<1>3. QED
  BY <1>1, <1>2, PTL DEF Spec

(***************************************************************************)
(* The tables and the handlers are well typed, and what a row or a handler *)
(* refers to exists.                                                       *)
(***************************************************************************)
THEOREM EntitlementsTypeCorrect == Spec => []TypeOK
<1>1. IInv => TypeOK
  BY DEF IInv
<1>2. QED
  BY <1>1, EntitlementsInvariant, PTL

(***************************************************************************)
(* A book is owned only if a purchase of it was paid for.                  *)
(***************************************************************************)
THEOREM OwnedBooksWerePaid == Spec => []OwnershipWasPaid
<1>1. IInv => OwnershipWasPaid
  BY DEF IInv
<1>2. QED
  BY <1>1, EntitlementsInvariant, PTL

(***************************************************************************)
(* No rental is extended past its cap.                                     *)
(***************************************************************************)
THEOREM ExtensionsAreCapped == Spec => []ExtensionsWithinCap
<1>1. IInv => ExtensionsWithinCap
  BY DEF IInv
<1>2. QED
  BY <1>1, EntitlementsInvariant, PTL

-----------------------------------------------------------------------------
(***************************************************************************)
(* A withdrawal follows the end of its rental, and the refund of a sale is *)
(* handled once the sale is refunded.                                      *)
(***************************************************************************)
Following ==
    /\ \A k \in Slots : handler[k].does = "revoke" => sale[handler[k].sale].stage = "refunded"
    /\ \A k \in Slots : handler[k].does = "withdraw" => rentals[handler[k].rental].status # "active"
    /\ "overtaken" \in saw => "overlap" \in saw
    /\ "late" \in saw => "repeat" \in saw
    /\ "missed" \in saw => "old" \in saw

(***************************************************************************)
(* Unless one overtook the other or came after it, no payment is handled   *)
(* while a refund is, and what is being granted has not been refunded.     *)
(***************************************************************************)
InTurn ==
    saw \cap {"overtaken", "late"} = {} =>
        /\ ~ \E j, k \in Slots : handler[j].does = "grant" /\ handler[k].does = "revoke"
        /\ \A k \in Slots : handler[k].does = "grant" => sale[handler[k].sale].stage = "captured"

(***************************************************************************)
(* An active newest rental is backed by a rental payment that was not      *)
(* refunded, or the handler of a refund is about to end it.  Whether the   *)
(* checks of the grants were answered with the latest rows plays no part.  *)
(***************************************************************************)
Backing ==
    saw \cap {"overtaken", "late", "loss", "missed"} = {} =>
        /\ \A k \in Slots : At(k, "revoke", "rental", "checked") => handler[k].seen = Len(rentals)
        /\ NewestIsActive =>
              \/ \E s \in Sales : sale[s].kind = "rental" /\ sale[s].stage = "captured"
              \/ \E k \in Slots : At(k, "revoke", "rental", "start") \/ At(k, "revoke", "rental", "checked")

(***************************************************************************)
(* While handlers run one after the other there is one row on the shelf at *)
(* most, and one that says the book is owned is backed by a purchase that  *)
(* was not refunded, or the handler of a refund is about to remove it.     *)
(***************************************************************************)
OneOnShelf ==
    saw \cap {"overlap", "repeat", "loss", "old"} = {} =>
        /\ \A j, k \in Busy : j = k
        /\ \A i, j \in OnShelf : i = j
        /\ \A k \in Slots :
              /\ At(k, "grant", "purchase", "checked") => OnShelf = {}
              /\ handler[k].does = "shelve" /\ handler[k].pc = "checked" => OnShelf = {}
              /\ Removing(k) /\ handler[k].pc = "checked" => OnShelf \subseteq {handler[k].seen}
        /\ (\E i \in OnShelf : library[i].rental = 0) =>
              \/ \E s \in Sales : sale[s].kind = "purchase" /\ sale[s].stage = "captured"
              \/ \E k \in Slots : At(k, "revoke", "purchase", "start") \/ At(k, "revoke", "purchase", "checked")

\* A checkout of the book that is open, and a handler that is bringing it to the shelf.
Ordering(s) == sale[s].stage = "open" /\ sale[s].kind # "extension"

Granting(k, kind) == handler[k].does = "grant" /\ sale[handler[k].sale].kind = kind

Bringing(k) == handler[k].does = "shelve" \/ Granting(k, "purchase") \/ Granting(k, "rental")

Bought(s) == sale[s].kind = "purchase" /\ sale[s].stage = "captured"

TakingBack(k) == handler[k].does = "revoke" /\ sale[handler[k].sale].kind = "purchase"

(***************************************************************************)
(* One book is on its way to the reader at a time: while it is, the shelf  *)
(* is empty, and nothing that takes a book off the shelf can take it.      *)
(***************************************************************************)
OneOnItsWay ==
    /\ \A s, t \in Sales : Ordering(s) /\ Ordering(t) => s = t
    /\ \A j, k \in Slots : Bringing(j) /\ Bringing(k) => j = k
    /\ \A s \in Sales, k \in Slots : ~ (Ordering(s) /\ Bringing(k))
    /\ (\E s \in Sales : Ordering(s)) \/ (\E k \in Slots : Bringing(k)) => OnShelf = {}
    /\ \A i, j \in OnShelf : i = j

RentalOnShelf ==
    /\ (\E s \in Sales : Ordering(s)) \/ (\E k \in Slots : Granting(k, "purchase") \/ Granting(k, "rental"))
          => ~ NewestIsActive
    /\ \A k \in Slots : handler[k].does = "shelve" => handler[k].rental = Len(rentals)
    /\ NewestIsActive => \/ \E k \in Slots : handler[k].does = "shelve"
                         \/ \E i \in OnShelf : library[i].rental = Len(rentals)

PurchaseOnShelf ==
    /\ \A s, t \in Sales : Bought(s) /\ Bought(t) => s = t
    /\ \A s \in Sales : Bought(s) =>
          /\ \/ \E k \in Slots : handler[k].does = "grant" /\ handler[k].sale = s
             \/ \E i \in OnShelf : library[i].rental = 0
          /\ \A k \in Slots : ~ TakingBack(k)
    /\ (\E s \in Sales : Bought(s)) \/ (\E k \in Slots : TakingBack(k)) =>
          /\ \A s \in Sales : ~ Ordering(s)
          /\ \A k \in Slots : ~ Granting(k, "rental") /\ handler[k].does # "shelve"
          /\ ~ NewestIsActive

WithdrawingNothingElse ==
    (\E k \in Slots : handler[k].does = "withdraw" /\ handler[k].pc # "start") =>
        /\ \A s \in Sales : ~ Ordering(s) /\ ~ Bought(s)
        /\ \A k \in Slots : ~ Bringing(k)
        /\ ~ NewestIsActive

Delivered ==
    saw \cap {"rival", "removed", "repeat", "loss", "old"} = {} =>
        /\ OneOnItsWay /\ RentalOnShelf /\ PurchaseOnShelf /\ WithdrawingNothingElse
        /\ \A s \in Sales : sale[s].kind # "extension" => sale[s].got # "refused"

-----------------------------------------------------------------------------
(***************************************************************************)
(* What the operators that write one row or one slot do.                   *)
(***************************************************************************)
LEMMA StageSet ==
    ASSUME TypeOK, NEW s \in Sales, NEW stage, Stage(s, stage)
    PROVE  /\ sale'[s].kind = sale[s].kind /\ sale'[s].stage = stage /\ sale'[s].got = sale[s].got
           /\ \A t \in Sales \ {s} : sale'[t] = sale[t]
BY DEF TypeOK, Stage

LEMMA GotSet ==
    ASSUME TypeOK, NEW s \in Sales, NEW what, Got(s, what)
    PROVE  /\ sale'[s].kind = sale[s].kind /\ sale'[s].stage = sale[s].stage
           /\ sale'[s].got \in {what, "granted"}
           /\ \A t \in Sales \ {s} : sale'[t] = sale[t]
BY DEF TypeOK, Got

LEMMA SlotSet ==
    ASSUME TypeOK, NEW k \in Slots, NEW h, handler' = [handler EXCEPT ![k] = h]
    PROVE  handler'[k] = h /\ \A j \in Slots \ {k} : handler'[j] = handler[j]
BY DEF TypeOK

(***************************************************************************)
(* What a check does when its answer is not an old one.                    *)
(***************************************************************************)
LEMMA ShelfAnswer ==
    ASSUME TypeOK, "old" \notin saw', NEW k \in Slots
    PROVE  /\ PurchaseCheck(k) \/ ShelveCheck(k) => IF OnShelf = {} THEN Goto(k, "checked", 0) ELSE End(k)
           /\ PurchaseCheck(k) => UNCHANGED sale \/ OnShelf # {}
           /\ RemovalFind(k) => IF OnShelf = {} THEN End(k) ELSE \E i \in OnShelf : Goto(k, "checked", i)
           /\ WithdrawCheck(k) => \/ End(k)
                                  \/ /\ Goto(k, "found", 0)
                                     /\ \E i \in OnShelf : library[i].rental = handler[k].rental
<1>1. DOMAIN library = 1..Len(library) /\ Len(library) \in Nat
  BY LenProperties DEF TypeOK
<1>2. \A i, odd : ReadShelf(i, odd) => i \in ShelfNow
  BY DEF ReadShelf, Reading
<1>3. 0 \notin OnShelf
  BY <1>1 DEF OnShelf
<1>4. \A i, odd : ReadShelf(i, odd) => IF OnShelf = {} THEN i = 0 ELSE i \in OnShelf /\ i # 0
  BY <1>2, <1>3 DEF ShelfNow
<1>5. PurchaseCheck(k) \/ ShelveCheck(k) => IF OnShelf = {} THEN Goto(k, "checked", 0) ELSE End(k)
  BY <1>4 DEF PurchaseCheck, ShelveCheck
<1>6. PurchaseCheck(k) => UNCHANGED sale \/ OnShelf # {}
  BY <1>4 DEF PurchaseCheck
<1>7. RemovalFind(k) => IF OnShelf = {} THEN End(k) ELSE \E i \in OnShelf : Goto(k, "checked", i)
  BY <1>4 DEF RemovalFind
<1>8. WithdrawCheck(k) => \/ End(k)
                          \/ /\ Goto(k, "found", 0)
                             /\ \E i \in OnShelf : library[i].rental = handler[k].rental
  <2>1. ASSUME WithdrawCheck(k), ~ End(k)
        PROVE  Goto(k, "found", 0) /\ ShelvedFor(handler[k].rental) \cap OnShelf # {}
    BY <2>1 DEF WithdrawCheck, Reading
  <2>2. QED
    BY <2>1 DEF ShelvedFor
<1>9. QED
  BY <1>5, <1>6, <1>7, <1>8

LEMMA RentalAnswer ==
    ASSUME TypeOK, NEW k \in Slots
    PROVE  /\ RentalCheck(k) /\ "old" \notin saw' => UNCHANGED sale \/ NewestIsActive
           /\ RentalRevokeCheck(k) /\ "missed" \notin saw' =>
                 IF NewestIsActive THEN Goto(k, "checked", Len(rentals)) ELSE End(k)
<1>1. Len(rentals) \in Nat
  BY LenProperties DEF TypeOK
<1>2. ASSUME RentalCheck(k), "old" \notin saw'
      PROVE  UNCHANGED sale \/ NewestIsActive
  <2>1. \A r, odd : ReadRental(r, odd) => r = RentalNow
    BY <1>2 DEF ReadRental, Reading
  <2>2. QED
    BY <1>2, <2>1 DEF RentalCheck, RentalNow
<1>3. ASSUME RentalRevokeCheck(k), "missed" \notin saw'
      PROVE  IF NewestIsActive THEN Goto(k, "checked", Len(rentals)) ELSE End(k)
  <2>1. PICK r \in RentalAnswers : /\ ReadRental(r, IF r = RentalNow THEN {} ELSE {"missed"})
                                   /\ IF r = 0 THEN End(k) ELSE Goto(k, "checked", r)
    BY <1>3 DEF RentalRevokeCheck
  <2>2. r = RentalNow
    BY <1>3, <2>1 DEF ReadRental, Reading
  <2>3. NewestIsActive => Len(rentals) # 0
    BY EmptySeq DEF NewestIsActive, TypeOK
  <2>4. QED
    BY <2>1, <2>2, <2>3 DEF RentalNow
<1>4. QED
  BY <1>2, <1>3

(***************************************************************************)
(* A handler moves its own slot.                                           *)
(***************************************************************************)
LEMMA OwnSlot ==
    ASSUME TypeOK, NEW k \in Slots, Handle(k)
    PROVE  \A j \in Slots \ {k} : handler'[j] = handler[j]
<1>1. ASSUME NEW h, handler' = [handler EXCEPT ![k] = h]
      PROVE  \A j \in Slots \ {k} : handler'[j] = handler[j]
  BY <1>1, SlotSet
<1>2. \A pc, seen : Goto(k, pc, seen) => \A j \in Slots \ {k} : handler'[j] = handler[j]
  BY <1>1 DEF Goto
<1>3. \A does, r : Emit(k, does, r) => \A j \in Slots \ {k} : handler'[j] = handler[j]
  BY <1>1 DEF Emit
<1>4. End(k) => \A j \in Slots \ {k} : handler'[j] = handler[j]
  BY <1>1 DEF End
<1>5. CASE PurchaseCheck(k) \/ RentalCheck(k) \/ ExtensionCheck(k) \/ RentalRevokeCheck(k)
           \/ RemovalFind(k) \/ ShelveCheck(k) \/ WithdrawCheck(k)
  BY <1>2, <1>4, <1>5 DEF PurchaseCheck, RentalCheck, ExtensionCheck, RentalRevokeCheck,
                          RemovalFind, ShelveCheck, WithdrawCheck
<1>6. CASE PurchaseGrant(k) \/ ExtensionGrant(k) \/ ExtensionRevoke(k) \/ Removal(k) \/ Shelve(k) \/ Lost(k)
  BY <1>4, <1>6 DEF PurchaseGrant, ExtensionGrant, ExtensionRevoke, Removal, Shelve, Lost
<1>7. CASE RentalGrant(k) \/ RentalRevoke(k) \/ ReturnRental(k)
  BY <1>3, <1>7 DEF RentalGrant, RentalRevoke, ReturnRental
<1>8. QED
  BY <1>5, <1>6, <1>7 DEF Handle

(***************************************************************************)
(* How a slot changes, and by which action.                                *)
(***************************************************************************)
Goes(k) ==
    /\ handler'[k].does = handler[k].does
    /\ handler'[k].sale = handler[k].sale
    /\ handler'[k].rental = handler[k].rental
    /\ \/ handler'[k].pc = "checked" /\ (PurchaseCheck(k) \/ RentalCheck(k) \/ ExtensionCheck(k) \/ ShelveCheck(k))
       \/ /\ handler'[k].pc = "checked" /\ RentalRevokeCheck(k)
          /\ handler'[k].seen = Len(rentals) \/ "missed" \in saw'
       \/ /\ handler'[k].pc = "checked" /\ RemovalFind(k)
          /\ handler'[k].seen \in OnShelf \/ "old" \in saw'
       \/ handler'[k].pc = "found" /\ WithdrawCheck(k)

Moves(k) ==
    \/ handler'[k] = handler[k]
    \/ handler'[k] = Idle
    \/ \E s \in Sales : /\ PaymentCompleted(s, k) \/ (EventRepeated(s, k) /\ sale[s].stage = "captured")
                        /\ handler'[k].does = "grant" /\ handler'[k].sale = s
                        /\ handler'[k].pc = "start"
    \/ \E s \in Sales : /\ EventRepeated(s, k) /\ "late" \in saw'
                        /\ handler'[k].does = "grant" /\ handler'[k].sale = s
                        /\ handler'[k].pc = "start"
    \/ \E s \in Sales : /\ RefundCompleted(s, k) \/ (EventRepeated(s, k) /\ sale[s].stage = "refunded")
                        /\ handler'[k].does = "revoke" /\ handler'[k].sale = s
                        /\ handler'[k].pc = "start"
    \/ \E r \in DOMAIN rentals : ReturnCheck(r, k) /\ handler'[k].does = "return"
    \/ Goes(k)
    \/ /\ RentalGrant(k)
       /\ handler'[k].does = "shelve" /\ handler'[k].rental = Len(rentals) + 1 /\ handler'[k].pc = "start"
    \/ /\ \/ RentalRevoke(k) /\ handler'[k].rental = handler[k].seen
          \/ ReturnRental(k) /\ handler'[k].rental = handler[k].rental
       /\ handler'[k].does = "withdraw" /\ handler'[k].pc = "start"

LEMMA HandlerMoves ==
    ASSUME TypeOK, Next, NEW k \in Slots
    PROVE  Moves(k)
<1>1. ASSUME UNCHANGED handler
      PROVE  Moves(k)
  BY <1>1 DEF Moves
<1>2. ASSUME NEW s \in Sales, NEW j \in Slots,
             PaymentCompleted(s, j) \/ RefundCompleted(s, j) \/ EventRepeated(s, j)
      PROVE  Moves(j) /\ (j # k => Moves(k))
  <2>1. ASSUME NEW does, Start(j, does, s, 0, "start")
        PROVE  /\ handler'[j].does = does /\ handler'[j].sale = s /\ handler'[j].pc = "start"
               /\ \A i \in Slots \ {j} : handler'[i] = handler[i]
    <3> DEFINE h == [does |-> does, sale |-> s, rental |-> 0, pc |-> "start", seen |-> 0]
    <3>1. handler' = [handler EXCEPT ![j] = h]
      BY <2>1 DEF Start
    <3>2. handler'[j] = h /\ \A i \in Slots \ {j} : handler'[i] = handler[i]
      BY <3>1, SlotSet
    <3>3. QED
      BY <3>2
  <2>2. PaymentCompleted(s, j) => Start(j, "grant", s, 0, "start")
    BY DEF PaymentCompleted
  <2>3. RefundCompleted(s, j) => Start(j, "revoke", s, 0, "start")
    BY DEF RefundCompleted
  <2>4. EventRepeated(s, j) =>
           \/ sale[s].stage = "captured" /\ Start(j, "grant", s, 0, "start")
           \/ sale[s].stage = "refunded" /\ Start(j, "revoke", s, 0, "start")
           \/ "late" \in saw' /\ Start(j, "grant", s, 0, "start")
    BY DEF EventRepeated
  <2>5. Moves(j)
    <3>1. CASE PaymentCompleted(s, j) \/ (EventRepeated(s, j) /\ sale[s].stage = "captured")
      <4>1. Start(j, "grant", s, 0, "start")
        BY <2>2, <3>1 DEF EventRepeated
      <4>2. handler'[j].does = "grant" /\ handler'[j].sale = s /\ handler'[j].pc = "start"
        BY <2>1, <4>1
      <4>3. QED
        BY <3>1, <4>2 DEF Moves
    <3>2. CASE RefundCompleted(s, j) \/ (EventRepeated(s, j) /\ Start(j, "revoke", s, 0, "start"))
      <4>1. Start(j, "revoke", s, 0, "start")
        BY <2>3, <3>2
      <4>2. handler'[j].does = "revoke" /\ handler'[j].sale = s /\ handler'[j].pc = "start"
        BY <2>1, <4>1
      <4>3. EventRepeated(s, j) => sale[s].stage = "refunded"
        <5>1. ASSUME Start(j, "grant", s, 0, "start")
              PROVE  FALSE
          BY <2>1, <4>2, <5>1
        <5>2. QED
          BY <5>1 DEF EventRepeated
      <4>4. QED
        BY <3>2, <4>2, <4>3 DEF Moves
    <3>3. CASE EventRepeated(s, j) /\ "late" \in saw' /\ Start(j, "grant", s, 0, "start")
      <4>1. handler'[j].does = "grant" /\ handler'[j].sale = s /\ handler'[j].pc = "start"
        BY <2>1, <3>3
      <4>2. QED
        BY <3>3, <4>1 DEF Moves
    <3>4. QED
      BY <1>2, <2>4, <3>1, <3>2, <3>3
  <2>6. j # k => Moves(k)
    BY <1>2, <2>1, <2>2, <2>3, <2>4 DEF Moves
  <2>7. QED
    BY <2>5, <2>6
<1>3. ASSUME NEW r \in DOMAIN rentals, NEW j \in Slots, ReturnCheck(r, j)
      PROVE  Moves(j) /\ (j # k => Moves(k))
  <2> DEFINE h == [does |-> "return", sale |-> None, rental |-> r, pc |-> "checked", seen |-> 0]
  <2>1. handler' = [handler EXCEPT ![j] = h]
    BY <1>3 DEF ReturnCheck, Start
  <2>2. handler'[j] = h /\ \A i \in Slots \ {j} : handler'[i] = handler[i]
    BY <2>1, SlotSet
  <2>3. Moves(j)
    BY <1>3, <2>2 DEF Moves
  <2>4. j # k => Moves(k)
    BY <2>2 DEF Moves
  <2>5. QED
    BY <2>3, <2>4
<1>4. ASSUME NEW j \in Slots, Handle(j), j # k
      PROVE  Moves(k)
  BY <1>4, OwnSlot DEF Moves
<1>5. ASSUME End(k)
      PROVE  Moves(k)
  BY <1>5, SlotSet DEF End, Moves
<1>6. ASSUME NEW pc, NEW seen, Goto(k, pc, seen)
      PROVE  /\ handler'[k].does = handler[k].does
             /\ handler'[k].sale = handler[k].sale
             /\ handler'[k].rental = handler[k].rental
             /\ handler'[k].pc = pc /\ handler'[k].seen = seen
  <2> DEFINE h == [does |-> handler[k].does, sale |-> handler[k].sale, rental |-> handler[k].rental,
                   pc |-> pc, seen |-> seen]
  <2>1. handler' = [handler EXCEPT ![k] = h]
    BY <1>6 DEF Goto
  <2>2. handler'[k] = h
    BY <2>1, SlotSet
  <2>3. QED
    BY <2>2
<1>7. CASE PurchaseCheck(k) \/ RentalCheck(k) \/ ShelveCheck(k)
  <2>1. End(k) \/ Goto(k, "checked", 0)
    BY <1>7 DEF PurchaseCheck, RentalCheck, ShelveCheck
  <2>2. QED
    BY <1>5, <1>6, <1>7, <2>1 DEF Moves, Goes
<1>8. CASE ExtensionCheck(k)
  <2>1. End(k) \/ \E seen : Goto(k, "checked", seen)
    BY <1>8 DEF ExtensionCheck
  <2>2. QED
    BY <1>5, <1>6, <1>8, <2>1 DEF Moves, Goes
<1>9. CASE RentalRevokeCheck(k)
  <2>1. End(k) \/ \E r : Goto(k, "checked", r) /\ (r = Len(rentals) \/ "missed" \in saw')
    <3>1. CASE "missed" \in saw'
      BY <1>9, <3>1 DEF RentalRevokeCheck
    <3>2. CASE "missed" \notin saw'
      BY <1>9, <3>2, RentalAnswer
    <3>3. QED
      BY <3>1, <3>2
  <2>2. QED
    BY <1>5, <1>6, <1>9, <2>1 DEF Moves, Goes
<1>10. CASE RemovalFind(k)
  <2>1. End(k) \/ \E i : Goto(k, "checked", i) /\ (i \in OnShelf \/ "old" \in saw')
    <3>1. CASE "old" \in saw'
      BY <1>10, <3>1 DEF RemovalFind
    <3>2. CASE "old" \notin saw'
      BY <1>10, <3>2, ShelfAnswer
    <3>3. QED
      BY <3>1, <3>2
  <2>2. QED
    BY <1>5, <1>6, <1>10, <2>1 DEF Moves, Goes
<1>11. CASE WithdrawCheck(k)
  <2>1. End(k) \/ Goto(k, "found", 0)
    BY <1>11 DEF WithdrawCheck
  <2>2. QED
    BY <1>5, <1>6, <1>11, <2>1 DEF Moves, Goes
<1>12. CASE PurchaseGrant(k) \/ ExtensionGrant(k) \/ ExtensionRevoke(k) \/ Removal(k) \/ Shelve(k) \/ Lost(k)
  BY <1>5, <1>12 DEF PurchaseGrant, ExtensionGrant, ExtensionRevoke, Removal, Shelve, Lost
<1>13. CASE RentalGrant(k)
  BY <1>13, SlotSet DEF RentalGrant, Emit, Moves
<1>14. CASE RentalRevoke(k)
  BY <1>14, SlotSet DEF RentalRevoke, Emit, Moves
<1>15. CASE ReturnRental(k)
  BY <1>15, SlotSet DEF ReturnRental, Emit, Moves
<1>16. CASE \/ \E s \in Sales, kind \in {"purchase", "rental"} : Checkout(s, kind)
            \/ \E s \in Sales, r \in DOMAIN rentals : extendRental(s, r)
            \/ \E i \in DOMAIN library : RemoveFromLibrary(i)
            \/ \E r \in DOMAIN rentals : RentalLapses(r)
  BY <1>1, <1>16 DEF Checkout, extendRental, RemoveFromLibrary, RentalLapses
<1>17. Handle(k) => Moves(k)
  BY <1>7, <1>8, <1>9, <1>10, <1>11, <1>12, <1>13, <1>14, <1>15 DEF Handle
<1>18. QED
  BY <1>2, <1>3, <1>4, <1>16, <1>17 DEF Next, Shop

(***************************************************************************)
(* How a sale changes, and by which action.                                *)
(***************************************************************************)
SaleMoves(s) ==
    \/ sale'[s] = sale[s]
    \/ \E kind \in {"purchase", "rental"} :
          /\ Checkout(s, kind) /\ sale[s].stage = "none"
          /\ sale'[s].kind = kind /\ sale'[s].stage = "open" /\ sale'[s].got = "none"
    \/ /\ \E r \in DOMAIN rentals : extendRental(s, r)
       /\ sale[s].stage = "none" /\ sale'[s].kind = "extension" /\ sale'[s].stage = "open"
    \/ /\ sale'[s].kind = sale[s].kind /\ sale'[s].got = sale[s].got
       /\ \/ /\ \E k \in Slots : PaymentCompleted(s, k)
             /\ sale[s].stage = "open" /\ sale'[s].stage = "captured"
          \/ /\ \E k \in Slots : RefundCompleted(s, k)
             /\ sale[s].stage = "captured" /\ sale'[s].stage = "refunded"
    \/ /\ sale'[s].kind = sale[s].kind /\ sale'[s].stage = sale[s].stage
       /\ \/ sale'[s].got = "granted"
          \/ sale[s].kind = "extension"
          \/ "old" \in saw'
          \/ \E k \in Slots :
                \/ Granting(k, "purchase") /\ OnShelf # {}
                \/ Granting(k, "rental") /\ NewestIsActive

LEMMA EachSaleMoves ==
    ASSUME TypeOK, Next, NEW s \in Sales
    PROVE  SaleMoves(s)
<1>1. ASSUME UNCHANGED sale
      PROVE  SaleMoves(s)
  BY <1>1 DEF SaleMoves
<1>2. ASSUME NEW t \in Sales, NEW kind \in {"purchase", "rental"}, Checkout(t, kind)
      PROVE  SaleMoves(s)
  <2>1. /\ sale[t].stage = "none"
        /\ sale'[t].kind = kind /\ sale'[t].stage = "open" /\ sale'[t].got = "none"
        /\ \A u \in Sales \ {t} : sale'[u] = sale[u]
    BY <1>2 DEF Checkout, TypeOK
  <2>2. QED
    BY <1>2, <2>1 DEF SaleMoves
<1>3. ASSUME NEW t \in Sales, NEW r \in DOMAIN rentals, extendRental(t, r)
      PROVE  SaleMoves(s)
  <2>1. /\ sale[t].stage = "none"
        /\ sale'[t].kind = "extension" /\ sale'[t].stage = "open"
        /\ \A u \in Sales \ {t} : sale'[u] = sale[u]
    BY <1>3 DEF extendRental, TypeOK
  <2>2. QED
    BY <1>3, <2>1 DEF SaleMoves
<1>4. ASSUME NEW t \in Sales, NEW k \in Slots, PaymentCompleted(t, k)
      PROVE  SaleMoves(s)
  <2>1. sale[t].stage = "open" /\ Stage(t, "captured")
    BY <1>4 DEF PaymentCompleted
  <2>2. QED
    BY <1>4, <2>1, StageSet DEF SaleMoves
<1>5. ASSUME NEW t \in Sales, NEW k \in Slots, RefundCompleted(t, k)
      PROVE  SaleMoves(s)
  <2>1. sale[t].stage = "captured" /\ Stage(t, "refunded")
    BY <1>5 DEF RefundCompleted
  <2>2. QED
    BY <1>5, <2>1, StageSet DEF SaleMoves
<1>6. ASSUME NEW k \in Slots, PurchaseCheck(k) \/ RentalCheck(k) \/ ExtensionCheck(k)
      PROVE  SaleMoves(s)
  <2>1. handler[k].does = "grant" /\ handler[k].sale \in Sales
    BY <1>6 DEF PurchaseCheck, RentalCheck, ExtensionCheck, At, TypeOK
  <2>2. PICK t \in Sales : t = handler[k].sale
    BY <2>1
  <2>3. \/ UNCHANGED sale
        \/ /\ Got(t, "refused")
           /\ \/ sale[t].kind = "extension"
              \/ "old" \in saw'
              \/ Granting(k, "purchase") /\ OnShelf # {}
              \/ Granting(k, "rental") /\ NewestIsActive
    <3>1. UNCHANGED sale \/ Got(t, "refused")
      BY <1>6, <2>2 DEF PurchaseCheck, RentalCheck, ExtensionCheck
    <3>2. /\ PurchaseCheck(k) => Granting(k, "purchase")
          /\ RentalCheck(k) => Granting(k, "rental")
          /\ ExtensionCheck(k) => sale[t].kind = "extension"
      BY <2>2 DEF PurchaseCheck, RentalCheck, ExtensionCheck, At, Granting
    <3>3. QED
      BY <1>6, <3>1, <3>2, ShelfAnswer, RentalAnswer
  <2>4. QED
    BY <1>1, <2>3, GotSet DEF SaleMoves
<1>7. ASSUME NEW k \in Slots, PurchaseGrant(k) \/ RentalGrant(k) \/ ExtensionGrant(k)
      PROVE  SaleMoves(s)
  <2>1. handler[k].does = "grant" /\ handler[k].sale \in Sales /\ Got(handler[k].sale, "granted")
    BY <1>7 DEF PurchaseGrant, RentalGrant, ExtensionGrant, At, TypeOK
  <2>2. QED
    BY <2>1, GotSet DEF SaleMoves
<1>8. CASE \/ \E t \in Sales, k \in Slots : EventRepeated(t, k)
           \/ \E i \in DOMAIN library : RemoveFromLibrary(i)
           \/ \E r \in DOMAIN rentals : RentalLapses(r) \/ \E k \in Slots : ReturnCheck(r, k)
  BY <1>1, <1>8 DEF EventRepeated, RemoveFromLibrary, RentalLapses, ReturnCheck
<1>9. ASSUME NEW k \in Slots,
             \/ RentalRevokeCheck(k) \/ RentalRevoke(k) \/ ExtensionRevoke(k)
             \/ RemovalFind(k) \/ Removal(k) \/ ShelveCheck(k) \/ Shelve(k)
             \/ WithdrawCheck(k) \/ ReturnRental(k) \/ Lost(k)
      PROVE  SaleMoves(s)
  BY <1>1, <1>9 DEF RentalRevokeCheck, RentalRevoke, ExtensionRevoke, RemovalFind, Removal,
                    ShelveCheck, Shelve, WithdrawCheck, ReturnRental, Lost
<1>10. QED
  BY <1>2, <1>3, <1>4, <1>5, <1>6, <1>7, <1>8, <1>9 DEF Next, Shop, Handle

(***************************************************************************)
(* No rental becomes active again; only the grant of a rental adds one.    *)
(***************************************************************************)
RentalsOnlyEnd ==
    /\ Len(rentals') = Len(rentals)
    /\ \A r \in 1..Len(rentals) : rentals'[r].status = "active" => rentals[r].status = "active"
    /\ NewestIsActive' => NewestIsActive

LEMMA RentalAdded ==
    ASSUME TypeOK, NEW k, RentalGrant(k)
    PROVE  /\ Len(rentals') = Len(rentals) + 1
           /\ \A r \in 1..Len(rentals) : rentals'[r] = rentals[r]
<1> DEFINE row == [status |-> "active", over |-> FALSE, extended |-> 0]
<1>1. rentals \in Seq(RentalRow) /\ row \in RentalRow
  BY DEF TypeOK, RentalRow
<1>2. rentals' = Append(rentals, row)
  BY DEF RentalGrant
<1> HIDE DEF row
<1>3. QED
  BY <1>1, <1>2, AppendProperties

LEMMA RentalsEnd ==
    ASSUME IInv, Next, \A k \in Slots : ~ RentalGrant(k)
    PROVE  RentalsOnlyEnd
<1>0. /\ rentals \in Seq(RentalRow) /\ Len(rentals) \in Nat
      /\ DOMAIN rentals = 1..Len(rentals)
      /\ \A r \in 1..Len(rentals) : rentals[r] \in RentalRow
  BY LenProperties, ElementOfSeq DEF IInv, TypeOK
<1>1. ASSUME UNCHANGED rentals
      PROVE  RentalsOnlyEnd
  BY <1>1 DEF RentalsOnlyEnd, NewestIsActive
<1>2. ASSUME NEW r \in 1..Len(rentals), NEW row, rentals' = [rentals EXCEPT ![r] = row],
             row.status = "active" => rentals[r].status = "active"
      PROVE  RentalsOnlyEnd
  <2>1. DOMAIN rentals' = 1..Len(rentals) /\ \A q \in 1..Len(rentals) : rentals'[q] = IF q = r THEN row ELSE rentals[q]
    BY <1>0, <1>2
  <2>2. Len(rentals') = Len(rentals)
    <3>1. rentals' \in Seq(RentalRow)
      BY RentalsStep DEF RentalsGrow
    <3>2. Len(rentals') \in Nat /\ DOMAIN rentals' = 1..Len(rentals')
      BY <3>1, LenProperties
    <3>3. QED
      BY <1>0, <2>1, <3>2
  <2>3. rentals # <<>>
    BY <1>0, EmptySeq
  <2>4. \A q \in 1..Len(rentals) : rentals'[q].status = "active" => rentals[q].status = "active"
    BY <1>2, <2>1
  <2>5. Len(rentals) \in 1..Len(rentals)
    BY <1>0
  <2>6. QED
    BY <2>2, <2>3, <2>4, <2>5 DEF RentalsOnlyEnd, NewestIsActive
<1>3. ASSUME NEW k \in Slots, ExtensionGrant(k)
      PROVE  RentalsOnlyEnd
  <2> DEFINE r == sale[handler[k].sale].rental
  <2>1. r \in 1..Len(rentals)
    BY <1>3 DEF ExtensionGrant, At, IInv, TypeOK, ExtendsARental
  <2>2. PICK over \in BOOLEAN :
           rentals' = [rentals EXCEPT ![r] =
              [status |-> rentals[r].status, over |-> over, extended |-> handler[k].seen + 1]]
    BY <1>3 DEF ExtensionGrant
  <2> HIDE DEF r
  <2>3. QED
    BY <1>2, <2>1, <2>2
<1>4. ASSUME NEW r \in 1..Len(rentals), NEW status \in {"expired", "returned"},
             rentals' = [rentals EXCEPT ![r] = Ended(@, status)]
      PROVE  RentalsOnlyEnd
  <2>1. Ended(rentals[r], status).status # "active"
    BY DEF Ended
  <2>2. QED
    BY <1>2, <1>4, <2>1
<1>5. ASSUME NEW k \in Slots, RentalRevoke(k)
      PROVE  RentalsOnlyEnd
  <2>1. handler[k].seen \in 1..Len(rentals)
    BY <1>5 DEF RentalRevoke, IInv, Backed
  <2>2. QED
    BY <1>4, <1>5, <2>1 DEF RentalRevoke
<1>6. ASSUME NEW k \in Slots, ReturnRental(k)
      PROVE  RentalsOnlyEnd
  <2>1. handler[k].rental \in 1..Len(rentals)
    BY <1>6 DEF ReturnRental, IInv, TypeOK
  <2>2. QED
    BY <1>4, <1>6, <2>1 DEF ReturnRental
<1>7. ASSUME NEW r \in DOMAIN rentals, RentalLapses(r)
      PROVE  RentalsOnlyEnd
  <2>1. rentals' = [rentals EXCEPT ![r] =
           [status |-> rentals[r].status, over |-> TRUE, extended |-> rentals[r].extended]]
    BY <1>7 DEF RentalLapses
  <2>2. QED
    BY <1>0, <1>2, <2>1
<1>8. CASE \/ \E s \in Sales, kind \in {"purchase", "rental"} : Checkout(s, kind)
           \/ \E s \in Sales, r \in DOMAIN rentals : extendRental(s, r)
           \/ \E s \in Sales, k \in Slots : PaymentCompleted(s, k) \/ RefundCompleted(s, k) \/ EventRepeated(s, k)
           \/ \E i \in DOMAIN library : RemoveFromLibrary(i)
           \/ \E r \in DOMAIN rentals, k \in Slots : ReturnCheck(r, k)
  BY <1>1, <1>8 DEF Checkout, extendRental, PaymentCompleted, RefundCompleted, EventRepeated,
                    RemoveFromLibrary, ReturnCheck
<1>9. ASSUME NEW k \in Slots,
             \/ PurchaseCheck(k) \/ PurchaseGrant(k) \/ RentalCheck(k) \/ ExtensionCheck(k)
             \/ RentalRevokeCheck(k) \/ ExtensionRevoke(k) \/ RemovalFind(k) \/ Removal(k)
             \/ ShelveCheck(k) \/ Shelve(k) \/ WithdrawCheck(k) \/ Lost(k)
      PROVE  RentalsOnlyEnd
  BY <1>1, <1>9 DEF PurchaseCheck, PurchaseGrant, RentalCheck, ExtensionCheck, RentalRevokeCheck,
                    ExtensionRevoke, RemovalFind, Removal, ShelveCheck, Shelve, WithdrawCheck, Lost
<1>10. QED
  BY <1>3, <1>5, <1>6, <1>7, <1>8, <1>9 DEF Next, Shop, Handle

(***************************************************************************)
(* Only the grant of a purchase and the listener of a new rental put a row *)
(* on the shelf.                                                           *)
(***************************************************************************)
ShelfOnlyShrinks ==
    /\ Len(library') = Len(library)
    /\ OnShelf' \subseteq OnShelf
    /\ \A i \in OnShelf : library'[i].rental = library[i].rental

LEMMA RowAdded ==
    ASSUME TypeOK, NEW row \in LibraryRow, row.kept = TRUE, library' = Append(library, row)
    PROVE  \E new : /\ OnShelf' = OnShelf \cup {new} /\ new \notin OnShelf
                    /\ library'[new].rental = row.rental
                    /\ \A i \in OnShelf : library'[i].rental = library[i].rental
<1>1. library \in Seq(LibraryRow) /\ Len(library) \in Nat /\ DOMAIN library = 1..Len(library)
  BY LenProperties DEF TypeOK
<1>2. /\ library' \in Seq(LibraryRow)
      /\ Len(library') = Len(library) + 1
      /\ \A j \in 1..Len(library) : library'[j] = library[j]
      /\ library'[Len(library) + 1] = row
  BY <1>1, AppendProperties
<1>3. DOMAIN library' = 1..(Len(library) + 1)
  BY <1>2, LenProperties
<1>4. DOMAIN library' = (DOMAIN library) \cup {Len(library) + 1}
  BY <1>1, <1>3
<1>5. Len(library) + 1 \notin DOMAIN library
  BY <1>1
<1>6. QED
  BY <1>1, <1>2, <1>4, <1>5 DEF OnShelf

LEMMA RowRemoved ==
    ASSUME IInv, NEW i \in 1..Len(library), library' = [library EXCEPT ![i] = Removed(@)]
    PROVE  /\ ShelfOnlyShrinks
           /\ OnShelf' = OnShelf \ {i}
<1>0. library \in Seq(LibraryRow) /\ DOMAIN library = 1..Len(library) /\ Len(library) \in Nat
  BY LenProperties DEF IInv, TypeOK
<1>1. Removed(library[i]) \in LibraryRow /\ Removed(library[i]).rental = library[i].rental
      /\ Removed(library[i]).kept = FALSE
  <2>1. library[i] \in LibraryRow
    BY <1>0, ElementOfSeq
  <2>2. QED
    BY <2>1 DEF Removed, LibraryRow
<1>2. /\ library' \in Seq(LibraryRow)
      /\ Len(library') = Len(library)
      /\ \A j \in 1..Len(library) : library'[j] = IF j = i THEN Removed(library[i]) ELSE library[j]
  BY <1>0, <1>1, ExceptSeq
<1>3. DOMAIN library' = DOMAIN library
  BY <1>0
<1>4. QED
  BY <1>0, <1>1, <1>2, <1>3 DEF ShelfOnlyShrinks, OnShelf

LEMMA ShelfShrinks ==
    ASSUME IInv, Next, \A k \in Slots : ~ PurchaseGrant(k) /\ ~ Shelve(k)
    PROVE  ShelfOnlyShrinks
<1>1. ASSUME UNCHANGED library
      PROVE  ShelfOnlyShrinks
  BY <1>1 DEF ShelfOnlyShrinks, OnShelf
<1>2. ASSUME NEW k \in Slots, Removal(k)
      PROVE  ShelfOnlyShrinks
  <2>1. handler[k].seen \in 1..Len(library)
    BY <1>2 DEF Removal, IInv, Backed
  <2>2. QED
    BY <1>2, <2>1, RowRemoved DEF Removal
<1>3. ASSUME NEW i \in DOMAIN library, RemoveFromLibrary(i)
      PROVE  ShelfOnlyShrinks
  <2>1. i \in 1..Len(library)
    BY LenProperties DEF IInv, TypeOK
  <2>2. QED
    BY <1>3, <2>1, RowRemoved DEF RemoveFromLibrary
<1>4. CASE \/ \E s \in Sales, kind \in {"purchase", "rental"} : Checkout(s, kind)
           \/ \E s \in Sales, r \in DOMAIN rentals : extendRental(s, r)
           \/ \E s \in Sales, k \in Slots : PaymentCompleted(s, k) \/ RefundCompleted(s, k) \/ EventRepeated(s, k)
           \/ \E r \in DOMAIN rentals : RentalLapses(r) \/ \E k \in Slots : ReturnCheck(r, k)
  BY <1>1, <1>4 DEF Checkout, extendRental, PaymentCompleted, RefundCompleted, EventRepeated,
                    RentalLapses, ReturnCheck
<1>5. ASSUME NEW k \in Slots,
             \/ PurchaseCheck(k) \/ RentalCheck(k) \/ RentalGrant(k) \/ ExtensionCheck(k)
             \/ ExtensionGrant(k) \/ RentalRevokeCheck(k) \/ RentalRevoke(k) \/ ExtensionRevoke(k)
             \/ RemovalFind(k) \/ ShelveCheck(k) \/ WithdrawCheck(k) \/ ReturnRental(k) \/ Lost(k)
      PROVE  ShelfOnlyShrinks
  BY <1>1, <1>5 DEF PurchaseCheck, RentalCheck, RentalGrant, ExtensionCheck, ExtensionGrant,
                    RentalRevokeCheck, RentalRevoke, ExtensionRevoke, RemovalFind, ShelveCheck,
                    WithdrawCheck, ReturnRental, Lost
<1>6. QED
  BY <1>2, <1>3, <1>4, <1>5 DEF Next, Shop, Handle

(***************************************************************************)
(* The history only grows, an overtaking is an overlap, a late payment a   *)
(* repeated event, and a rental missed by its refund an old answer.        *)
(***************************************************************************)
Implied(odd, by) == odd \in saw' => odd \in saw \/ by \in saw'

LEMMA SawGrows ==
    ASSUME Next
    PROVE  /\ saw \subseteq saw'
           /\ Implied("overtaken", "overlap") /\ Implied("late", "repeat") /\ Implied("missed", "old")
<1> DEFINE Goal == /\ saw \subseteq saw'
                   /\ Implied("overtaken", "overlap") /\ Implied("late", "repeat") /\ Implied("missed", "old")
<1>1. ASSUME NEW X \in SUBSET {"rival", "removed", "loss"}, saw' = saw \cup X
      PROVE  Goal
  BY <1>1 DEF Implied
<1>2. ASSUME NEW does, NEW X \in {{}, {"repeat"}, {"repeat", "late"}}, saw' = saw \cup Overlaps(does) \cup X
      PROVE  Goal
  BY <1>2 DEF Overlaps, Implied
<1>3. ASSUME UNCHANGED saw
      PROVE  Goal
  BY <1>3 DEF Implied
<1>4. ASSUME NEW old \in BOOLEAN, NEW odd, Reading(old, odd),
             \/ odd \in {{}, {"rival"}}
             \/ odd = {"missed"} /\ old
             \/ odd = Overlaps("return")
      PROVE  Goal
  BY <1>4 DEF Reading, Overlaps, Implied
<1>5. ASSUME NEW i, NEW odd \in {{}, {"rival"}}, ReadShelf(i, odd)
      PROVE  Goal
  BY <1>4, <1>5 DEF ReadShelf
<1>6. ASSUME NEW r, NEW odd, ReadRental(r, odd), odd = {} \/ (odd = {"missed"} /\ r # RentalNow)
      PROVE  Goal
  BY <1>4, <1>6 DEF ReadRental
<1> HIDE DEF Goal
<1>7. ASSUME NEW s \in Sales, NEW kind \in {"purchase", "rental"}, Checkout(s, kind)
      PROVE  Goal
  BY <1>5, <1>7 DEF Checkout
<1>8. ASSUME NEW s \in Sales, NEW k \in Slots, PaymentCompleted(s, k) \/ RefundCompleted(s, k)
      PROVE  Goal
  <2>1. \E does : saw' = saw \cup Overlaps(does) \cup {}
    BY <1>8 DEF PaymentCompleted, RefundCompleted
  <2>2. QED
    BY <1>2, <2>1
<1>9. ASSUME NEW s \in Sales, NEW k \in Slots, EventRepeated(s, k)
      PROVE  Goal
  <2>1. \E does : \/ saw' = saw \cup Overlaps(does) \cup {"repeat"}
                  \/ saw' = saw \cup Overlaps(does) \cup {"repeat", "late"}
    BY <1>9 DEF EventRepeated
  <2>2. QED
    BY <1>2, <2>1
<1>10. ASSUME NEW r \in DOMAIN rentals, NEW k \in Slots, ReturnCheck(r, k)
       PROVE  Goal
  BY <1>4, <1>10 DEF ReturnCheck
<1>11. ASSUME NEW i, RemoveFromLibrary(i)
       PROVE  Goal
  BY <1>1, <1>11 DEF RemoveFromLibrary
<1>12. ASSUME NEW k \in Slots, Lost(k)
       PROVE  Goal
  BY <1>1, <1>12 DEF Lost
<1>13. ASSUME NEW s \in Sales, NEW r \in DOMAIN rentals, extendRental(s, r)
       PROVE  Goal
  BY <1>4, <1>13 DEF extendRental
<1>14. ASSUME NEW r, RentalLapses(r)
       PROVE  Goal
  BY <1>3, <1>14 DEF RentalLapses
<1>15. ASSUME NEW k \in Slots, PurchaseCheck(k) \/ RemovalFind(k) \/ ShelveCheck(k)
       PROVE  Goal
  BY <1>5, <1>15 DEF PurchaseCheck, RemovalFind, ShelveCheck
<1>16. ASSUME NEW k \in Slots, RentalCheck(k)
       PROVE  Goal
  BY <1>6, <1>16 DEF RentalCheck
<1>17. ASSUME NEW k \in Slots, RentalRevokeCheck(k)
       PROVE  Goal
  <2>1. PICK r : ReadRental(r, IF r = RentalNow THEN {} ELSE {"missed"})
    BY <1>17 DEF RentalRevokeCheck
  <2>2. QED
    BY <1>6, <2>1
<1>18. ASSUME NEW k \in Slots, ExtensionCheck(k) \/ WithdrawCheck(k)
       PROVE  Goal
  BY <1>4, <1>18 DEF ExtensionCheck, WithdrawCheck
<1>19. ASSUME NEW k \in Slots,
              \/ PurchaseGrant(k) \/ RentalGrant(k) \/ ExtensionGrant(k) \/ RentalRevoke(k)
              \/ ExtensionRevoke(k) \/ Removal(k) \/ Shelve(k) \/ ReturnRental(k)
       PROVE  Goal
  BY <1>3, <1>19 DEF PurchaseGrant, RentalGrant, ExtensionGrant, RentalRevoke, ExtensionRevoke,
                     Removal, Shelve, ReturnRental
<1>20. ASSUME NEW k \in Slots, Handle(k)
       PROVE  Goal
  BY <1>12, <1>15, <1>16, <1>17, <1>18, <1>19, <1>20 DEF Handle
<1>21. Goal
  BY <1>7, <1>8, <1>9, <1>10, <1>11, <1>13, <1>14, <1>20 DEF Next, Shop
<1>22. QED
  BY <1>21 DEF Goal

\* A payment that is handled while a refund is, and the other way round, is noted.
LEMMA OvertakingIsNoted ==
    ASSUME NEW s \in Sales, NEW k \in Slots, NEW j \in Slots,
           \/ /\ PaymentCompleted(s, k) \/ (EventRepeated(s, k) /\ sale[s].stage = "captured")
              /\ handler[j].does = "revoke"
           \/ /\ RefundCompleted(s, k) \/ (EventRepeated(s, k) /\ sale[s].stage = "refunded")
              /\ handler[j].does = "grant"
    PROVE  "overtaken" \in saw' \/ "late" \in saw'
<1>1. ASSUME handler[j].does = "revoke"
      PROVE  "overtaken" \in Overlaps("grant")
  BY <1>1 DEF Overlaps, Busy
<1>2. ASSUME handler[j].does = "grant"
      PROVE  "overtaken" \in Overlaps("revoke")
  BY <1>2 DEF Overlaps, Busy
<1>3. /\ PaymentCompleted(s, k) => Overlaps("grant") \subseteq saw'
      /\ RefundCompleted(s, k) => Overlaps("revoke") \subseteq saw'
  BY DEF PaymentCompleted, RefundCompleted
<1>4. /\ EventRepeated(s, k) /\ sale[s].stage = "captured" => Overlaps("grant") \subseteq saw'
      /\ EventRepeated(s, k) /\ sale[s].stage = "refunded" =>
            Overlaps("revoke") \subseteq saw' \/ "late" \in saw'
  BY DEF EventRepeated
<1>5. QED
  BY <1>1, <1>2, <1>3, <1>4

LEMMA InTurnStep == IInv /\ InTurn /\ Next => InTurn'
<1> SUFFICES ASSUME IInv, InTurn, Next, saw' \cap {"overtaken", "late"} = {}
             PROVE  InTurn'
  BY DEF InTurn
<1>1. TypeOK /\ saw \cap {"overtaken", "late"} = {}
  BY SawGrows DEF IInv
<1>2. \A s \in Sales, k, j \in Slots :
         /\ PaymentCompleted(s, k) \/ (EventRepeated(s, k) /\ sale[s].stage = "captured")
               => handler[j].does # "revoke"
         /\ RefundCompleted(s, k) \/ (EventRepeated(s, k) /\ sale[s].stage = "refunded")
               => handler[j].does # "grant"
  BY OvertakingIsNoted
<1>3. \A k \in Slots : handler'[k].does = "grant" =>
         \/ handler[k].does = "grant" /\ handler'[k].sale = handler[k].sale
         \/ \E s \in Sales : /\ PaymentCompleted(s, k) \/ (EventRepeated(s, k) /\ sale[s].stage = "captured")
                             /\ handler'[k].sale = s
  BY <1>1, HandlerMoves DEF Moves, Goes, Idle
<1>4. \A k \in Slots : handler'[k].does = "revoke" =>
         \/ handler[k].does = "revoke"
         \/ \E s \in Sales : RefundCompleted(s, k) \/ (EventRepeated(s, k) /\ sale[s].stage = "refunded")
  BY <1>1, HandlerMoves DEF Moves, Goes, Idle
<1>5. ASSUME NEW s \in Sales, NEW k \in Slots,
             PaymentCompleted(s, k) \/ RefundCompleted(s, k) \/ EventRepeated(s, k),
             NEW j \in Slots \ {k}
      PROVE  handler'[j] = handler[j]
  <2>1. PICK h : handler' = [handler EXCEPT ![k] = h]
    BY <1>5 DEF PaymentCompleted, RefundCompleted, EventRepeated, Start
  <2>2. QED
    BY <1>1, <2>1, SlotSet
<1>6. ASSUME NEW j \in Slots, NEW k \in Slots, handler'[j].does = "grant", handler'[k].does = "revoke"
      PROVE  FALSE
  BY <1>1, <1>2, <1>3, <1>4, <1>5, <1>6 DEF InTurn
<1>7. ASSUME NEW k \in Slots, handler'[k].does = "grant"
      PROVE  sale'[handler'[k].sale].stage = "captured"
  <2>1. CASE handler[k].does = "grant" /\ handler'[k].sale = handler[k].sale
    <3>1. PICK s \in Sales : s = handler[k].sale
      BY <1>1, <2>1 DEF TypeOK
    <3>2. sale[s].stage = "captured"
      BY <1>1, <2>1, <3>1 DEF InTurn
    <3>3. \A j \in Slots : ~ RefundCompleted(s, j)
      BY <1>2, <2>1
    <3>4. sale'[s].stage = "captured"
      BY <1>1, <3>2, <3>3, EachSaleMoves DEF SaleMoves
    <3>5. QED
      BY <2>1, <3>1, <3>4
  <2>2. ASSUME NEW s \in Sales, PaymentCompleted(s, k), handler'[k].sale = s
        PROVE  sale'[handler'[k].sale].stage = "captured"
    BY <1>1, <2>2, StageSet DEF PaymentCompleted
  <2>3. ASSUME NEW s \in Sales, EventRepeated(s, k), sale[s].stage = "captured", handler'[k].sale = s
        PROVE  sale'[handler'[k].sale].stage = "captured"
    BY <2>3 DEF EventRepeated
  <2>4. QED
    BY <1>3, <1>7, <2>1, <2>2, <2>3
<1>8. QED
  BY <1>6, <1>7 DEF InTurn

\* A handler in progress is moved by its own action only.
LEMMA OwnMove ==
    ASSUME TypeOK, Next, NEW k \in Slots, handler[k].does # "nothing", handler'[k] # handler[k]
    PROVE  Handle(k)
<1>1. \A j \in Slots \ {k} : ~ Handle(j)
  BY OwnSlot
<1>2. \A s, j : ~ (PaymentCompleted(s, j) /\ j \in Slots)
  <2> SUFFICES ASSUME NEW s, NEW j \in Slots, PaymentCompleted(s, j)
               PROVE  FALSE
    OBVIOUS
  <2>1. handler[j] = Idle /\ \E h : handler' = [handler EXCEPT ![j] = h]
    BY DEF PaymentCompleted, Start
  <2>2. QED
    BY <2>1, SlotSet DEF Idle
<1>3. \A s, j : ~ (RefundCompleted(s, j) /\ j \in Slots)
  <2> SUFFICES ASSUME NEW s, NEW j \in Slots, RefundCompleted(s, j)
               PROVE  FALSE
    OBVIOUS
  <2>1. handler[j] = Idle /\ \E h : handler' = [handler EXCEPT ![j] = h]
    BY DEF RefundCompleted, Start
  <2>2. QED
    BY <2>1, SlotSet DEF Idle
<1>4. \A s, j : ~ (EventRepeated(s, j) /\ j \in Slots)
  <2> SUFFICES ASSUME NEW s, NEW j \in Slots, EventRepeated(s, j)
               PROVE  FALSE
    OBVIOUS
  <2>1. handler[j] = Idle /\ \E h : handler' = [handler EXCEPT ![j] = h]
    BY DEF EventRepeated, Start
  <2>2. QED
    BY <2>1, SlotSet DEF Idle
<1>5. \A r, j : ~ (ReturnCheck(r, j) /\ j \in Slots)
  <2> SUFFICES ASSUME NEW r, NEW j \in Slots, ReturnCheck(r, j)
               PROVE  FALSE
    OBVIOUS
  <2>1. handler[j] = Idle /\ \E h : handler' = [handler EXCEPT ![j] = h]
    BY DEF ReturnCheck, Start
  <2>2. QED
    BY <2>1, SlotSet DEF Idle
<1>6. \A s, x : ~ Checkout(s, x) /\ ~ extendRental(s, x) /\ ~ RemoveFromLibrary(x) /\ ~ RentalLapses(x)
  BY DEF Checkout, extendRental, RemoveFromLibrary, RentalLapses
<1>7. ~ Shop
  BY <1>2, <1>3, <1>4, <1>5, <1>6 DEF Shop
<1>8. QED
  BY <1>1, <1>7 DEF Next

LEMMA FollowingStep == IInv /\ Following /\ Next => Following'
<1> SUFFICES ASSUME IInv, Following, Next
             PROVE  Following'
  OBVIOUS
<1>1. TypeOK
  BY DEF IInv
<1>2. ASSUME NEW k \in Slots, handler'[k].does = "revoke"
      PROVE  sale'[handler'[k].sale].stage = "refunded"
  <2>1. CASE handler[k].does = "revoke" /\ handler'[k].sale = handler[k].sale
    <3>1. PICK s \in Sales : s = handler[k].sale
      BY <1>1, <2>1 DEF TypeOK
    <3>2. sale[s].stage = "refunded"
      BY <2>1, <3>1 DEF Following
    <3>3. sale'[s].stage = "refunded"
      BY <1>1, <3>2, EachSaleMoves DEF SaleMoves
    <3>4. QED
      BY <2>1, <3>1, <3>3
  <2>2. ASSUME NEW s \in Sales, RefundCompleted(s, k), handler'[k].sale = s
        PROVE  sale'[handler'[k].sale].stage = "refunded"
    BY <1>1, <2>2, StageSet DEF RefundCompleted
  <2>3. ASSUME NEW s \in Sales, EventRepeated(s, k), sale[s].stage = "refunded", handler'[k].sale = s
        PROVE  sale'[handler'[k].sale].stage = "refunded"
    BY <2>3 DEF EventRepeated
  <2>4. \/ handler[k].does = "revoke" /\ handler'[k].sale = handler[k].sale
        \/ \E s \in Sales : /\ RefundCompleted(s, k) \/ (EventRepeated(s, k) /\ sale[s].stage = "refunded")
                            /\ handler'[k].sale = s
    BY <1>1, <1>2, HandlerMoves DEF Moves, Goes, Idle
  <2>5. QED
    BY <2>1, <2>2, <2>3, <2>4
<1>3. ASSUME NEW r \in 1..Len(rentals), rentals[r].status # "active"
      PROVE  rentals'[r].status # "active"
  <2>1. CASE \E k \in Slots : RentalGrant(k)
    BY <1>1, <1>3, <2>1, RentalAdded
  <2>2. CASE \A k \in Slots : ~ RentalGrant(k)
    BY <1>3, <2>2, RentalsEnd DEF RentalsOnlyEnd
  <2>3. QED
    BY <2>1, <2>2
<1>4. ASSUME NEW k \in Slots, handler'[k].does = "withdraw"
      PROVE  rentals'[handler'[k].rental].status # "active"
  <2>1. CASE handler[k].does = "withdraw" /\ handler'[k].rental = handler[k].rental
    BY <1>1, <1>3, <2>1 DEF Following, TypeOK
  <2>2. ASSUME NEW r \in 1..Len(rentals), NEW status \in {"expired", "returned"},
               rentals' = [rentals EXCEPT ![r] = Ended(@, status)]
        PROVE  rentals'[r].status # "active"
    <3>1. DOMAIN rentals = 1..Len(rentals)
      BY <1>1, LenProperties DEF TypeOK
    <3>2. rentals'[r] = Ended(rentals[r], status)
      BY <2>2, <3>1
    <3>3. QED
      BY <3>2 DEF Ended
  <2>3. CASE RentalRevoke(k) /\ handler'[k].rental = handler[k].seen
    <3>1. handler[k].seen \in 1..Len(rentals)
      BY <2>3 DEF RentalRevoke, IInv, Backed
    <3>2. QED
      BY <2>2, <2>3, <3>1 DEF RentalRevoke
  <2>4. CASE ReturnRental(k) /\ handler'[k].rental = handler[k].rental
    <3>1. handler[k].rental \in 1..Len(rentals)
      BY <1>1, <2>4 DEF ReturnRental, TypeOK
    <3>2. QED
      BY <2>2, <2>4, <3>1 DEF ReturnRental
  <2>5. QED
    BY <1>1, <1>4, <2>1, <2>3, <2>4, HandlerMoves DEF Moves, Goes, Idle
<1>5. QED
  BY <1>2, <1>4, SawGrows DEF Following, Implied

-----------------------------------------------------------------------------
\* What the handler of a rental's refund does next.
LEMMA RentalRefundMoves ==
    ASSUME NEW k \in Slots, Handle(k), handler[k].does = "revoke", sale[handler[k].sale].kind = "rental"
    PROVE  \/ Lost(k)
           \/ handler[k].pc = "start" /\ RentalRevokeCheck(k)
           \/ handler[k].pc = "checked" /\ RentalRevoke(k)
<1>1. ~ (PurchaseCheck(k) \/ PurchaseGrant(k) \/ RentalCheck(k) \/ RentalGrant(k)
         \/ ExtensionCheck(k) \/ ExtensionGrant(k))
  BY DEF PurchaseCheck, PurchaseGrant, RentalCheck, RentalGrant, ExtensionCheck, ExtensionGrant, At
<1>2. ~ (ExtensionRevoke(k) \/ RemovalFind(k) \/ Removal(k) \/ ShelveCheck(k) \/ Shelve(k)
         \/ WithdrawCheck(k) \/ ReturnRental(k))
  BY DEF ExtensionRevoke, RemovalFind, Removal, ShelveCheck, Shelve, WithdrawCheck, ReturnRental,
         Removing, At
<1>3. RentalRevokeCheck(k) => handler[k].pc = "start"
  BY DEF RentalRevokeCheck, At
<1>4. RentalRevoke(k) => handler[k].pc = "checked"
  BY DEF RentalRevoke, At
<1>5. QED
  BY <1>1, <1>2, <1>3, <1>4 DEF Handle

LEMMA BackingStep == IInv /\ InTurn /\ Backing /\ Next => Backing'
<1> SUFFICES ASSUME IInv, InTurn, Backing, Next, saw' \cap {"overtaken", "late", "loss", "missed"} = {}
             PROVE  Backing'
  BY DEF Backing
<1>1. TypeOK /\ saw \cap {"overtaken", "late", "loss", "missed"} = {}
  BY SawGrows DEF IInv
<1>2. \A k \in Slots : ~ Lost(k)
  BY DEF Lost
<1>3. ASSUME NEW k \in Slots, handler[k].does \in {"grant", "revoke"}
      PROVE  handler[k].sale \in Sales /\ sale'[handler[k].sale].kind = sale[handler[k].sale].kind
  BY <1>1, <1>3, SalesStep DEF TypeOK, SalesGrow, IInv, Backed
<1>4. ASSUME NEW k \in Slots, handler[k].does = "revoke"
      PROVE  RentalsOnlyEnd
  <2>1. \A j \in Slots : handler[j].does # "grant"
    BY <1>1, <1>4 DEF InTurn
  <2>2. \A j \in Slots : ~ RentalGrant(j)
    BY <2>1 DEF RentalGrant, At
  <2>3. QED
    BY <2>2, RentalsEnd
<1>5. ASSUME NEW k \in Slots, At(k, "revoke", "rental", "checked")'
      PROVE  handler'[k].seen = Len(rentals')
  <2>1. handler'[k].does = "revoke" /\ handler'[k].pc = "checked" /\ sale'[handler'[k].sale].kind = "rental"
    BY <1>5 DEF At
  <2>2. CASE handler'[k] = handler[k]
    <3>1. At(k, "revoke", "rental", "checked")
      BY <1>3, <2>1, <2>2 DEF At
    <3>2. handler[k].seen = Len(rentals)
      BY <1>1, <3>1 DEF Backing
    <3>3. Len(rentals') = Len(rentals)
      BY <1>4, <2>1, <2>2 DEF RentalsOnlyEnd
    <3>4. QED
      BY <2>2, <3>2, <3>3
  <2>3. CASE Goes(k)
    <3>1. handler[k].does = "revoke" /\ sale[handler[k].sale].kind = "rental"
      BY <1>3, <2>1, <2>3 DEF Goes
    <3>2. ~ (PurchaseCheck(k) \/ RentalCheck(k) \/ ExtensionCheck(k) \/ ShelveCheck(k) \/ RemovalFind(k))
      BY <3>1 DEF PurchaseCheck, RentalCheck, ExtensionCheck, ShelveCheck, RemovalFind, Removing, At
    <3>3. handler'[k].seen = Len(rentals) /\ RentalRevokeCheck(k)
      BY <2>1, <2>3, <3>2 DEF Goes
    <3>4. QED
      BY <3>3 DEF RentalRevokeCheck
  <2>4. QED
    BY <1>1, <2>1, <2>2, <2>3, HandlerMoves DEF Moves, Idle
<1> DEFINE Kept == \/ \E s \in Sales : sale'[s].kind = "rental" /\ sale'[s].stage = "captured"
                   \/ \E k \in Slots : At(k, "revoke", "rental", "start")' \/ At(k, "revoke", "rental", "checked")'
<1>6. ASSUME NewestIsActive'
      PROVE  Kept
  <2>1. ASSUME NEW k \in Slots, RentalGrant(k)
        PROVE  Kept
    <3>1. PICK s \in Sales : s = handler[k].sale
      BY <1>1, <2>1 DEF RentalGrant, At, TypeOK
    <3>2. sale[s].kind = "rental" /\ sale[s].stage = "captured"
      BY <1>1, <2>1, <3>1 DEF RentalGrant, At, InTurn
    <3>3. Got(s, "granted")
      BY <2>1, <3>1 DEF RentalGrant
    <3>4. QED
      BY <1>1, <3>2, <3>3, GotSet
  <2>2. ASSUME \A k \in Slots : ~ RentalGrant(k)
        PROVE  Kept
    <3>1. NewestIsActive
      BY <1>6, <2>2, RentalsEnd DEF RentalsOnlyEnd
    <3>2. ASSUME NEW s \in Sales, sale[s].kind = "rental", sale[s].stage = "captured"
          PROVE  Kept
      <4>1. CASE sale'[s].kind = "rental" /\ sale'[s].stage = "captured"
        BY <4>1
      <4>2. ASSUME NEW k \in Slots, RefundCompleted(s, k), sale'[s].kind = "rental"
            PROVE  Kept
        <5>1. handler' = [handler EXCEPT ![k] =
                 [does |-> "revoke", sale |-> s, rental |-> 0, pc |-> "start", seen |-> 0]]
          BY <4>2 DEF RefundCompleted, Start
        <5>2. handler'[k].does = "revoke" /\ handler'[k].sale = s /\ handler'[k].pc = "start"
          BY <1>1, <5>1 DEF TypeOK
        <5>3. At(k, "revoke", "rental", "start")'
          BY <4>2, <5>2 DEF At
        <5>4. QED
          BY <5>3
      <4>3. QED
        BY <1>1, <3>2, <4>1, <4>2, EachSaleMoves DEF SaleMoves
    <3>3. ASSUME NEW k \in Slots, NEW pc \in {"start", "checked"}, At(k, "revoke", "rental", pc)
          PROVE  Kept
      <4>1. handler[k].does = "revoke" /\ sale[handler[k].sale].kind = "rental" /\ handler[k].pc = pc
        BY <3>3 DEF At
      <4>2. CASE handler'[k] = handler[k]
        <5>1. At(k, "revoke", "rental", pc)'
          BY <1>3, <4>1, <4>2 DEF At
        <5>2. QED
          BY <5>1
      <4>3. CASE handler'[k] # handler[k]
        <5>1. Handle(k)
          BY <1>1, <4>1, <4>3, OwnMove
        <5>2. CASE RentalRevokeCheck(k)
          <6>1. handler' = [handler EXCEPT ![k] =
                   [does |-> handler[k].does, sale |-> handler[k].sale, rental |-> handler[k].rental,
                    pc |-> "checked", seen |-> Len(rentals)]]
            BY <1>1, <3>1, <5>2, RentalAnswer DEF Goto
          <6>2. handler'[k].does = "revoke" /\ handler'[k].sale = handler[k].sale /\ handler'[k].pc = "checked"
            BY <1>1, <4>1, <6>1 DEF TypeOK
          <6>3. At(k, "revoke", "rental", "checked")'
            BY <1>3, <4>1, <6>2 DEF At
          <6>4. QED
            BY <6>3
        <5>3. CASE RentalRevoke(k)
          <6>1. handler[k].seen = Len(rentals)
            BY <1>1, <5>3 DEF RentalRevoke, Backing
          <6>2. Len(rentals) \in DOMAIN rentals
            BY <1>1, <5>3, <6>1, LenProperties DEF RentalRevoke, IInv, Backed, TypeOK
          <6>3. rentals'[Len(rentals)].status = "expired"
            BY <5>3, <6>1, <6>2 DEF RentalRevoke, Ended
          <6>4. Len(rentals') = Len(rentals)
            BY <1>4, <4>1 DEF RentalsOnlyEnd
          <6>5. QED
            BY <1>6, <6>3, <6>4 DEF NewestIsActive
        <5>4. QED
          BY <1>2, <4>1, <5>1, <5>2, <5>3, RentalRefundMoves
      <4>4. QED
        BY <4>2, <4>3
    <3>4. QED
      BY <1>1, <3>1, <3>2, <3>3 DEF Backing
  <2>3. QED
    BY <2>1, <2>2
<1>7. QED
  BY <1>5, <1>6 DEF Backing

(***************************************************************************)
(* When every rental payment was refunded and nothing is in progress, no   *)
(* rental gives access, unless a payment was handled while a refund was or *)
(* after its own, a handler was cut short, or a replica hid the rental     *)
(* from a refund: handleRefundCompleted expires the newest rental, and     *)
(* none is granted after the refund of its own payment began.              *)
(***************************************************************************)
THEOREM RentalsEndWithTheirRefund == Spec => []RefundedRentalsEnd
<1>1. Init => InTurn /\ Backing
  BY DEF Init, InTurn, Backing, At, NewestIsActive, Idle
<1>2. IInv /\ InTurn /\ Backing /\ [Next]_vars => InTurn' /\ Backing'
  <2>1. InTurn /\ Backing /\ UNCHANGED vars => InTurn' /\ Backing'
    BY DEF vars, InTurn, Backing, At, NewestIsActive
  <2>2. QED
    BY <2>1, InTurnStep, BackingStep
<1>3. Backing => RefundedRentalsEnd
  BY DEF Backing, RefundedRentalsEnd, Busy, At, Paid
<1>4. QED
  BY <1>1, <1>2, <1>3, EntitlementsInvariant, PTL DEF Spec

-----------------------------------------------------------------------------
(***************************************************************************)
(* A handler that begins while none is in progress, unless that is noted.  *)
(***************************************************************************)
Begins(k) ==
    \/ \E s \in Sales : PaymentCompleted(s, k) \/ RefundCompleted(s, k) \/ EventRepeated(s, k)
    \/ \E r \in DOMAIN rentals : ReturnCheck(r, k)

LEMMA Beginners ==
    ASSUME TypeOK, Next, NEW k \in Slots, handler[k].does = "nothing", handler'[k].does # "nothing"
    PROVE  Begins(k)
<1>1. ~ RentalGrant(k) /\ ~ RentalRevoke(k) /\ ~ ReturnRental(k)
  BY DEF RentalGrant, RentalRevoke, ReturnRental, At
<1>2. ~ Goes(k)
  BY DEF Goes
<1>3. Moves(k)
  BY HandlerMoves
<1>4. QED
  BY <1>1, <1>2, <1>3 DEF Moves, Idle, Begins

LEMMA BeginsAlone ==
    ASSUME TypeOK, NEW k \in Slots, Begins(k), "overlap" \notin saw'
    PROVE  /\ Busy = {}
           /\ \A j \in Slots \ {k} : handler'[j] = handler[j]
           /\ UNCHANGED <<library, rentals>>
<1>1. PICK does, s, r, pc : /\ Start(k, does, s, r, pc) /\ Overlaps(does) \subseteq saw'
                            /\ UNCHANGED <<library, rentals>>
  <2>1. ASSUME NEW s, PaymentCompleted(s, k)
        PROVE  /\ Start(k, "grant", s, 0, "start") /\ Overlaps("grant") \subseteq saw'
               /\ UNCHANGED <<library, rentals>>
    BY <2>1 DEF PaymentCompleted
  <2>2. ASSUME NEW s, RefundCompleted(s, k)
        PROVE  /\ Start(k, "revoke", s, 0, "start") /\ Overlaps("revoke") \subseteq saw'
               /\ UNCHANGED <<library, rentals>>
    BY <2>2 DEF RefundCompleted
  <2>3. ASSUME NEW s, EventRepeated(s, k)
        PROVE  \E does : /\ Start(k, does, s, 0, "start") /\ Overlaps(does) \subseteq saw'
                         /\ UNCHANGED <<library, rentals>>
    BY <2>3 DEF EventRepeated
  <2>4. ASSUME NEW r, ReturnCheck(r, k)
        PROVE  /\ Start(k, "return", None, r, "checked") /\ Overlaps("return") \subseteq saw'
               /\ UNCHANGED <<library, rentals>>
    BY <2>4 DEF ReturnCheck, Reading
  <2>5. QED
    BY <2>1, <2>2, <2>3, <2>4 DEF Begins
<1>2. Busy = {}
  BY <1>1 DEF Overlaps
<1>3. \E h : handler' = [handler EXCEPT ![k] = h]
  BY <1>1 DEF Start
<1>4. QED
  BY <1>1, <1>2, <1>3, SlotSet

\* The two that put a row on the shelf.
LEMMA PurchaseShelved ==
    ASSUME TypeOK, NEW k \in Slots, PurchaseGrant(k)
    PROVE  \E new : /\ OnShelf' = OnShelf \cup {new} /\ new \notin OnShelf
                    /\ library'[new].rental = 0
                    /\ \A i \in OnShelf : library'[i].rental = library[i].rental
<1> DEFINE row == [rental |-> 0, kept |-> TRUE]
<1>1. row \in LibraryRow /\ row.rental = 0 /\ row.kept = TRUE /\ library' = Append(library, row)
  BY DEF PurchaseGrant, LibraryRow
<1> HIDE DEF row
<1>2. QED
  BY <1>1, RowAdded

LEMMA RentalShelved ==
    ASSUME TypeOK, NEW k \in Slots, Shelve(k)
    PROVE  /\ handler[k].rental \in 1..Len(rentals)
           /\ \E new : /\ OnShelf' = OnShelf \cup {new} /\ new \notin OnShelf
                       /\ library'[new].rental = handler[k].rental
                       /\ \A i \in OnShelf : library'[i].rental = library[i].rental
<1> DEFINE row == [rental |-> handler[k].rental, kept |-> TRUE]
<1>1. handler[k].rental \in 1..Len(rentals) /\ handler[k].rental \in Nat
  BY DEF Shelve, TypeOK, Handler
<1>2. row \in LibraryRow /\ row.rental = handler[k].rental /\ row.kept = TRUE /\ library' = Append(library, row)
  BY <1>1 DEF Shelve, LibraryRow
<1> HIDE DEF row
<1>3. QED
  BY <1>1, <1>2, RowAdded

\* What the handler of a purchase's refund does next.
LEMMA PurchaseRefundMoves ==
    ASSUME NEW k \in Slots, Handle(k), TakingBack(k)
    PROVE  \/ Lost(k)
           \/ handler[k].pc = "start" /\ RemovalFind(k)
           \/ handler[k].pc = "checked" /\ Removal(k)
<1>1. ~ (PurchaseCheck(k) \/ PurchaseGrant(k) \/ RentalCheck(k) \/ RentalGrant(k)
         \/ ExtensionCheck(k) \/ ExtensionGrant(k))
  BY DEF PurchaseCheck, PurchaseGrant, RentalCheck, RentalGrant, ExtensionCheck, ExtensionGrant, At, TakingBack
<1>2. ~ (ExtensionRevoke(k) \/ RentalRevokeCheck(k) \/ RentalRevoke(k) \/ ShelveCheck(k) \/ Shelve(k)
         \/ WithdrawCheck(k) \/ ReturnRental(k))
  BY DEF ExtensionRevoke, RentalRevokeCheck, RentalRevoke, ShelveCheck, Shelve, WithdrawCheck,
         ReturnRental, At, TakingBack
<1>3. RemovalFind(k) => handler[k].pc = "start"
  BY DEF RemovalFind, TakingBack
<1>4. Removal(k) => handler[k].pc = "checked"
  BY DEF Removal
<1>5. QED
  BY <1>1, <1>2, <1>3, <1>4 DEF Handle

\* A removal leaves the shelf without the row it looked up.
LEMMA RemovalTakes ==
    ASSUME IInv, NEW k \in Slots, Removal(k)
    PROVE  OnShelf' = OnShelf \ {handler[k].seen}
<1>1. handler[k].seen \in 1..Len(library)
  BY DEF Removal, IInv, Backed
<1>2. QED
  BY <1>1, RowRemoved DEF Removal

LEMMA OneOnShelfStep == IInv /\ Following /\ InTurn /\ OneOnShelf /\ Next => OneOnShelf'
<1> SUFFICES ASSUME IInv, Following, InTurn, OneOnShelf, Next,
                    saw' \cap {"overlap", "repeat", "loss", "old"} = {}
             PROVE  OneOnShelf'
  BY DEF OneOnShelf
<1>1. TypeOK /\ saw \cap {"overlap", "repeat", "loss", "old"} = {} /\ saw \cap {"overtaken", "late"} = {}
  BY SawGrows DEF IInv, Following
<1>2. \A k \in Slots : ~ Lost(k)
  BY DEF Lost
<1>3. ASSUME NEW k \in Slots, handler[k].does \in {"grant", "revoke"}
      PROVE  handler[k].sale \in Sales /\ sale'[handler[k].sale].kind = sale[handler[k].sale].kind
  BY <1>1, <1>3, SalesStep DEF TypeOK, SalesGrow, IInv, Backed
<1>4. /\ \A j, k \in Busy : j = k
      /\ \A i, j \in OnShelf : i = j
  BY <1>1 DEF OneOnShelf
\* Handlers run one after the other.
<1>5. ASSUME NEW j \in Slots, NEW k \in Slots, handler'[j].does # "nothing", handler'[k].does # "nothing"
      PROVE  j = k
  <2>1. CASE handler[j].does # "nothing" /\ handler[k].does # "nothing"
    BY <1>4, <2>1 DEF Busy
  <2>2. CASE handler[j].does = "nothing"
    <3>1. Begins(j)
      BY <1>1, <1>5, <2>2, Beginners
    <3>2. Busy = {} /\ \A i \in Slots \ {j} : handler'[i] = handler[i]
      BY <1>1, <3>1, BeginsAlone
    <3>3. QED
      BY <1>5, <3>2 DEF Busy
  <2>3. CASE handler[k].does = "nothing"
    <3>1. Begins(k)
      BY <1>1, <1>5, <2>3, Beginners
    <3>2. Busy = {} /\ \A i \in Slots \ {k} : handler'[i] = handler[i]
      BY <1>1, <3>1, BeginsAlone
    <3>3. QED
      BY <1>5, <3>2 DEF Busy
  <2>4. QED
    BY <2>1, <2>2, <2>3
\* What puts a row on the shelf finds the shelf empty and ends.
<1>6. ASSUME NEW k \in Slots, PurchaseGrant(k) \/ Shelve(k)
      PROVE  /\ OnShelf = {} /\ handler[k].does # "nothing" /\ handler'[k].does = "nothing"
             /\ \E new : OnShelf' = {new}
  <2>1. CASE PurchaseGrant(k)
    <3>1. OnShelf = {} /\ handler[k].does # "nothing"
      BY <1>1, <2>1 DEF PurchaseGrant, OneOnShelf, At
    <3>2. handler' = [handler EXCEPT ![k] = Idle]
      BY <2>1 DEF PurchaseGrant, End
    <3>3. handler'[k].does = "nothing"
      BY <1>1, <3>2 DEF TypeOK, Idle
    <3>4. QED
      BY <1>1, <2>1, <3>1, <3>3, PurchaseShelved
  <2>2. CASE Shelve(k)
    <3>1. OnShelf = {} /\ handler[k].does # "nothing"
      BY <1>1, <2>2 DEF Shelve, OneOnShelf
    <3>2. handler' = [handler EXCEPT ![k] = Idle]
      BY <2>2 DEF Shelve, End
    <3>3. handler'[k].does = "nothing"
      BY <1>1, <3>2 DEF TypeOK, Idle
    <3>4. QED
      BY <1>1, <2>2, <3>1, <3>3, RentalShelved
  <2>3. QED
    BY <1>6, <2>1, <2>2
<1>7. ASSUME \A k \in Slots : ~ PurchaseGrant(k) /\ ~ Shelve(k)
      PROVE  ShelfOnlyShrinks
  BY <1>7, ShelfShrinks
<1>8. \A i, j \in OnShelf' : i = j
  <2>1. CASE \E k \in Slots : PurchaseGrant(k) \/ Shelve(k)
    BY <1>6, <2>1
  <2>2. CASE \A k \in Slots : ~ PurchaseGrant(k) /\ ~ Shelve(k)
    BY <1>4, <1>7, <2>2 DEF ShelfOnlyShrinks
  <2>3. QED
    BY <2>1, <2>2
\* A handler in progress before and after the step: the shelf did not grow.
<1>9. ASSUME NEW k \in Slots, handler[k].does # "nothing", handler'[k].does # "nothing"
      PROVE  OnShelf' \subseteq OnShelf
  <2>1. ASSUME NEW j \in Slots, PurchaseGrant(j) \/ Shelve(j)
        PROVE  FALSE
    <3>1. handler[j].does # "nothing" /\ handler'[j].does = "nothing"
      BY <1>6, <2>1
    <3>2. j = k
      BY <1>4, <1>9, <3>1 DEF Busy
    <3>3. QED
      BY <1>9, <3>1, <3>2
  <2>2. QED
    BY <1>7, <2>1 DEF ShelfOnlyShrinks
<1>10. ASSUME NEW k \in Slots, At(k, "grant", "purchase", "checked")'
       PROVE  OnShelf' = {}
  <2>1. handler'[k].does = "grant" /\ handler'[k].pc = "checked" /\ sale'[handler'[k].sale].kind = "purchase"
    BY <1>10 DEF At
  <2>2. CASE handler'[k] = handler[k]
    <3>1. At(k, "grant", "purchase", "checked")
      BY <1>3, <2>1, <2>2 DEF At
    <3>2. OnShelf = {}
      BY <1>1, <3>1 DEF OneOnShelf
    <3>3. QED
      BY <1>9, <2>1, <2>2, <3>2
  <2>3. CASE Goes(k)
    <3>1. handler[k].does = "grant" /\ sale[handler[k].sale].kind = "purchase"
      BY <1>3, <2>1, <2>3 DEF Goes
    <3>2. PurchaseCheck(k)
      BY <2>1, <2>3, <3>1 DEF Goes, RentalCheck, ExtensionCheck, ShelveCheck, RentalRevokeCheck,
                              RemovalFind, Removing, WithdrawCheck, At
    <3>3. ~ End(k)
      <4>1. End(k) => handler'[k] = Idle
        BY <1>1 DEF End, TypeOK
      <4>2. QED
        BY <2>1, <4>1 DEF Idle
    <3>4. OnShelf = {}
      BY <1>1, <3>2, <3>3, ShelfAnswer
    <3>5. QED
      BY <1>9, <2>1, <3>1, <3>4
  <2>4. QED
    BY <1>1, <2>1, <2>2, <2>3, HandlerMoves DEF Moves, Idle
<1>11. ASSUME NEW k \in Slots, handler'[k].does = "shelve", handler'[k].pc = "checked"
       PROVE  OnShelf' = {}
  <2>1. CASE handler'[k] = handler[k]
    <3>1. OnShelf = {}
      BY <1>1, <1>11, <2>1 DEF OneOnShelf
    <3>2. QED
      BY <1>9, <1>11, <2>1, <3>1
  <2>2. CASE Goes(k)
    <3>1. ShelveCheck(k)
      BY <1>11, <2>2 DEF Goes, PurchaseCheck, RentalCheck, ExtensionCheck, RentalRevokeCheck,
                         RemovalFind, Removing, WithdrawCheck, At
    <3>2. ~ End(k)
      <4>1. End(k) => handler'[k] = Idle
        BY <1>1 DEF End, TypeOK
      <4>2. QED
        BY <1>11, <4>1 DEF Idle
    <3>3. OnShelf = {} /\ handler[k].does # "nothing"
      BY <1>1, <3>1, <3>2, ShelfAnswer DEF ShelveCheck
    <3>4. QED
      BY <1>9, <1>11, <3>3
  <2>3. QED
    BY <1>1, <1>11, <2>1, <2>2, HandlerMoves DEF Moves, Idle
<1>12. ASSUME NEW k \in Slots, Removing(k)', handler'[k].pc = "checked"
       PROVE  OnShelf' \subseteq {handler'[k].seen}
  <2>1. /\ handler'[k].does \in {"revoke", "withdraw"}
        /\ handler'[k].does = "revoke" => sale'[handler'[k].sale].kind = "purchase"
    BY <1>12 DEF Removing
  <2>2. CASE handler'[k] = handler[k]
    <3>1. Removing(k)
      BY <1>3, <2>1, <2>2 DEF Removing
    <3>2. OnShelf \subseteq {handler[k].seen}
      BY <1>1, <1>12, <2>2, <3>1 DEF OneOnShelf
    <3>3. QED
      BY <1>9, <2>1, <2>2, <3>2
  <2>3. CASE Goes(k)
    <3>1. /\ handler[k].does \in {"revoke", "withdraw"}
          /\ handler[k].does = "revoke" => sale[handler[k].sale].kind = "purchase"
      BY <1>3, <2>1, <2>3 DEF Goes
    <3>2. handler'[k].seen \in OnShelf
      BY <1>12, <2>3, <3>1 DEF Goes, PurchaseCheck, RentalCheck, ExtensionCheck, ShelveCheck,
                               RentalRevokeCheck, WithdrawCheck, At
    <3>3. OnShelf' \subseteq OnShelf
      BY <1>9, <2>1, <3>1
    <3>4. QED
      BY <1>4, <3>2, <3>3
  <2>4. QED
    BY <1>1, <1>12, <2>1, <2>2, <2>3, HandlerMoves DEF Moves, Idle
\* The row of an owner is backed by a purchase, or on its way out.
<1> DEFINE Kept == \/ \E s \in Sales : sale'[s].kind = "purchase" /\ sale'[s].stage = "captured"
                   \/ \E k \in Slots : At(k, "revoke", "purchase", "start")' \/ At(k, "revoke", "purchase", "checked")'
<1>13. ASSUME NEW i \in OnShelf', library'[i].rental = 0
       PROVE  Kept
  <2>1. ASSUME NEW k \in Slots, PurchaseGrant(k)
        PROVE  Kept
    <3>1. PICK s \in Sales : s = handler[k].sale
      BY <1>1, <2>1 DEF PurchaseGrant, At, TypeOK
    <3>2. sale[s].kind = "purchase" /\ sale[s].stage = "captured"
      BY <1>1, <2>1, <3>1 DEF PurchaseGrant, At, InTurn
    <3>3. Got(s, "granted")
      BY <2>1, <3>1 DEF PurchaseGrant
    <3>4. QED
      BY <1>1, <3>2, <3>3, GotSet
  <2>2. ASSUME NEW k \in Slots, Shelve(k)
        PROVE  FALSE
    <3>1. OnShelf = {}
      BY <1>6, <2>2
    <3>2. handler[k].rental \in 1..Len(rentals) /\ library'[i].rental = handler[k].rental
      BY <1>1, <2>2, <3>1, RentalShelved
    <3>3. 0 \notin 1..Len(rentals)
      BY <1>1, LenProperties DEF TypeOK
    <3>4. QED
      BY <1>13, <3>2, <3>3
  <2>3. ASSUME \A k \in Slots : ~ PurchaseGrant(k) /\ ~ Shelve(k)
        PROVE  Kept
    <3>1. i \in OnShelf /\ library[i].rental = 0
      BY <1>7, <1>13, <2>3 DEF ShelfOnlyShrinks
    <3>2. ASSUME NEW s \in Sales, sale[s].kind = "purchase", sale[s].stage = "captured"
          PROVE  Kept
      <4>1. CASE sale'[s].kind = "purchase" /\ sale'[s].stage = "captured"
        BY <4>1
      <4>2. ASSUME NEW k \in Slots, RefundCompleted(s, k), sale'[s].kind = "purchase"
            PROVE  Kept
        <5>1. handler' = [handler EXCEPT ![k] =
                 [does |-> "revoke", sale |-> s, rental |-> 0, pc |-> "start", seen |-> 0]]
          BY <4>2 DEF RefundCompleted, Start
        <5>2. handler'[k].does = "revoke" /\ handler'[k].sale = s /\ handler'[k].pc = "start"
          BY <1>1, <5>1 DEF TypeOK
        <5>3. At(k, "revoke", "purchase", "start")'
          BY <4>2, <5>2 DEF At
        <5>4. QED
          BY <5>3
      <4>3. QED
        BY <1>1, <3>2, <4>1, <4>2, EachSaleMoves DEF SaleMoves
    <3>3. ASSUME NEW k \in Slots, NEW pc \in {"start", "checked"}, At(k, "revoke", "purchase", pc)
          PROVE  Kept
      <4>1. handler[k].does = "revoke" /\ sale[handler[k].sale].kind = "purchase" /\ handler[k].pc = pc
        BY <3>3 DEF At
      <4>2. CASE handler'[k] = handler[k]
        <5>1. At(k, "revoke", "purchase", pc)'
          BY <1>3, <4>1, <4>2 DEF At
        <5>2. QED
          BY <5>1
      <4>3. CASE handler'[k] # handler[k]
        <5>1. Handle(k)
          BY <1>1, <4>1, <4>3, OwnMove
        <5>2. CASE RemovalFind(k)
          <6>1. PICK j \in OnShelf : Goto(k, "checked", j)
            BY <1>1, <3>1, <5>2, ShelfAnswer
          <6>2. handler' = [handler EXCEPT ![k] =
                   [does |-> handler[k].does, sale |-> handler[k].sale, rental |-> handler[k].rental,
                    pc |-> "checked", seen |-> j]]
            BY <6>1 DEF Goto
          <6>3. handler'[k].does = "revoke" /\ handler'[k].sale = handler[k].sale /\ handler'[k].pc = "checked"
            BY <1>1, <4>1, <6>2 DEF TypeOK
          <6>4. At(k, "revoke", "purchase", "checked")'
            BY <1>3, <4>1, <6>3 DEF At
          <6>5. QED
            BY <6>4
        <5>3. CASE Removal(k)
          <6>1. OnShelf \subseteq {handler[k].seen}
            BY <1>1, <4>1, <5>3 DEF Removal, Removing, OneOnShelf
          <6>2. OnShelf' = OnShelf \ {handler[k].seen}
            BY <5>3, RemovalTakes
          <6>3. QED
            BY <1>13, <6>1, <6>2
        <5>4. QED
          BY <1>2, <4>1, <5>1, <5>2, <5>3, PurchaseRefundMoves DEF TakingBack
      <4>4. QED
        BY <4>2, <4>3
    <3>4. QED
      BY <1>1, <3>1, <3>2, <3>3 DEF OneOnShelf
  <2>4. QED
    BY <2>1, <2>2, <2>3
<1>14. QED
  BY <1>5, <1>8, <1>10, <1>11, <1>12, <1>13 DEF OneOnShelf, Busy

(***************************************************************************)
(* When every sale was refunded, the handlers ran one after the other and  *)
(* no answer was an old one, the reader has lost the book: both            *)
(* handleRefundCompleted take back what was granted, whichever payment and *)
(* whichever row they find.                                                *)
(***************************************************************************)
THEOREM RefundsTakeTheBookBack == Spec => []RefundedReaderHasNothing
<1>1. Init => Following /\ InTurn /\ Backing /\ OneOnShelf
  <2> SUFFICES ASSUME Init
               PROVE  Following /\ InTurn /\ Backing /\ OneOnShelf
    OBVIOUS
  <2>1. OnShelf = {}
    BY EmptySeq DEF Init, OnShelf
  <2>2. QED
    BY <2>1 DEF Init, Following, InTurn, Backing, OneOnShelf, At, NewestIsActive, Idle, Busy, Removing
<1>2. /\ IInv /\ Following /\ InTurn /\ Backing /\ OneOnShelf /\ [Next]_vars
      => Following' /\ InTurn' /\ Backing' /\ OneOnShelf'
  <2>1. Following /\ InTurn /\ Backing /\ OneOnShelf /\ UNCHANGED vars
           => Following' /\ InTurn' /\ Backing' /\ OneOnShelf'
    BY DEF vars, Following, InTurn, Backing, OneOnShelf, At, NewestIsActive, Busy, OnShelf, Removing
  <2>2. QED
    BY <2>1, FollowingStep, InTurnStep, BackingStep, OneOnShelfStep
<1>3. Following /\ Backing /\ OneOnShelf => RefundedReaderHasNothing
  <2> SUFFICES ASSUME Following, Backing, OneOnShelf, Busy = {}, saw \cap {"overlap", "repeat", "loss", "old"} = {},
                      \A s \in Sales : sale[s].kind # "extension" /\ Paid(s) => sale[s].stage = "refunded"
               PROVE  ~ MayRead
    BY DEF RefundedReaderHasNothing
  <2>1. saw \cap {"overtaken", "late", "loss", "missed"} = {} /\ saw \cap {"overlap", "repeat", "loss", "old"} = {}
    BY DEF Following
  <2>2. \A k \in Slots : handler[k].does = "nothing"
    BY DEF Busy
  <2>3. \A s \in Sales : sale[s].kind \in {"purchase", "rental"} => sale[s].stage # "captured"
    BY DEF Paid
  <2>4. ~ NewestIsActive
    BY <2>1, <2>2, <2>3 DEF Backing, At
  <2>5. ~ \E i \in OnShelf : library[i].rental = 0
    BY <2>1, <2>2, <2>3 DEF OneOnShelf, At
  <2>6. QED
    BY <2>4, <2>5 DEF MayRead
<1>4. QED
  BY <1>1, <1>2, <1>3, EntitlementsInvariant, PTL DEF Spec

-----------------------------------------------------------------------------
\* Delivered without its condition.
InHand == OneOnItsWay /\ RentalOnShelf /\ PurchaseOnShelf /\ WithdrawingNothingElse

NoneRefused == \A s \in Sales : sale[s].kind # "extension" => sale[s].got # "refused"

(***************************************************************************)
(* A step that starts nothing for the book, brings nothing to the shelf    *)
(* and takes nothing from it that is anybody's.                            *)
(***************************************************************************)
SlotQuiet(k) ==
    /\ Granting(k, "purchase")' => Granting(k, "purchase")
    /\ Granting(k, "rental")' => Granting(k, "rental")
    /\ Granting(k, "purchase") => handler'[k].does = "grant" /\ handler'[k].sale = handler[k].sale
    /\ TakingBack(k)' => TakingBack(k)
    /\ handler'[k].does = "shelve" <=> handler[k].does = "shelve"
    /\ handler[k].does = "shelve" => handler'[k].rental = handler[k].rental
    /\ handler'[k].does = "withdraw" /\ handler'[k].pc # "start" =>
          handler[k].does = "withdraw" /\ handler[k].pc # "start"

Quiet ==
    /\ OnShelf' \subseteq OnShelf
    /\ \A i \in OnShelf : library'[i].rental = library[i].rental
    /\ OnShelf' = OnShelf \/ (~ NewestIsActive /\ \A s \in Sales : ~ Bought(s))
    /\ RentalsOnlyEnd
    /\ \A s \in Sales : (Ordering(s)' => Ordering(s)) /\ (Bought(s)' => Bought(s))
    /\ \A k \in Slots : SlotQuiet(k)

LEMMA QuietStep == IInv /\ InHand /\ Quiet => InHand'
<1> SUFFICES ASSUME IInv, InHand, Quiet
             PROVE  InHand'
  OBVIOUS
<1>1. /\ \A k \in Slots : Bringing(k)' => Bringing(k)
      /\ \A k \in Slots : (Granting(k, "purchase")' => Granting(k, "purchase"))
                          /\ (Granting(k, "rental")' => Granting(k, "rental"))
  BY DEF Quiet, SlotQuiet, Bringing
<1>2. /\ \A s \in Sales : (Ordering(s)' => Ordering(s)) /\ (Bought(s)' => Bought(s))
      /\ \A k \in Slots : TakingBack(k)' => TakingBack(k)
      /\ NewestIsActive' => NewestIsActive
      /\ OnShelf' \subseteq OnShelf
  BY DEF Quiet, SlotQuiet, RentalsOnlyEnd
<1>3. OneOnItsWay'
  <2>1. OneOnItsWay
    BY DEF InHand
  <2>2. QED
    BY <1>1, <1>2, <2>1 DEF OneOnItsWay
<1>4. RentalOnShelf'
  <2>1. RentalOnShelf
    BY DEF InHand
  <2>2. (\E s \in Sales : Ordering(s)') \/ (\E k \in Slots : Granting(k, "purchase")' \/ Granting(k, "rental")')
           => ~ NewestIsActive'
    BY <1>1, <1>2, <2>1 DEF RentalOnShelf
  <2>3. \A k \in Slots : handler'[k].does = "shelve" => handler'[k].rental = Len(rentals')
    BY <2>1 DEF RentalOnShelf, Quiet, SlotQuiet, RentalsOnlyEnd
  <2>4. ASSUME NewestIsActive'
        PROVE  \/ \E k \in Slots : handler'[k].does = "shelve"
               \/ \E i \in OnShelf' : library'[i].rental = Len(rentals')
    <3>1. NewestIsActive /\ OnShelf' = OnShelf /\ Len(rentals') = Len(rentals)
      BY <1>2, <2>4 DEF Quiet, RentalsOnlyEnd
    <3>2. \/ \E k \in Slots : handler[k].does = "shelve"
          \/ \E i \in OnShelf : library[i].rental = Len(rentals)
      BY <2>1, <3>1 DEF RentalOnShelf
    <3>3. QED
      BY <3>1, <3>2 DEF Quiet, SlotQuiet
  <2>5. QED
    BY <2>2, <2>3, <2>4 DEF RentalOnShelf
<1>5. PurchaseOnShelf'
  <2>1. PurchaseOnShelf
    BY DEF InHand
  <2>2. \A s, t \in Sales : Bought(s)' /\ Bought(t)' => s = t
    BY <1>2, <2>1 DEF PurchaseOnShelf
  <2>3. ASSUME NEW s \in Sales, Bought(s)'
        PROVE  /\ \/ \E k \in Slots : handler'[k].does = "grant" /\ handler'[k].sale = s
                  \/ \E i \in OnShelf' : library'[i].rental = 0
               /\ \A k \in Slots : ~ TakingBack(k)'
    <3>1. Bought(s) /\ OnShelf' = OnShelf
      BY <1>2, <2>3 DEF Quiet
    <3>2. \A k \in Slots : ~ TakingBack(k)
      BY <2>1, <3>1 DEF PurchaseOnShelf
    <3>3. CASE \E i \in OnShelf : library[i].rental = 0
      BY <1>2, <3>1, <3>2, <3>3 DEF Quiet
    <3>4. ASSUME NEW k \in Slots, handler[k].does = "grant", handler[k].sale = s
          PROVE  handler'[k].does = "grant" /\ handler'[k].sale = s
      <4>1. Granting(k, "purchase")
        BY <3>1, <3>4 DEF Granting, Bought
      <4>2. QED
        BY <3>4, <4>1 DEF Quiet, SlotQuiet
    <3>5. QED
      BY <1>2, <2>1, <3>1, <3>2, <3>3, <3>4 DEF PurchaseOnShelf
  <2>4. (\E s \in Sales : Bought(s)') \/ (\E k \in Slots : TakingBack(k)') =>
          /\ \A s \in Sales : ~ Ordering(s)'
          /\ \A k \in Slots : ~ Granting(k, "rental")' /\ handler'[k].does # "shelve"
          /\ ~ NewestIsActive'
    <3> SUFFICES ASSUME (\E s \in Sales : Bought(s)') \/ (\E k \in Slots : TakingBack(k)')
                 PROVE  /\ \A s \in Sales : ~ Ordering(s)'
                        /\ \A k \in Slots : ~ Granting(k, "rental")' /\ handler'[k].does # "shelve"
                        /\ ~ NewestIsActive'
      OBVIOUS
    <3>1. (\E s \in Sales : Bought(s)) \/ (\E k \in Slots : TakingBack(k))
      BY <1>2
    <3>2. /\ \A s \in Sales : ~ Ordering(s)
          /\ \A k \in Slots : ~ Granting(k, "rental") /\ handler[k].does # "shelve"
          /\ ~ NewestIsActive
      BY <2>1, <3>1 DEF PurchaseOnShelf
    <3>3. QED
      BY <1>1, <1>2, <3>2 DEF Quiet, SlotQuiet
  <2>5. QED
    BY <2>2, <2>3, <2>4 DEF PurchaseOnShelf
<1>6. WithdrawingNothingElse'
  <2>1. WithdrawingNothingElse
    BY DEF InHand
  <2>2. QED
    BY <1>1, <1>2, <2>1 DEF WithdrawingNothingElse, Quiet, SlotQuiet
<1>7. QED
  BY <1>3, <1>4, <1>5, <1>6 DEF InHand

\* A slot that does not move, while kinds of paid sales do not change either.
LEMMA SlotStays ==
    ASSUME IInv, Next, NEW k \in Slots, handler'[k] = handler[k]
    PROVE  /\ Granting(k, "purchase")' <=> Granting(k, "purchase")
           /\ Granting(k, "rental")' <=> Granting(k, "rental")
           /\ Bringing(k)' <=> Bringing(k)
           /\ TakingBack(k)' <=> TakingBack(k)
           /\ SlotQuiet(k)
<1>1. handler[k].does \in {"grant", "revoke"} => sale'[handler[k].sale].kind = sale[handler[k].sale].kind
  BY SalesStep DEF TypeOK, SalesGrow, IInv, Backed
<1>2. /\ Granting(k, "purchase")' <=> Granting(k, "purchase")
      /\ Granting(k, "rental")' <=> Granting(k, "rental")
      /\ TakingBack(k)' <=> TakingBack(k)
  BY <1>1 DEF Granting, TakingBack
<1>3. QED
  BY <1>2 DEF SlotQuiet, Bringing, Granting

\* A handler sells nothing: it records at most what it gave.
LEMMA HandlingSells ==
    ASSUME TypeOK, NEW k \in Slots, Handle(k)
    PROVE  \A s \in Sales : /\ sale'[s].kind = sale[s].kind /\ sale'[s].stage = sale[s].stage
                            /\ (Ordering(s)' <=> Ordering(s)) /\ (Bought(s)' <=> Bought(s))
<1> DEFINE Goal == \A s \in Sales : sale'[s].kind = sale[s].kind /\ sale'[s].stage = sale[s].stage
<1>1. UNCHANGED sale => Goal
  OBVIOUS
<1>2. ASSUME handler[k].does = "grant", NEW what, Got(handler[k].sale, what)
      PROVE  Goal
  <2>1. PICK t \in Sales : t = handler[k].sale
    BY <1>2 DEF TypeOK
  <2>2. Got(t, what)
    BY <1>2, <2>1
  <2>3. QED
    BY <2>2, GotSet
<1> HIDE DEF Goal
<1>3. ASSUME PurchaseCheck(k) \/ RentalCheck(k) \/ ExtensionCheck(k)
      PROVE  Goal
  BY <1>1, <1>2, <1>3 DEF PurchaseCheck, RentalCheck, ExtensionCheck, At
<1>4. ASSUME PurchaseGrant(k) \/ RentalGrant(k) \/ ExtensionGrant(k)
      PROVE  Goal
  BY <1>2, <1>4 DEF PurchaseGrant, RentalGrant, ExtensionGrant, At
<1>5. ASSUME \/ RentalRevokeCheck(k) \/ RentalRevoke(k) \/ ExtensionRevoke(k)
             \/ RemovalFind(k) \/ Removal(k) \/ ShelveCheck(k) \/ Shelve(k)
             \/ WithdrawCheck(k) \/ ReturnRental(k) \/ Lost(k)
      PROVE  Goal
  BY <1>1, <1>5 DEF RentalRevokeCheck, RentalRevoke, ExtensionRevoke, RemovalFind, Removal,
                    ShelveCheck, Shelve, WithdrawCheck, ReturnRental, Lost
<1>6. Goal
  BY <1>3, <1>4, <1>5 DEF Handle
<1>7. QED
  BY <1>6 DEF Goal, Ordering, Bought

(***************************************************************************)
(* What the checks of the handlers see agrees with what the checks before  *)
(* the payment saw, so nothing is refused.                                 *)
(***************************************************************************)
LEMMA NoneRefusedStep == IInv /\ InHand /\ NoneRefused /\ Next /\ "old" \notin saw' => NoneRefused'
<1> SUFFICES ASSUME IInv, InHand, NoneRefused, Next, "old" \notin saw', NEW s \in Sales, sale'[s].kind # "extension"
             PROVE  sale'[s].got # "refused"
  BY DEF NoneRefused
<1>1. TypeOK /\ OneOnItsWay /\ RentalOnShelf
  BY DEF IInv, InHand
<1>2. ASSUME NEW k \in Slots
      PROVE  /\ ~ (Granting(k, "purchase") /\ OnShelf # {})
             /\ ~ (Granting(k, "rental") /\ NewestIsActive)
  BY <1>1 DEF OneOnItsWay, RentalOnShelf, Bringing
<1>3. QED
  BY <1>1, <1>2, EachSaleMoves DEF SaleMoves, NoneRefused

(***************************************************************************)
(* Every action of a handler but the four that bring or find a row, and    *)
(* its loss, is quiet.                                                     *)
(***************************************************************************)
LEMMA QuietHandler ==
    ASSUME IInv, InHand, Next, NEW k \in Slots, Handle(k), ~ Lost(k),
           ~ PurchaseGrant(k), ~ RentalGrant(k), ~ Shelve(k),
           WithdrawCheck(k) => handler'[k].pc # "found", "old" \notin saw'
    PROVE  Quiet
<1>1. TypeOK /\ OneOnItsWay /\ PurchaseOnShelf /\ WithdrawingNothingElse
  BY DEF IInv, InHand
<1>2. \A j \in Slots \ {k} : SlotQuiet(j) /\ handler'[j] = handler[j]
  BY <1>1, OwnSlot, SlotStays
<1>3. \A j \in Slots : ~ PurchaseGrant(j) /\ ~ RentalGrant(j) /\ ~ Shelve(j)
  <2> SUFFICES ASSUME NEW j \in Slots \ {k}, PurchaseGrant(j) \/ RentalGrant(j) \/ Shelve(j)
               PROVE  FALSE
    OBVIOUS
  <2>1. handler'[j] # handler[j]
    <3>1. End(j) => handler'[j].does = "nothing"
      BY <1>1 DEF TypeOK, End, Idle
    <3>2. \A r : Emit(j, "shelve", r) => handler'[j].does = "shelve"
      BY <1>1 DEF TypeOK, Emit
    <3>3. PurchaseGrant(j) => End(j) /\ handler[j].does = "grant"
      BY DEF PurchaseGrant, At
    <3>4. Shelve(j) => End(j) /\ handler[j].does = "shelve"
      BY DEF Shelve
    <3>5. RentalGrant(j) => handler[j].does = "grant" /\ \E r : Emit(j, "shelve", r)
      BY DEF RentalGrant, At
    <3>6. QED
      BY <3>1, <3>2, <3>3, <3>4, <3>5
  <2>2. QED
    BY <1>2, <2>1
<1>4. ShelfOnlyShrinks /\ RentalsOnlyEnd
  BY <1>3, ShelfShrinks, RentalsEnd
<1>5. SlotQuiet(k)
  <2>1. ASSUME handler'[k] = Idle
        PROVE  SlotQuiet(k)
    <3>1. ~ Granting(k, "purchase") /\ handler[k].does # "shelve"
      <4>1. ~ (PurchaseCheck(k) /\ OnShelf # {}) /\ ~ (ShelveCheck(k) /\ OnShelf # {})
        <5>1. PurchaseCheck(k) \/ ShelveCheck(k) => Bringing(k)
          BY DEF PurchaseCheck, ShelveCheck, At, Bringing, Granting
        <5>2. QED
          BY <1>1, <5>1 DEF OneOnItsWay
      <4>2. ~ (PurchaseCheck(k) /\ OnShelf = {}) /\ ~ (ShelveCheck(k) /\ OnShelf = {})
        <5> SUFFICES ASSUME (PurchaseCheck(k) \/ ShelveCheck(k)), OnShelf = {}
                     PROVE  FALSE
          OBVIOUS
        <5>1. Goto(k, "checked", 0)
          BY <1>1, ShelfAnswer
        <5>2. handler'[k].pc = "checked"
          BY <1>1, <5>1 DEF Goto, TypeOK
        <5>3. QED
          BY <2>1, <5>2 DEF Idle
      <4>3. \/ RentalCheck(k) \/ ExtensionCheck(k) \/ ExtensionGrant(k) \/ RentalRevokeCheck(k)
            \/ RentalRevoke(k) \/ ExtensionRevoke(k) \/ RemovalFind(k) \/ Removal(k) \/ WithdrawCheck(k)
            \/ ReturnRental(k)
        BY <4>1, <4>2 DEF Handle
      <4>4. QED
        BY <4>3 DEF RentalCheck, ExtensionCheck, ExtensionGrant, RentalRevokeCheck, RentalRevoke,
                    ExtensionRevoke, RemovalFind, Removal, WithdrawCheck, ReturnRental, At, Removing,
                    Granting
    <3>2. QED
      BY <2>1, <3>1 DEF SlotQuiet, Granting, TakingBack, Idle
  <2>2. ASSUME Goes(k)
        PROVE  SlotQuiet(k)
    <3>1. handler[k].does \in {"grant", "revoke"} => sale'[handler[k].sale].kind = sale[handler[k].sale].kind
      BY <1>1, HandlingSells DEF TypeOK
    <3>2. handler'[k].does = "withdraw" /\ handler'[k].pc # "start" => handler[k].pc # "start"
      <4>1. CASE RemovalFind(k)
        BY <2>2, <4>1 DEF RemovalFind, Goes
      <4>2. CASE PurchaseCheck(k) \/ RentalCheck(k) \/ ExtensionCheck(k) \/ ShelveCheck(k) \/ RentalRevokeCheck(k)
        BY <2>2, <4>2 DEF Goes, PurchaseCheck, RentalCheck, ExtensionCheck, ShelveCheck, RentalRevokeCheck, At
      <4>3. QED
        BY <2>2, <4>1, <4>2 DEF Goes
    <3>3. QED
      BY <2>2, <3>1, <3>2 DEF SlotQuiet, Granting, TakingBack, Goes
  <2>3. ASSUME RentalRevoke(k) \/ ReturnRental(k), handler'[k].does = "withdraw", handler'[k].pc = "start"
        PROVE  SlotQuiet(k)
    BY <2>3 DEF SlotQuiet, Granting, TakingBack, RentalRevoke, ReturnRental, At
  <2>4. CASE handler'[k] = handler[k]
    BY <2>4, SlotStays
  <2>5. handler[k] # Idle
    <3>1. CASE \/ PurchaseCheck(k) \/ PurchaseGrant(k) \/ RentalCheck(k) \/ RentalGrant(k)
               \/ ExtensionCheck(k) \/ ExtensionGrant(k) \/ RentalRevokeCheck(k) \/ RentalRevoke(k)
               \/ ExtensionRevoke(k)
      <4>1. handler[k].does \in {"grant", "revoke"}
        BY <3>1 DEF PurchaseCheck, PurchaseGrant, RentalCheck, RentalGrant, ExtensionCheck,
                    ExtensionGrant, RentalRevokeCheck, RentalRevoke, ExtensionRevoke, At
      <4>2. QED
        BY <4>1 DEF Idle
    <3>2. CASE \/ RemovalFind(k) \/ Removal(k) \/ ShelveCheck(k) \/ Shelve(k)
               \/ WithdrawCheck(k) \/ ReturnRental(k)
      <4>1. handler[k].does \in {"revoke", "shelve", "withdraw", "return"}
        BY <3>2 DEF RemovalFind, Removal, ShelveCheck, Shelve, WithdrawCheck, ReturnRental, Removing
      <4>2. QED
        BY <4>1 DEF Idle
    <3>3. QED
      BY <3>1, <3>2 DEF Handle
  <2>6. /\ \A s \in Sales : ~ PaymentCompleted(s, k) /\ ~ RefundCompleted(s, k) /\ ~ EventRepeated(s, k)
        /\ \A r : ~ ReturnCheck(r, k)
    BY <2>5 DEF PaymentCompleted, RefundCompleted, EventRepeated, ReturnCheck, Start
  <2>7. QED
    BY <1>1, <2>1, <2>2, <2>3, <2>4, <2>6, HandlerMoves DEF Moves
<1>6. OnShelf' = OnShelf \/ (~ NewestIsActive /\ \A s \in Sales : ~ Bought(s))
  <2>1. CASE Removal(k)
    <3>1. TakingBack(k) \/ (handler[k].does = "withdraw" /\ handler[k].pc # "start")
      BY <2>1 DEF Removal, Removing, TakingBack
    <3>2. QED
      BY <1>1, <3>1 DEF PurchaseOnShelf, WithdrawingNothingElse
  <2>2. CASE UNCHANGED library
    BY <2>2 DEF OnShelf
  <2>3. QED
    BY <2>1, <2>2 DEF Handle, PurchaseCheck, RentalCheck, ExtensionCheck, ExtensionGrant,
                      RentalRevokeCheck, RentalRevoke, ExtensionRevoke, RemovalFind, ShelveCheck,
                      WithdrawCheck, ReturnRental
<1>7. QED
  BY <1>1, <1>2, <1>4, <1>5, <1>6, HandlingSells DEF Quiet, ShelfOnlyShrinks

(***************************************************************************)
(* The shop, when it neither opens a checkout, takes money for the book    *)
(* nor gives the money of a purchase back.                                 *)
(***************************************************************************)
LEMMA QuietShop ==
    ASSUME IInv, InHand, Next,
           \/ \E s \in Sales, r \in DOMAIN rentals : extendRental(s, r)
           \/ \E s \in Sales, k \in Slots : PaymentCompleted(s, k) /\ ~ Ordering(s)
           \/ \E s \in Sales, k \in Slots : RefundCompleted(s, k) /\ ~ Bought(s)
           \/ \E r \in DOMAIN rentals : RentalLapses(r) \/ \E k \in Slots : ReturnCheck(r, k)
    PROVE  Quiet
<1>1. TypeOK
  BY DEF IInv
<1>2. UNCHANGED library /\ OnShelf' = OnShelf
  BY DEF extendRental, PaymentCompleted, RefundCompleted, RentalLapses, ReturnCheck, OnShelf
<1>3. RentalsOnlyEnd
  <2>1. CASE UNCHANGED rentals
    BY <2>1 DEF RentalsOnlyEnd, NewestIsActive
  <2>2. CASE \E r \in DOMAIN rentals : RentalLapses(r)
    <3>1. UNCHANGED handler
      BY <2>2 DEF RentalLapses
    <3>2. \A k \in Slots : RentalGrant(k) => handler'[k].does = "shelve" /\ handler[k].does = "grant"
      <4> SUFFICES ASSUME NEW k \in Slots, RentalGrant(k)
                   PROVE  handler'[k].does = "shelve" /\ handler[k].does = "grant"
        OBVIOUS
      <4>1. \E r : Emit(k, "shelve", r)
        BY DEF RentalGrant
      <4>2. QED
        BY <1>1, <4>1 DEF TypeOK, Emit, RentalGrant, At
    <3>3. QED
      BY <3>1, <3>2, RentalsEnd
  <2>3. QED
    BY <2>1, <2>2 DEF extendRental, PaymentCompleted, RefundCompleted, ReturnCheck
<1>4. ASSUME UNCHANGED handler
      PROVE  \A k \in Slots : SlotQuiet(k)
  BY <1>4, SlotStays
<1>5. ASSUME NEW k \in Slots, NEW h, handler[k].does = "nothing", handler' = [handler EXCEPT ![k] = h],
             \/ h.does = "return"
             \/ /\ h.does = "grant" /\ sale'[h.sale].kind = "extension"
             \/ /\ h.does = "revoke" /\ sale'[h.sale].kind # "purchase"
      PROVE  \A j \in Slots : SlotQuiet(j)
  <2>1. handler'[k] = h /\ \A j \in Slots \ {k} : handler'[j] = handler[j]
    BY <1>1, <1>5, SlotSet
  <2>2. \A j \in Slots \ {k} : SlotQuiet(j)
    BY <2>1, SlotStays
  <2>3. SlotQuiet(k)
    BY <1>5, <2>1 DEF SlotQuiet, Granting, TakingBack
  <2>4. QED
    BY <2>2, <2>3
<1>6. CASE \/ \E s \in Sales, r \in DOMAIN rentals : extendRental(s, r)
           \/ \E r \in DOMAIN rentals : RentalLapses(r)
  <2>1. \A k \in Slots : SlotQuiet(k)
    BY <1>4, <1>6 DEF extendRental, RentalLapses
  <2>2. \A s \in Sales : (Ordering(s)' => Ordering(s)) /\ (Bought(s)' => Bought(s))
    <3>1. CASE UNCHANGED sale
      BY <3>1 DEF Ordering, Bought
    <3>2. ASSUME NEW t \in Sales, NEW r \in DOMAIN rentals, extendRental(t, r)
          PROVE  \A s \in Sales : (Ordering(s)' => Ordering(s)) /\ (Bought(s)' => Bought(s))
      <4>1. /\ sale'[t].kind = "extension"
            /\ \A u \in Sales \ {t} : sale'[u] = sale[u]
        BY <1>1, <3>2 DEF extendRental, TypeOK
      <4>2. QED
        BY <4>1 DEF Ordering, Bought
    <3>3. QED
      BY <1>6, <3>1, <3>2 DEF RentalLapses
  <2>3. QED
    BY <1>2, <1>3, <2>1, <2>2 DEF Quiet
<1>7. ASSUME NEW t \in Sales, NEW k \in Slots, PaymentCompleted(t, k), ~ Ordering(t)
      PROVE  Quiet
  <2> DEFINE h == [does |-> "grant", sale |-> t, rental |-> 0, pc |-> "start", seen |-> 0]
  <2>1. /\ sale[t].stage = "open" /\ Stage(t, "captured") /\ handler[k] = Idle
        /\ handler' = [handler EXCEPT ![k] = h]
    BY <1>7 DEF PaymentCompleted, Start
  <2>2. sale[t].kind = "extension"
    BY <1>7, <2>1 DEF Ordering
  <2>3. sale'[t].kind = "extension" /\ \A u \in Sales \ {t} : sale'[u] = sale[u]
    BY <1>1, <2>1, <2>2, StageSet
  <2>4. \A s \in Sales : (Ordering(s)' => Ordering(s)) /\ (Bought(s)' => Bought(s))
    BY <2>3 DEF Ordering, Bought
  <2>5. h.does = "grant" /\ h.sale = t /\ handler[k].does = "nothing"
    BY <2>1 DEF Idle
  <2> HIDE DEF h
  <2>6. \A j \in Slots : SlotQuiet(j)
    BY <1>5, <2>1, <2>3, <2>5
  <2>7. QED
    BY <1>2, <1>3, <2>4, <2>6 DEF Quiet
<1>8. ASSUME NEW t \in Sales, NEW k \in Slots, RefundCompleted(t, k), ~ Bought(t)
      PROVE  Quiet
  <2> DEFINE h == [does |-> "revoke", sale |-> t, rental |-> 0, pc |-> "start", seen |-> 0]
  <2>1. /\ sale[t].stage = "captured" /\ Stage(t, "refunded") /\ handler[k] = Idle
        /\ handler' = [handler EXCEPT ![k] = h]
    BY <1>8 DEF RefundCompleted, Start
  <2>2. sale[t].kind # "purchase"
    BY <1>8, <2>1 DEF Bought
  <2>3. /\ sale'[t].kind # "purchase" /\ sale'[t].stage = "refunded"
        /\ \A u \in Sales \ {t} : sale'[u] = sale[u]
    BY <1>1, <2>1, <2>2, StageSet
  <2>4. \A s \in Sales : (Ordering(s)' => Ordering(s)) /\ (Bought(s)' => Bought(s))
    BY <2>3 DEF Ordering, Bought
  <2>5. h.does = "revoke" /\ h.sale = t /\ handler[k].does = "nothing"
    BY <2>1 DEF Idle
  <2> HIDE DEF h
  <2>6. \A j \in Slots : SlotQuiet(j)
    BY <1>5, <2>1, <2>3, <2>5
  <2>7. QED
    BY <1>2, <1>3, <2>4, <2>6 DEF Quiet
<1>9. ASSUME NEW r \in DOMAIN rentals, NEW k \in Slots, ReturnCheck(r, k)
      PROVE  Quiet
  <2> DEFINE h == [does |-> "return", sale |-> None, rental |-> r, pc |-> "checked", seen |-> 0]
  <2>1. UNCHANGED sale /\ handler[k].does = "nothing" /\ handler' = [handler EXCEPT ![k] = h] /\ h.does = "return"
    BY <1>9 DEF ReturnCheck, Start, Idle
  <2> HIDE DEF h
  <2>2. \A j \in Slots : SlotQuiet(j)
    BY <1>5, <2>1
  <2>3. \A s \in Sales : (Ordering(s)' => Ordering(s)) /\ (Bought(s)' => Bought(s))
    BY <2>1 DEF Ordering, Bought
  <2>4. QED
    BY <1>2, <1>3, <2>2, <2>3 DEF Quiet
<1>10. QED
  BY <1>6, <1>7, <1>8, <1>9

(***************************************************************************)
(* A checkout that nothing rivals: nothing else is on its way, the shelf   *)
(* is empty and so no rental is active.                                    *)
(***************************************************************************)
LEMMA CheckoutAlone ==
    ASSUME IInv, InHand, Next, NEW s \in Sales, NEW kind \in {"purchase", "rental"}, Checkout(s, kind),
           "rival" \notin saw', "old" \notin saw'
    PROVE  InHand'
<1>1. TypeOK /\ OneOnItsWay /\ RentalOnShelf /\ PurchaseOnShelf /\ WithdrawingNothingElse
  BY DEF IInv, InHand
<1>2. /\ UNCHANGED <<library, rentals, handler>> /\ OnShelf = {} /\ Rivals = {}
      /\ sale'[s].stage = "open" /\ \A t \in Sales \ {s} : sale'[t] = sale[t]
  <2>1. 0 \in ShelfNow /\ Rivals = {}
    BY DEF Checkout, ReadShelf, Reading
  <2>2. 0 \notin OnShelf
    BY <1>1, LenProperties DEF OnShelf, TypeOK
  <2>3. OnShelf = {}
    BY <2>1, <2>2 DEF ShelfNow
  <2>4. QED
    BY <1>1, <2>1, <2>3 DEF Checkout, TypeOK
<1>3. (\A k \in Slots : handler'[k].does = "nothing") /\ OnShelf' = {} /\ ~ NewestIsActive'
  <2>1. \A k \in Slots : handler[k].does = "nothing"
    BY <1>2 DEF Rivals, Busy
  <2>2. ~ NewestIsActive
    BY <1>1, <1>2, <2>1 DEF RentalOnShelf
  <2>3. QED
    BY <1>2, <2>1, <2>2 DEF OnShelf, NewestIsActive
<1>4. \A k \in Slots : ~ Bringing(k)' /\ ~ Granting(k, "purchase")' /\ ~ Granting(k, "rental")' /\ ~ TakingBack(k)'
  BY <1>3 DEF Bringing, Granting, TakingBack
<1>5. \A t \in Sales : Ordering(t)' => t = s
  BY <1>2 DEF Ordering, Rivals
<1>6. \A t \in Sales : ~ Bought(t)'
  <2>1. \A t \in Sales : ~ Bought(t)
    <3>1. \A k \in Slots : handler[k].does = "nothing"
      BY <1>2, <1>3
    <3>2. QED
      BY <1>1, <1>2, <3>1 DEF PurchaseOnShelf
  <2>2. QED
    BY <1>2, <2>1 DEF Bought
<1>7. OneOnItsWay' /\ RentalOnShelf' /\ PurchaseOnShelf' /\ WithdrawingNothingElse'
  <2>1. OneOnItsWay'
    BY <1>3, <1>4, <1>5 DEF OneOnItsWay
  <2>2. RentalOnShelf'
    BY <1>3, <1>4 DEF RentalOnShelf
  <2>3. PurchaseOnShelf'
    BY <1>4, <1>6 DEF PurchaseOnShelf
  <2>4. WithdrawingNothingElse'
    BY <1>3 DEF WithdrawingNothingElse
  <2>5. QED
    BY <2>1, <2>2, <2>3, <2>4
<1>8. QED
  BY <1>7 DEF InHand

\* The slots that do not move bring, take back and withdraw what they did.
LEMMA OtherSlots ==
    ASSUME IInv, Next, NEW k \in Slots, \A j \in Slots \ {k} : handler'[j] = handler[j]
    PROVE  \A j \in Slots \ {k} :
              /\ Granting(j, "purchase")' <=> Granting(j, "purchase")
              /\ Granting(j, "rental")' <=> Granting(j, "rental")
              /\ Bringing(j)' <=> Bringing(j)
              /\ TakingBack(j)' <=> TakingBack(j)
BY SlotStays

(***************************************************************************)
(* The payment of a book: what was being ordered is being granted.         *)
(***************************************************************************)
LEMMA OrderIsPaid ==
    ASSUME IInv, InHand, Next, NEW s \in Sales, NEW k \in Slots, PaymentCompleted(s, k), Ordering(s)
    PROVE  InHand'
<1>1. TypeOK /\ OneOnItsWay /\ RentalOnShelf /\ PurchaseOnShelf /\ WithdrawingNothingElse
  BY DEF IInv, InHand
<1> DEFINE h == [does |-> "grant", sale |-> s, rental |-> 0, pc |-> "start", seen |-> 0]
<1>2. /\ UNCHANGED <<library, rentals>> /\ Stage(s, "captured")
      /\ handler' = [handler EXCEPT ![k] = h] /\ h.does = "grant" /\ h.sale = s
  BY DEF PaymentCompleted, Start
<1> HIDE DEF h
<1>3. /\ handler'[k].does = "grant" /\ handler'[k].sale = s
      /\ \A j \in Slots \ {k} : handler'[j] = handler[j]
  BY <1>1, <1>2, SlotSet
<1>4. sale'[s].stage = "captured" /\ \A t \in Sales \ {s} : sale'[t] = sale[t]
  BY <1>1, <1>2, StageSet
<1>5. /\ OnShelf' = {} /\ ~ NewestIsActive'
      /\ \A t \in Sales : ~ Ordering(t)'
      /\ \A t \in Sales : Bought(t)' => t = s
      /\ \A j \in Slots : Bringing(j)' => j = k
      /\ \A j \in Slots \ {k} : ~ Granting(j, "purchase")' /\ ~ Granting(j, "rental")'
      /\ \A j \in Slots : ~ TakingBack(j)' /\ handler'[j].does # "shelve"
      /\ \A j \in Slots : ~ (handler'[j].does = "withdraw" /\ handler'[j].pc # "start")
  <2>1. OnShelf = {} /\ ~ NewestIsActive
    BY <1>1 DEF OneOnItsWay, RentalOnShelf
  <2>2. \A j \in Slots : ~ Bringing(j) /\ ~ TakingBack(j)
    BY <1>1 DEF OneOnItsWay, PurchaseOnShelf
  <2>3. \A t \in Sales : ~ Bought(t)
    BY <1>1 DEF PurchaseOnShelf
  <2>4. \A j \in Slots : ~ (handler[j].does = "withdraw" /\ handler[j].pc # "start")
    BY <1>1 DEF WithdrawingNothingElse
  <2>5. \A t \in Sales : Ordering(t) => t = s
    BY <1>1 DEF OneOnItsWay
  <2>6. OnShelf' = {} /\ ~ NewestIsActive'
    BY <1>2, <2>1 DEF OnShelf, NewestIsActive
  <2>7. \A t \in Sales : ~ Ordering(t)' /\ (Bought(t)' => t = s)
    BY <1>4, <2>3, <2>5 DEF Ordering, Bought
  <2>8. \A j \in Slots \ {k} : ~ Bringing(j)' /\ ~ TakingBack(j)'
    BY <1>3, <2>2, OtherSlots
  <2>9. ~ TakingBack(k)' /\ handler'[k].does # "shelve"
    BY <1>3 DEF TakingBack
  <2>10. QED
    BY <1>3, <2>4, <2>6, <2>7, <2>8, <2>9 DEF Bringing
<1>6. Granting(k, "rental")' => ~ Bought(s)'
  BY <1>3 DEF Granting, Bought
<1>7. OneOnItsWay'
  BY <1>5 DEF OneOnItsWay
<1>8. RentalOnShelf'
  BY <1>5 DEF RentalOnShelf
<1>9. PurchaseOnShelf'
  BY <1>3, <1>5, <1>6 DEF PurchaseOnShelf
<1>10. WithdrawingNothingElse'
  BY <1>5 DEF WithdrawingNothingElse
<1>11. QED
  BY <1>7, <1>8, <1>9, <1>10 DEF InHand

(***************************************************************************)
(* The refund of a purchase: nothing else is bought, ordered or rented.    *)
(***************************************************************************)
LEMMA PurchaseIsRefunded ==
    ASSUME IInv, InHand, Next, NEW s \in Sales, NEW k \in Slots, RefundCompleted(s, k), Bought(s)
    PROVE  InHand'
<1>1. TypeOK /\ OneOnItsWay /\ RentalOnShelf /\ PurchaseOnShelf /\ WithdrawingNothingElse
  BY DEF IInv, InHand
<1> DEFINE h == [does |-> "revoke", sale |-> s, rental |-> 0, pc |-> "start", seen |-> 0]
<1>2. /\ UNCHANGED <<library, rentals>> /\ Stage(s, "refunded")
      /\ handler' = [handler EXCEPT ![k] = h] /\ h.does = "revoke" /\ h.sale = s
  BY DEF RefundCompleted, Start
<1> HIDE DEF h
<1>3. /\ handler'[k].does = "revoke" /\ handler'[k].sale = s
      /\ \A j \in Slots \ {k} : handler'[j] = handler[j]
  BY <1>1, <1>2, SlotSet
<1>4. sale'[s].stage = "refunded" /\ \A t \in Sales \ {s} : sale'[t] = sale[t]
  BY <1>1, <1>2, StageSet
<1>5. OnShelf' = OnShelf /\ ~ NewestIsActive'
  <2>1. ~ NewestIsActive
    BY <1>1 DEF PurchaseOnShelf
  <2>2. QED
    BY <1>2, <2>1 DEF OnShelf, NewestIsActive
<1>6. \A t \in Sales : ~ Ordering(t)' /\ ~ Bought(t)'
  <2>1. \A t \in Sales : ~ Ordering(t) /\ (Bought(t) => t = s)
    BY <1>1 DEF PurchaseOnShelf
  <2>2. QED
    BY <1>4, <2>1 DEF Ordering, Bought
<1>7. /\ ~ Bringing(k)' /\ ~ Granting(k, "purchase")' /\ ~ Granting(k, "rental")'
      /\ \A j \in Slots \ {k} : Bringing(j)' => Bringing(j)
      /\ \A j \in Slots \ {k} : ~ Granting(j, "rental")' /\ handler'[j].does # "shelve"
  <2>1. ~ Bringing(k)' /\ ~ Granting(k, "purchase")' /\ ~ Granting(k, "rental")'
    BY <1>3 DEF Bringing, Granting
  <2>2. \A j \in Slots : ~ Granting(j, "rental") /\ handler[j].does # "shelve"
    BY <1>1 DEF PurchaseOnShelf
  <2>3. QED
    BY <1>3, <2>1, <2>2, OtherSlots
<1>8. \A j \in Slots : ~ (handler'[j].does = "withdraw" /\ handler'[j].pc # "start")
  <2>1. \A j \in Slots : ~ (handler[j].does = "withdraw" /\ handler[j].pc # "start")
    BY <1>1 DEF WithdrawingNothingElse
  <2>2. QED
    BY <1>3, <2>1
<1>9. \A j \in Slots : ~ Granting(j, "rental")' /\ handler'[j].does # "shelve"
  BY <1>3, <1>7
<1>10. OneOnItsWay'
  <2>1. \A i, j \in Slots : Bringing(i)' /\ Bringing(j)' => i = j
    BY <1>1, <1>7 DEF OneOnItsWay
  <2>2. (\E j \in Slots : Bringing(j)') => OnShelf' = {}
    BY <1>1, <1>5, <1>7 DEF OneOnItsWay
  <2>3. QED
    BY <1>1, <1>5, <1>6, <2>1, <2>2 DEF OneOnItsWay
<1>11. RentalOnShelf'
  BY <1>5, <1>6, <1>9 DEF RentalOnShelf
<1>12. PurchaseOnShelf'
  BY <1>5, <1>6, <1>9 DEF PurchaseOnShelf
<1>13. WithdrawingNothingElse'
  BY <1>8 DEF WithdrawingNothingElse
<1>14. QED
  BY <1>10, <1>11, <1>12, <1>13 DEF InHand

(***************************************************************************)
(* The book that was on its way arrives: while it was, no other was and    *)
(* nothing was being withdrawn.                                            *)
(***************************************************************************)
LEMMA WhileBringing ==
    ASSUME IInv, InHand, Next, NEW k \in Slots, Handle(k), Bringing(k)
    PROVE  /\ OnShelf = {}
           /\ \A s \in Sales : ~ Ordering(s)' /\ (Bought(s)' <=> Bought(s))
           /\ \A j \in Slots \ {k} : /\ ~ Bringing(j)'
                                     /\ ~ Granting(j, "purchase")' /\ ~ Granting(j, "rental")'
                                     /\ handler'[j].does # "shelve"
                                     /\ TakingBack(j)' <=> TakingBack(j)
                                     /\ ~ (handler'[j].does = "withdraw" /\ handler'[j].pc # "start")
<1>1. TypeOK /\ OneOnItsWay /\ WithdrawingNothingElse
  BY DEF IInv, InHand
<1>2. \A j \in Slots \ {k} : handler'[j] = handler[j]
  BY <1>1, OwnSlot
<1>3. \A j \in Slots \ {k} : ~ Bringing(j)
  BY <1>1 DEF OneOnItsWay
<1>4. \A j \in Slots \ {k} : ~ Bringing(j)' /\ (TakingBack(j)' <=> TakingBack(j))
  BY <1>2, <1>3, OtherSlots
<1>5. \A j \in Slots : ~ (handler[j].does = "withdraw" /\ handler[j].pc # "start")
  BY <1>1 DEF WithdrawingNothingElse
<1>6. \A s \in Sales : ~ Ordering(s)
  BY <1>1 DEF OneOnItsWay
<1>7. \A s \in Sales : ~ Ordering(s)' /\ (Bought(s)' <=> Bought(s))
  BY <1>1, <1>6, HandlingSells
<1>8. OnShelf = {}
  BY <1>1 DEF OneOnItsWay
<1>9. QED
  BY <1>2, <1>4, <1>5, <1>7, <1>8 DEF Bringing

\* The slot of a handler that ends is free; one that emits goes on as a listener.
LEMMA EndsFree ==
    ASSUME TypeOK, NEW k \in Slots, End(k)
    PROVE  handler'[k].does = "nothing"
BY DEF TypeOK, End, Idle

LEMMA EmitsTo ==
    ASSUME TypeOK, NEW k \in Slots, NEW does, NEW r, Emit(k, does, r)
    PROVE  handler'[k].does = does /\ handler'[k].rental = r
BY DEF TypeOK, Emit

LEMMA PurchaseArrives ==
    ASSUME IInv, InHand, Next, NEW k \in Slots, Handle(k), PurchaseGrant(k)
    PROVE  InHand'
<1>1. TypeOK /\ RentalOnShelf /\ PurchaseOnShelf
  BY DEF IInv, InHand
<1>2. Granting(k, "purchase") /\ Bringing(k)
  BY DEF PurchaseGrant, At, Granting, Bringing
<1>3. handler'[k].does = "nothing"
  BY <1>1, EndsFree DEF PurchaseGrant
<1>4. ~ Bringing(k)' /\ ~ TakingBack(k)' /\ ~ Granting(k, "purchase")' /\ ~ Granting(k, "rental")'
  BY <1>3 DEF Bringing, TakingBack, Granting
<1>5. ~ NewestIsActive'
  BY <1>1, <1>2 DEF RentalOnShelf, PurchaseGrant, NewestIsActive
<1>6. PICK new : OnShelf' = {new} /\ library'[new].rental = 0
  BY <1>1, <1>2, PurchaseShelved, WhileBringing
<1>7. OneOnItsWay'
  BY <1>2, <1>4, <1>6, WhileBringing DEF OneOnItsWay
<1>8. RentalOnShelf'
  BY <1>2, <1>3, <1>4, <1>5, WhileBringing DEF RentalOnShelf
<1>9. PurchaseOnShelf'
  <2>1. /\ \A s, t \in Sales : Bought(s)' /\ Bought(t)' => s = t
        /\ \A s \in Sales : Bought(s)' => \A j \in Slots : ~ TakingBack(j)'
    BY <1>1, <1>2, <1>4, WhileBringing DEF PurchaseOnShelf
  <2>2. \A s \in Sales : ~ Ordering(s)'
    BY <1>2, WhileBringing
  <2>3. \A j \in Slots : ~ Granting(j, "rental")' /\ handler'[j].does # "shelve"
    BY <1>2, <1>3, <1>4, WhileBringing
  <2>4. QED
    BY <1>5, <1>6, <2>1, <2>2, <2>3 DEF PurchaseOnShelf
<1>10. WithdrawingNothingElse'
  BY <1>2, <1>3, WhileBringing DEF WithdrawingNothingElse
<1>11. QED
  BY <1>7, <1>8, <1>9, <1>10 DEF InHand

LEMMA RentalStarts ==
    ASSUME IInv, InHand, Next, NEW k \in Slots, Handle(k), RentalGrant(k)
    PROVE  InHand'
<1>1. TypeOK /\ PurchaseOnShelf
  BY DEF IInv, InHand
<1>2. Granting(k, "rental") /\ Bringing(k)
  BY DEF RentalGrant, At, Granting, Bringing
<1>3. handler'[k].does = "shelve" /\ handler'[k].rental = Len(rentals) + 1
  BY <1>1, EmitsTo DEF RentalGrant
<1>4. ~ TakingBack(k)' /\ ~ Granting(k, "purchase")' /\ ~ Granting(k, "rental")'
  BY <1>3 DEF TakingBack, Granting
<1>5. Len(rentals') = Len(rentals) + 1
  BY <1>1, RentalAdded
<1>6. OnShelf' = {}
  BY <1>2, WhileBringing DEF RentalGrant, OnShelf
<1>7. (\A s \in Sales : ~ Bought(s)) /\ (\A j \in Slots : ~ TakingBack(j))
  BY <1>1, <1>2 DEF PurchaseOnShelf
<1>8. OneOnItsWay'
  BY <1>2, <1>6, WhileBringing DEF OneOnItsWay
<1>9. RentalOnShelf'
  <2>1. \A s \in Sales : ~ Ordering(s)'
    BY <1>2, WhileBringing
  <2>2. \A j \in Slots : ~ Granting(j, "purchase")' /\ ~ Granting(j, "rental")'
    BY <1>2, <1>4, WhileBringing
  <2>3. \A j \in Slots : handler'[j].does = "shelve" => handler'[j].rental = Len(rentals')
    BY <1>2, <1>3, <1>5, WhileBringing
  <2>4. QED
    BY <1>3, <2>1, <2>2, <2>3 DEF RentalOnShelf
<1>10. PurchaseOnShelf'
  <2>1. (\A s \in Sales : ~ Bought(s)') /\ (\A j \in Slots : ~ TakingBack(j)')
    BY <1>2, <1>4, <1>7, WhileBringing
  <2>2. QED
    BY <2>1 DEF PurchaseOnShelf
<1>11. WithdrawingNothingElse'
  BY <1>2, <1>3, WhileBringing DEF WithdrawingNothingElse
<1>12. QED
  BY <1>8, <1>9, <1>10, <1>11 DEF InHand

LEMMA RentalArrives ==
    ASSUME IInv, InHand, Next, NEW k \in Slots, Handle(k), Shelve(k)
    PROVE  InHand'
<1>1. TypeOK /\ RentalOnShelf /\ PurchaseOnShelf
  BY DEF IInv, InHand
<1>2. handler[k].does = "shelve" /\ Bringing(k) /\ UNCHANGED rentals
  BY DEF Shelve, Bringing
<1>3. handler'[k].does = "nothing"
  BY <1>1, EndsFree DEF Shelve
<1>4. ~ Bringing(k)' /\ ~ TakingBack(k)' /\ ~ Granting(k, "purchase")' /\ ~ Granting(k, "rental")'
  BY <1>3 DEF Bringing, TakingBack, Granting
<1>5. PICK new : OnShelf' = {new} /\ library'[new].rental = Len(rentals')
  <2>1. handler[k].rental = Len(rentals')
    BY <1>1, <1>2 DEF RentalOnShelf
  <2>2. QED
    BY <1>1, <1>2, <2>1, RentalShelved, WhileBringing
<1>6. (\A s \in Sales : ~ Bought(s)) /\ (\A j \in Slots : ~ TakingBack(j))
  BY <1>1, <1>2 DEF PurchaseOnShelf
<1>7. OneOnItsWay'
  BY <1>2, <1>4, <1>5, WhileBringing DEF OneOnItsWay
<1>8. RentalOnShelf'
  <2>1. \A s \in Sales : ~ Ordering(s)'
    BY <1>2, WhileBringing
  <2>2. \A j \in Slots : ~ Granting(j, "purchase")' /\ ~ Granting(j, "rental")' /\ handler'[j].does # "shelve"
    BY <1>2, <1>3, <1>4, WhileBringing
  <2>3. QED
    BY <1>5, <2>1, <2>2 DEF RentalOnShelf
<1>9. PurchaseOnShelf'
  <2>1. (\A s \in Sales : ~ Bought(s)') /\ (\A j \in Slots : ~ TakingBack(j)')
    BY <1>2, <1>4, <1>6, WhileBringing
  <2>2. QED
    BY <2>1 DEF PurchaseOnShelf
<1>10. WithdrawingNothingElse'
  BY <1>2, <1>3, WhileBringing DEF WithdrawingNothingElse
<1>11. QED
  BY <1>7, <1>8, <1>9, <1>10 DEF InHand

(***************************************************************************)
(* A withdrawal that finds the row of its rental: it is the only row, and  *)
(* its rental has ended, so nobody counts on it.                           *)
(***************************************************************************)
LEMMA WithdrawalFinds ==
    ASSUME IInv, InHand, Following, Next, NEW k \in Slots, WithdrawCheck(k), handler'[k].pc = "found",
           "old" \notin saw'
    PROVE  InHand'
<1>1. TypeOK /\ OneOnItsWay /\ RentalOnShelf /\ PurchaseOnShelf
  BY DEF IInv, InHand
<1>2. /\ handler[k].does = "withdraw" /\ UNCHANGED <<sale, library, rentals>>
      /\ \A j \in Slots \ {k} : handler'[j] = handler[j]
  BY <1>1, OwnSlot DEF WithdrawCheck, Handle
<1>3. Goto(k, "found", 0) /\ \E i \in OnShelf : library[i].rental = handler[k].rental
  <2>1. End(k) => handler'[k].pc # "found"
    BY <1>1 DEF TypeOK, End, Idle
  <2>2. QED
    BY <1>1, <2>1, ShelfAnswer
<1>4. handler'[k].does = "withdraw"
  BY <1>1, <1>2, <1>3 DEF TypeOK, Goto
<1>5. PICK i \in OnShelf : OnShelf = {i} /\ library[i].rental = handler[k].rental
  BY <1>1, <1>3 DEF OneOnItsWay
<1>6. handler[k].rental \in 1..Len(rentals) /\ rentals[handler[k].rental].status # "active"
  BY <1>1, <1>2 DEF TypeOK, Following
<1>7. /\ \A s \in Sales : ~ Ordering(s)
      /\ \A j \in Slots : ~ Bringing(j)
  BY <1>1, <1>5 DEF OneOnItsWay
<1>8. ~ NewestIsActive
  <2>1. \A j \in Slots : handler[j].does # "shelve"
    BY <1>7 DEF Bringing
  <2>2. NewestIsActive => handler[k].rental = Len(rentals)
    BY <1>1, <1>5, <2>1 DEF RentalOnShelf
  <2>3. QED
    BY <1>6, <2>2 DEF NewestIsActive
<1>9. ASSUME NEW s \in Sales, Bought(s)
      PROVE  FALSE
  <2>1. library[i].rental # 0
    BY <1>5, <1>6
  <2>2. \A j \in Slots : ~ (handler[j].does = "grant" /\ handler[j].sale = s)
    BY <1>7, <1>9 DEF Bringing, Granting, Bought
  <2>3. QED
    BY <1>1, <1>5, <1>9, <2>1, <2>2 DEF PurchaseOnShelf
<1>10. /\ \A s \in Sales : ~ Ordering(s)' /\ ~ Bought(s)'
       /\ ~ NewestIsActive' /\ OnShelf' = {i}
  BY <1>2, <1>5, <1>7, <1>8, <1>9 DEF Ordering, Bought, NewestIsActive, OnShelf
<1>11. \A j \in Slots : ~ Bringing(j)'
  <2>1. ~ Bringing(k)'
    BY <1>4 DEF Bringing, Granting
  <2>2. QED
    BY <1>2, <1>7, <2>1, OtherSlots
<1>12. \A j \in Slots : ~ Granting(j, "purchase")' /\ ~ Granting(j, "rental")' /\ handler'[j].does # "shelve"
  BY <1>11 DEF Bringing
<1>13. OneOnItsWay' /\ RentalOnShelf' /\ PurchaseOnShelf' /\ WithdrawingNothingElse'
  <2>1. OneOnItsWay'
    BY <1>10, <1>11 DEF OneOnItsWay
  <2>2. RentalOnShelf'
    BY <1>10, <1>12 DEF RentalOnShelf
  <2>3. PurchaseOnShelf'
    BY <1>10, <1>12 DEF PurchaseOnShelf
  <2>4. WithdrawingNothingElse'
    BY <1>10, <1>11 DEF WithdrawingNothingElse
  <2>5. QED
    BY <2>1, <2>2, <2>3, <2>4
<1>14. QED
  BY <1>13 DEF InHand

LEMMA DeliveredStep == IInv /\ Following /\ Delivered /\ Next => Delivered'
<1> SUFFICES ASSUME IInv, Following, Delivered, Next,
                    saw' \cap {"rival", "removed", "repeat", "loss", "old"} = {}
             PROVE  InHand' /\ NoneRefused'
  BY DEF Delivered, InHand, NoneRefused
<1>1. saw \cap {"rival", "removed", "repeat", "loss", "old"} = {}
  BY SawGrows
<1>2. InHand /\ NoneRefused
  BY <1>1 DEF Delivered, InHand, NoneRefused
<1>3. /\ \A k : ~ Lost(k)
      /\ \A s, k : ~ EventRepeated(s, k)
      /\ \A i : ~ RemoveFromLibrary(i)
  BY DEF Lost, EventRepeated, RemoveFromLibrary
<1>4. ASSUME NEW s \in Sales, NEW k \in Slots, PaymentCompleted(s, k) \/ RefundCompleted(s, k)
      PROVE  InHand'
  BY <1>2, <1>4, QuietShop, QuietStep, OrderIsPaid, PurchaseIsRefunded
<1>5. ASSUME NEW s \in Sales, NEW kind \in {"purchase", "rental"}, Checkout(s, kind)
      PROVE  InHand'
  BY <1>2, <1>5, CheckoutAlone
<1>6. ASSUME \/ \E s \in Sales, r \in DOMAIN rentals : extendRental(s, r)
             \/ \E r \in DOMAIN rentals : RentalLapses(r) \/ \E k \in Slots : ReturnCheck(r, k)
      PROVE  InHand'
  BY <1>2, <1>6, QuietShop, QuietStep
<1>7. ASSUME NEW k \in Slots, Handle(k)
      PROVE  InHand'
  BY <1>2, <1>3, <1>7, QuietHandler, QuietStep, PurchaseArrives, RentalStarts, RentalArrives, WithdrawalFinds
<1>8. InHand'
  BY <1>3, <1>4, <1>5, <1>6, <1>7 DEF Next, Shop
<1>9. QED
  BY <1>2, <1>8, NoneRefusedStep

(***************************************************************************)
(* Who pays for one book at a time, and is answered with the latest rows,  *)
(* gets it: what purchase and rent check before the checkout still holds   *)
(* when handlePaymentCompleted looks again, whatever is returned, lapses   *)
(* or is refunded in between.                                              *)
(***************************************************************************)
THEOREM NobodyPaysInVain == Spec => []NothingPaidInVain
<1>1. Init => Following /\ Delivered
  <2> SUFFICES ASSUME Init
               PROVE  Following /\ Delivered
    OBVIOUS
  <2>1. OnShelf = {} /\ ~ NewestIsActive
    BY EmptySeq DEF Init, OnShelf, NewestIsActive
  <2>2. /\ \A k \in Slots : handler[k].does = "nothing"
        /\ \A s \in Sales : sale[s].stage = "none" /\ sale[s].got = "none"
        /\ saw = {}
    BY DEF Init, Idle
  <2>3. /\ \A s \in Sales : ~ Ordering(s) /\ ~ Bought(s)
        /\ \A k \in Slots : ~ Bringing(k) /\ ~ TakingBack(k)
    BY <2>2 DEF Ordering, Bought, Bringing, TakingBack, Granting
  <2>4. QED
    BY <2>1, <2>2, <2>3 DEF Following, Delivered, OneOnItsWay, RentalOnShelf, PurchaseOnShelf,
                            WithdrawingNothingElse
<1>2. IInv /\ Following /\ Delivered /\ [Next]_vars => Following' /\ Delivered'
  <2>1. Following /\ UNCHANGED vars => Following'
    BY DEF vars, Following
  <2>2. Delivered /\ UNCHANGED vars => Delivered'
    BY DEF vars, Delivered, OneOnItsWay, RentalOnShelf, PurchaseOnShelf, WithdrawingNothingElse,
           Ordering, Bringing, Granting, Bought, TakingBack, OnShelf, NewestIsActive
  <2>3. QED
    BY <2>1, <2>2, FollowingStep, DeliveredStep
<1>3. Delivered => NothingPaidInVain
  BY DEF Delivered, NothingPaidInVain
<1>4. QED
  BY <1>1, <1>2, <1>3, EntitlementsInvariant, PTL DEF Spec
=============================================================================
