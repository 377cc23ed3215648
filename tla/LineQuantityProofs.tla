------------------------- MODULE LineQuantityProofs -------------------------
(***************************************************************************)
(* What LineQuantity guarantees for any lines, quantities and requests,    *)
(* whether or not the server keeps the order of the requests; and what it  *)
(* guarantees besides of a server that does (InOrder).                     *)
(***************************************************************************)
EXTENDS LineQuantity, FiniteSetTheorems, TLAPS

\* A ticket names one request.
TicketsDistinct == \A r, s \in wire : r.ticket = s.ticket => r = s

\* The newest request of a line, as the page remembers it, is one it still waits for.
NewestOnTheWire ==
    Alive => \A p \in Products : newest[p] # 0 =>
                 \E r \in wire : r.kind = "set" /\ r.product = p /\ r.ticket = newest[p]

\* A step is with its timer or with the line's newest request.
StepsCarried ==
    \A p \in Products : pending[p] # None =>
        \/ p \in armed
        \/ \E r \in wire : /\ r.kind = "set" /\ r.product = p
                           /\ r.quantity = pending[p] /\ r.ticket = newest[p]

GoneHasNoSteps == page = "hidden" => pending = Empty

\* While a checkout runs no timer does, and settle() waits for every line's newest request and has
\* noticed every one that failed.
PlacingArmsNothing == placing # "no" => armed = {}
SettlingWaitsForAll ==
    placing = "settling" => /\ \A p \in Products : newest[p] \in awaited \cup {0}
                            /\ told # {} => anyFailed

\* An order and the reading after it are on the wire only while the checkout runs, one at a time.
CheckoutOnTheWire ==
    \A r \in wire : r.kind \in {"order", "read"} =>
        /\ placing \in {"ordering", "rereading"}
        /\ \A s \in wire : s.kind \in {"order", "read"} => s = r

IInv == /\ TypeOK /\ TicketsDistinct /\ NewestOnTheWire /\ StepsCarried /\ GoneHasNoSteps
        /\ PlacingArmsNothing /\ SettlingWaitsForAll /\ OrderAfterItsSteps
        /\ CheckoutOnTheWire

LEMMA InitIInv == Init => IInv
<1> SUFFICES ASSUME Init PROVE IInv
  OBVIOUS
<1> USE DEF Init, None
<1>1. Empty \in Carts /\ Empty \in [Products -> 0 .. sent]
  BY DEF Carts, Empty
<1>2. [p \in Products |-> StartQuantity] \in Carts
  BY QuantityNat DEF Carts, Quantity
<1>3. anyFailed \in BOOLEAN
  OBVIOUS
<1>4. pending \in Carts /\ cart \in Carts /\ line \in Carts /\ asked \in Carts
  BY <1>1, <1>2
<1>5. newest \in [Products -> 0 .. sent] /\ applied \in 0 .. sent /\ sent \in Nat /\ unheard \in Nat
  BY <1>1
<1>6. TypeOK
  BY <1>3, <1>4, <1>5, Zenon DEF TypeOK
<1> QED
  BY <1>6 DEF IInv, TicketsDistinct, NewestOnTheWire, StepsCarried, GoneHasNoSteps,
     PlacingArmsNothing, SettlingWaitsForAll, OrderAfterItsSteps, CheckoutOnTheWire, Empty

-----------------------------------------------------------------------------
(* What leaves. *)

LEMMA LeavingIsRequest ==
    ASSUME TypeOK, NEW kind \in {"set", "keepalive", "remove", "clear", "order", "read"},
           NEW p \in Products \cup {Whole}, NEW q \in {None} \cup Quantity, NEW k \in Nat
    PROVE  /\ Leaving(kind, p, q, k) \in Request
           /\ Leaving(kind, p, q, k).kind = kind /\ Leaving(kind, p, q, k).product = p
           /\ Leaving(kind, p, q, k).quantity = q /\ Leaving(kind, p, q, k).ticket = k
  BY DEF Leaving, Request, TypeOK

LEMMA CallKeeps ==
    ASSUME TypeOK, TicketsDistinct,
           NEW kind \in {"remove", "clear", "order", "read"}, NEW p \in Products \cup {Whole},
           Call(kind, p)
    PROVE  /\ wire' \subseteq Request /\ sent' \in Nat /\ sent < sent'
           /\ \A r \in wire' : r.ticket \in 1 .. sent'
           /\ TicketsDistinct'
           /\ wire \subseteq wire'
           /\ \E new : wire' = wire \cup {new} /\ new.kind = kind
<1> DEFINE new == Leaving(kind, p, None, sent + 1)
<1>1. new \in Request /\ new.ticket = sent + 1 /\ new.kind = kind
  BY DEF Leaving, Request, TypeOK
<1>2. wire' = wire \cup {new} /\ sent' = sent + 1
  BY DEF Call
<1> HIDE DEF new
<1> QED BY <1>1, <1>2 DEF TypeOK, TicketsDistinct

LEMMA NumberingsOf ==
    ASSUME TypeOK, NEW S \in SUBSET Products, NEW ticket \in Numberings(S)
    PROVE  /\ Cardinality(S) \in Nat
           /\ ticket \in [S -> sent + 1 .. sent + Cardinality(S)]
           /\ \A p, q \in S : ticket[p] = ticket[q] => p = q
<1>1. Cardinality(S) \in Nat
  BY ProductsFinite, FS_Subset, FS_CardinalityType
<1> QED BY <1>1 DEF Numberings, Bijection, Injection, IsInjective

\* The requests a set of lines sends at once, quantities or keepalives.
LEMMA SentAtOnce ==
    ASSUME TypeOK, TicketsDistinct, NEW S \in SUBSET Products, NEW kind \in {"set", "keepalive"},
           \A p \in S : pending[p] # None,
           NEW ticket \in Numberings(S),
           wire' = wire \cup {Leaving(kind, p, pending[p], ticket[p]) : p \in S},
           sent' = sent + Cardinality(S)
    PROVE  /\ wire' \subseteq Request /\ sent' \in Nat /\ sent <= sent'
           /\ \A r \in wire' : r.ticket \in 1 .. sent'
           /\ TicketsDistinct'
           /\ \A r \in wire' : r \in wire \/ r.kind = kind
<1> DEFINE new(p) == Leaving(kind, p, pending[p], ticket[p])
<1>1. /\ Cardinality(S) \in Nat
      /\ \A p \in S : ticket[p] \in sent + 1 .. sent'
      /\ \A p, q \in S : ticket[p] = ticket[q] => p = q
  BY NumberingsOf
<1>2. sent \in Nat /\ sent' \in Nat /\ sent <= sent'
  BY <1>1 DEF TypeOK
<1>3. \A p \in S : new(p) \in Request /\ new(p).ticket = ticket[p] /\ new(p).kind = kind
  BY <1>1, <1>2, LeavingIsRequest DEF TypeOK, Carts
<1>4. \A r \in wire' : r \in wire \/ \E p \in S : r = new(p)
  OBVIOUS
<1>5. wire' \subseteq Request /\ \A r \in wire' : r.ticket \in 1 .. sent'
  BY <1>1, <1>2, <1>3, <1>4 DEF TypeOK
<1>6. \A r, s \in wire' : r.ticket = s.ticket => r = s
  <2> SUFFICES ASSUME NEW r \in wire', NEW s \in wire', r.ticket = s.ticket PROVE r = s
    OBVIOUS
  <2>1. CASE r \in wire /\ s \in wire
    BY <2>1 DEF TicketsDistinct
  <2>2. CASE \E p \in S : r = new(p)
    BY <2>2, <1>1, <1>2, <1>3, <1>4 DEF TypeOK
  <2>3. CASE \E p \in S : s = new(p)
    BY <2>3, <1>1, <1>2, <1>3, <1>4 DEF TypeOK
  <2> QED BY <2>1, <2>2, <2>3, <1>4
<1>7. \A r \in wire' : r \in wire \/ r.kind = kind
  BY <1>3, <1>4
<1> QED BY <1>2, <1>5, <1>6, <1>7 DEF TicketsDistinct

LEMMA CheckoutAlone ==
    ASSUME CheckoutOnTheWire, \A r \in wire' : r.kind \in {"order", "read"} => r \in wire,
           placing' = placing \/ placing \notin {"ordering", "rereading"}
    PROVE  CheckoutOnTheWire'
  BY DEF CheckoutOnTheWire

LEMMA SendersRunKeeps ==
    ASSUME IInv, NEW S \in SUBSET Products, SendersRun(S), UNCHANGED pending, Alive
    PROVE  /\ wire' \subseteq Request /\ sent' \in Nat /\ sent <= sent'
           /\ \A r \in wire' : r.ticket \in 1 .. sent'
           /\ TicketsDistinct' /\ NewestOnTheWire' /\ StepsCarried'
           /\ armed' \subseteq Products /\ newest' \in [Products -> 0 .. sent']
           /\ S = {} => UNCHANGED newest
           /\ \A r \in wire' : r.kind \in {"order", "read"} => r \in wire
<1> DEFINE C == Carrying(S)
<1>1. PICK ticket \in Numberings(C) :
          /\ wire' = wire \cup {Leaving("set", p, pending[p], ticket[p]) : p \in C}
          /\ newest' = [p \in Products |-> IF p \in C THEN ticket[p] ELSE newest[p]]
          /\ sent' = sent + Cardinality(C)
          /\ armed' = armed \ S
  BY Zenon DEF SendersRun
<1>2. C \subseteq S /\ C \subseteq Products /\ \A p \in C : pending[p] # None
  BY DEF Carrying
<1>3. TypeOK /\ TicketsDistinct
  BY DEF IInv
<1>4. /\ wire' \subseteq Request /\ sent' \in Nat /\ sent <= sent'
      /\ \A r \in wire' : r.ticket \in 1 .. sent'
      /\ TicketsDistinct'
      /\ \A r \in wire' : r \in wire \/ r.kind = "set"
  BY <1>1, <1>2, <1>3, SentAtOnce
<1>5. /\ ticket \in [C -> sent + 1 .. sent'] /\ sent \in Nat
  BY <1>1, <1>2, <1>3, NumberingsOf DEF TypeOK
<1>6. newest' \in [Products -> 0 .. sent']
  BY <1>1, <1>2, <1>3, <1>4, <1>5 DEF TypeOK
<1>8. armed' \subseteq Products
  BY <1>1, <1>3 DEF TypeOK
<1>9. \A p \in C : \E r \in wire' : /\ r.kind = "set" /\ r.product = p
                                    /\ r.quantity = pending[p] /\ r.ticket = newest'[p]
  <2> SUFFICES ASSUME NEW p \in C
               PROVE  \E r \in wire' : /\ r.kind = "set" /\ r.product = p
                                       /\ r.quantity = pending[p] /\ r.ticket = newest'[p]
    OBVIOUS
  <2>1. Leaving("set", p, pending[p], ticket[p]) \in wire'
    BY <1>1
  <2>2. newest'[p] = ticket[p]
    BY <1>1, <1>2
  <2> QED BY <2>1, <2>2 DEF Leaving
<1>10. NewestOnTheWire'
  <2> SUFFICES ASSUME NEW p \in Products, newest'[p] # 0
               PROVE  \E r \in wire' : r.kind = "set" /\ r.product = p /\ r.ticket = newest'[p]
    BY DEF NewestOnTheWire
  <2>1. CASE p \in C
    BY <2>1, <1>9
  <2>2. CASE p \notin C
    BY <2>2, <1>1, <1>3 DEF IInv, NewestOnTheWire
  <2> QED BY <2>1, <2>2
<1>11. StepsCarried'
  <2> SUFFICES ASSUME NEW p \in Products, pending[p] # None, p \notin armed'
               PROVE  \E r \in wire' : /\ r.kind = "set" /\ r.product = p
                                       /\ r.quantity = pending[p] /\ r.ticket = newest'[p]
    BY DEF StepsCarried
  <2>1. CASE p \in C
    BY <2>1, <1>9
  <2>2. CASE p \notin C
    <3>1. p \notin S /\ p \notin armed
      BY <2>2, <1>1 DEF Carrying
    <3> QED BY <3>1, <2>2, <1>1 DEF IInv, StepsCarried
  <2> QED BY <2>1, <2>2
<1>12. S = {} => UNCHANGED newest
  BY <1>1, <1>2, <1>3 DEF TypeOK
<1> QED BY <1>4, <1>6, <1>8, <1>10, <1>11, <1>12

-----------------------------------------------------------------------------
(* The page's actions. *)

LEMMA TimerFiresIInv == ASSUME IInv, NEW p \in Products, TimerFires(p) PROVE IInv'
<1> USE DEF TimerFires
<1>1. placing = "no"
  BY DEF IInv, PlacingArmsNothing
<1>2. SendersRun({p}) /\ {p} \subseteq Products /\ UNCHANGED pending /\ Alive
  OBVIOUS
<1>3. /\ wire' \subseteq Request /\ sent' \in Nat /\ sent <= sent'
      /\ \A r \in wire' : r.ticket \in 1 .. sent'
      /\ TicketsDistinct' /\ NewestOnTheWire' /\ StepsCarried'
      /\ armed' \subseteq Products /\ newest' \in [Products -> 0 .. sent']
      /\ \A r \in wire' : r.kind \in {"order", "read"} => r \in wire
  BY <1>2, SendersRunKeeps
<1>4. TypeOK'
  BY <1>3 DEF IInv, TypeOK, history
<1>5. GoneHasNoSteps' /\ PlacingArmsNothing' /\ SettlingWaitsForAll' /\ OrderAfterItsSteps'
  BY <1>1 DEF GoneHasNoSteps, PlacingArmsNothing, SettlingWaitsForAll, OrderAfterItsSteps, Alive
<1>6. CheckoutOnTheWire'
  BY <1>3, CheckoutAlone DEF IInv
<1> QED BY <1>3, <1>4, <1>5, <1>6 DEF IInv

LEMMA UnmountIInv == ASSUME IInv, Unmount PROVE IInv'
<1> USE DEF Unmount, MountedAnd
<1>1. armed \in SUBSET Products /\ SendersRun(armed) /\ Alive
  BY DEF IInv, TypeOK, Alive
<1>2. page' = "left" /\ Alive'
  BY DEF Alive
<1>3. /\ wire' \subseteq Request /\ sent' \in Nat /\ sent <= sent'
      /\ \A r \in wire' : r.ticket \in 1 .. sent'
      /\ TicketsDistinct' /\ NewestOnTheWire' /\ StepsCarried'
      /\ armed' \subseteq Products /\ newest' \in [Products -> 0 .. sent']
      /\ armed = {} => UNCHANGED newest
      /\ \A r \in wire' : r.kind \in {"order", "read"} => r \in wire
  BY <1>1, <1>2, SendersRunKeeps
<1>4. TypeOK'
  BY <1>3, <1>2 DEF IInv, TypeOK, history
<1>5. armed' = {}
  BY DEF SendersRun
<1>6. placing # "no" => armed = {} /\ UNCHANGED newest
  BY <1>3 DEF IInv, PlacingArmsNothing
<1>7. GoneHasNoSteps' /\ PlacingArmsNothing'
  BY <1>2, <1>5 DEF GoneHasNoSteps, PlacingArmsNothing
<1>8. SettlingWaitsForAll' /\ OrderAfterItsSteps'
  BY <1>6 DEF IInv, SettlingWaitsForAll, OrderAfterItsSteps, history
<1>9. CheckoutOnTheWire'
  BY <1>3, CheckoutAlone DEF IInv
<1> QED BY <1>3, <1>4, <1>7, <1>8, <1>9 DEF IInv

LEMMA CheckoutIInv == ASSUME IInv, Checkout PROVE IInv'
<1> USE DEF Checkout, MountedAnd
<1>1. armed \in SUBSET Products /\ SendersRun(armed) /\ Alive /\ UNCHANGED pending
  BY DEF IInv, TypeOK, Alive
<1>2. /\ wire' \subseteq Request /\ sent' \in Nat /\ sent <= sent'
      /\ \A r \in wire' : r.ticket \in 1 .. sent'
      /\ TicketsDistinct' /\ NewestOnTheWire' /\ StepsCarried'
      /\ armed' \subseteq Products /\ newest' \in [Products -> 0 .. sent']
      /\ \A r \in wire' : r.kind \in {"order", "read"} => r \in wire
  BY <1>1, SendersRunKeeps
<1>3. awaited' = {newest'[p] : p \in Products} \ {0} /\ told' = {} /\ anyFailed' = FALSE
  BY DEF AwaitNewest
<1>4. awaited' \subseteq Nat /\ applied' \in 0 .. sent'
  BY <1>2, <1>3 DEF IInv, TypeOK
<1>5. anyFailed' \in BOOLEAN /\ placing' = "settling"
  BY Zenon
<1>6. TypeOK'
  BY <1>2, <1>3, <1>4, <1>5 DEF IInv, TypeOK
<1>7. armed' = {}
  BY DEF SendersRun
<1>8. GoneHasNoSteps' /\ PlacingArmsNothing' /\ OrderAfterItsSteps'
  BY <1>7 DEF GoneHasNoSteps, PlacingArmsNothing, OrderAfterItsSteps
<1>9. SettlingWaitsForAll'
  BY <1>2, <1>3 DEF SettlingWaitsForAll
<1>10. CheckoutOnTheWire'
  BY <1>2, CheckoutAlone DEF IInv
<1> QED BY <1>2, <1>6, <1>8, <1>9, <1>10 DEF IInv

LEMMA StepQuantityIInv == ASSUME IInv, NEW p \in Products, StepQuantity(p) PROVE IInv'
<1> USE DEF StepQuantity, MountedAnd
<1>1. PICK step \in {-1, 1} :
          LET next == steppedQuantity(quantityOf(p), step)
          IN /\ next <= MaxQuantity
             /\ pending' = [pending EXCEPT ![p] = next]
             /\ asked' = [asked EXCEPT ![p] = IF InDoubt(p) THEN None ELSE next]
             /\ steppedBack' = IF Overtaken(p, next) THEN steppedBack \cup {p}
                                                     ELSE steppedBack \ {p}
  OBVIOUS
<1> DEFINE next == steppedQuantity(quantityOf(p), step)
<1>2. next \in Quantity
  <2>1. quantityOf(p) \in Nat
    BY QuantityNat DEF quantityOf, IInv, TypeOK, Carts, Quantity, None
  <2> QED BY <2>1, <1>1, QuantityNat DEF steppedQuantity, MIN_LINE_QUANTITY, Quantity
<1>3. pending' \in Carts
  BY <1>1, <1>2 DEF IInv, TypeOK, Carts
<1>4. asked' \in Carts
  BY <1>1, <1>2 DEF IInv, TypeOK, Carts
<1>5. TypeOK'
  BY <1>1, <1>3, <1>4 DEF IInv, TypeOK
<1>6. \A q \in Products : q # p => pending'[q] = pending[q]
  BY <1>1 DEF IInv, TypeOK, Carts
<1>7. StepsCarried'
  BY <1>6 DEF IInv, StepsCarried
<1>8. TicketsDistinct' /\ NewestOnTheWire' /\ GoneHasNoSteps'
  BY DEF IInv, TicketsDistinct, NewestOnTheWire, Alive, GoneHasNoSteps
<1>9. PlacingArmsNothing' /\ SettlingWaitsForAll' /\ OrderAfterItsSteps'
  BY DEF PlacingArmsNothing, SettlingWaitsForAll, OrderAfterItsSteps
<1>10. CheckoutOnTheWire'
  BY CheckoutAlone DEF IInv
<1> QED BY <1>5, <1>7, <1>8, <1>9, <1>10 DEF IInv

\* What dropping the steps of some lines leaves of the invariant, whatever else leaves.
LEMMA ForgetKeeps ==
    ASSUME TypeOK, StepsCarried, NEW S \in SUBSET Products, Forget(S), wire \subseteq wire',
           UNCHANGED newest
    PROVE  /\ pending' \in Carts /\ armed' \subseteq Products /\ StepsCarried'
           /\ armed = {} => armed' = {}
           /\ \A p \in Products : pending[p] = None => pending'[p] = None
  BY DEF TypeOK, StepsCarried, Forget, Carts

LEMMA GiveUpIInv ==
    ASSUME IInv, NEW S \in SUBSET Products, NEW kind \in {"remove", "clear"},
           NEW whole \in Products \cup {Whole}, page = "open",
           Forget(S), Unasked(S), Call(kind, whole),
           UNCHANGED <<newest, placing, awaited, anyFailed, cart, applied, page, line,
                       steppedBack, told, unheard>>
    PROVE  IInv'
<1>1. TypeOK /\ TicketsDistinct /\ StepsCarried
  BY DEF IInv
<1>2. /\ wire' \subseteq Request /\ sent' \in Nat /\ sent < sent'
      /\ \A r \in wire' : r.ticket \in 1 .. sent'
      /\ TicketsDistinct' /\ wire \subseteq wire'
      /\ \E new : wire' = wire \cup {new} /\ new.kind = kind
  BY <1>1, CallKeeps
<1>3. /\ pending' \in Carts /\ armed' \subseteq Products /\ StepsCarried'
      /\ armed = {} => armed' = {}
      /\ \A p \in Products : pending[p] = None => pending'[p] = None
  BY <1>1, <1>2, ForgetKeeps
<1>4. asked' \in Carts
  BY <1>1 DEF Unasked, TypeOK, Carts
<1>5. newest' \in [Products -> 0 .. sent'] /\ applied' \in 0 .. sent'
  BY <1>1, <1>2 DEF TypeOK
<1>6. TypeOK'
  BY <1>1, <1>2, <1>3, <1>4, <1>5 DEF TypeOK
<1>7. NewestOnTheWire' /\ GoneHasNoSteps'
  BY <1>2 DEF IInv, NewestOnTheWire, Alive, GoneHasNoSteps
<1>8. PlacingArmsNothing' /\ SettlingWaitsForAll' /\ OrderAfterItsSteps'
  BY <1>3 DEF IInv, PlacingArmsNothing, SettlingWaitsForAll, OrderAfterItsSteps
<1>9. CheckoutOnTheWire'
  BY <1>2, CheckoutAlone DEF IInv
<1> QED BY <1>2, <1>3, <1>6, <1>7, <1>8, <1>9 DEF IInv

LEMMA PageHideIInv == ASSUME IInv, PageHide PROVE IInv'
<1> USE DEF PageHide, MountedAnd
<1> DEFINE C == Carrying(Products)
<1>1. PICK ticket \in Numberings(C) :
          wire' = wire \cup {Leaving("keepalive", p, pending[p], ticket[p]) : p \in C}
  OBVIOUS
<1>2. TypeOK /\ TicketsDistinct /\ C \subseteq Products /\ \A p \in C : pending[p] # None
  BY DEF IInv, Carrying
<1>3. /\ wire' \subseteq Request /\ sent' \in Nat /\ sent <= sent'
      /\ \A r \in wire' : r.ticket \in 1 .. sent'
      /\ TicketsDistinct'
      /\ \A r \in wire' : r \in wire \/ r.kind = "keepalive"
  BY <1>1, <1>2, SentAtOnce
<1>4. newest' \in [Products -> 0 .. sent'] /\ applied' \in 0 .. sent'
  BY <1>2, <1>3 DEF TypeOK
<1>5. pending' \in Carts /\ \A p \in Products : pending'[p] = None
  BY DEF Carts, Empty
<1>6. TypeOK'
  BY <1>2, <1>3, <1>4, <1>5 DEF TypeOK, history
<1>7. NewestOnTheWire' /\ GoneHasNoSteps' /\ StepsCarried'
  BY <1>5 DEF NewestOnTheWire, Alive, GoneHasNoSteps, StepsCarried
<1>8. PlacingArmsNothing' /\ SettlingWaitsForAll' /\ OrderAfterItsSteps'
  BY <1>5 DEF IInv, PlacingArmsNothing, SettlingWaitsForAll, OrderAfterItsSteps, history
<1>9. CheckoutOnTheWire'
  BY <1>3, CheckoutAlone DEF IInv
<1> QED BY <1>3, <1>6, <1>7, <1>8, <1>9 DEF IInv

LEMMA SettleReturnsIInv == ASSUME IInv, SettleReturns PROVE IInv'
<1> USE DEF SettleReturns
<1>1. TypeOK /\ TicketsDistinct /\ armed = {} /\ placing = "settling" /\ Alive
  BY DEF IInv, PlacingArmsNothing, Settled
<1>2. \A p \in Products : newest[p] = 0
  <2> SUFFICES ASSUME NEW p \in Products, newest[p] # 0 PROVE FALSE
    OBVIOUS
  <2>1. PICK r \in wire : r.ticket = newest[p]
    BY <1>1 DEF IInv, NewestOnTheWire
  <2>2. newest[p] \in awaited
    BY <1>1 DEF IInv, SettlingWaitsForAll
  <2> QED BY <2>1, <2>2 DEF Settled
<1>3. \A p \in Products : pending[p] = None
  <2> SUFFICES ASSUME NEW p \in Products, pending[p] # None PROVE FALSE
    OBVIOUS
  <2>1. PICK r \in wire : r.ticket = newest[p]
    BY <1>1 DEF IInv, StepsCarried
  <2> QED BY <2>1, <1>1, <1>2 DEF TypeOK
<1>4. CASE anyFailed
  <2>1. placing' = "no" /\ UNCHANGED <<wire, sent>>
    BY <1>4 DEF PlaceOrder
  <2>2. TypeOK'
    BY <2>1, <1>1 DEF TypeOK, history
  <2>3. TicketsDistinct' /\ NewestOnTheWire' /\ StepsCarried' /\ GoneHasNoSteps'
    BY <2>1 DEF IInv, TicketsDistinct, NewestOnTheWire, Alive, StepsCarried, GoneHasNoSteps
  <2>4. PlacingArmsNothing' /\ SettlingWaitsForAll' /\ OrderAfterItsSteps'
    BY <2>1 DEF PlacingArmsNothing, SettlingWaitsForAll, OrderAfterItsSteps
  <2>5. CheckoutOnTheWire'
    BY <2>1, <1>1, CheckoutAlone DEF IInv
  <2> QED BY <2>2, <2>3, <2>4, <2>5 DEF IInv
<1>5. CASE ~anyFailed
  <2>1. placing' = "ordering" /\ Call("order", Whole)
    BY <1>5 DEF PlaceOrder
  <2>2. /\ wire' \subseteq Request /\ sent' \in Nat /\ sent < sent'
        /\ \A r \in wire' : r.ticket \in 1 .. sent'
        /\ TicketsDistinct' /\ wire \subseteq wire'
        /\ \E new : wire' = wire \cup {new} /\ new.kind = "order"
    BY <1>1, <2>1, CallKeeps
  <2>3. newest' \in [Products -> 0 .. sent'] /\ applied' \in 0 .. sent'
    BY <1>1, <2>2 DEF TypeOK
  <2>4. TypeOK'
    BY <1>1, <2>1, <2>2, <2>3 DEF TypeOK, history
  <2>5. NewestOnTheWire' /\ StepsCarried' /\ GoneHasNoSteps' /\ PlacingArmsNothing'
    BY <1>1, <1>2, <1>3
    DEF IInv, NewestOnTheWire, StepsCarried, GoneHasNoSteps, PlacingArmsNothing
  <2>6. told = {}
    BY <1>1, <1>5 DEF IInv, SettlingWaitsForAll
  <2>7. SettlingWaitsForAll' /\ OrderAfterItsSteps'
    BY <1>2, <1>3, <2>1, <2>6 DEF SettlingWaitsForAll, OrderAfterItsSteps, history
  <2>8. CheckoutOnTheWire'
    BY <1>1, <2>1, <2>2 DEF IInv, CheckoutOnTheWire
  <2> QED BY <2>2, <2>4, <2>5, <2>7, <2>8 DEF IInv
<1> QED BY <1>4, <1>5

-----------------------------------------------------------------------------
(* The server's actions. *)

LEMMA ServedIInv ==
    ASSUME IInv, UNCHANGED client, sent' = sent, wire' \subseteq Request,
           line' \in Carts, asked' \in Carts, UNCHANGED <<steppedBack, told, unheard>>,
           \A s \in wire' : s.ticket \in 1 .. sent,
           TicketsDistinct', CheckoutOnTheWire',
           Alive => \A r \in wire : r.kind = "set" =>
                        \E s \in wire' : /\ s.kind = "set" /\ s.product = r.product
                                         /\ s.quantity = r.quantity /\ s.ticket = r.ticket
    PROVE  IInv'
<1> USE DEF client
<1>1. TypeOK'
  BY DEF IInv, TypeOK
<1>2. NewestOnTheWire'
  BY DEF IInv, NewestOnTheWire, Alive
<1>3. StepsCarried'
  <2>1. CASE Alive
    BY <2>1 DEF IInv, StepsCarried
  <2>2. CASE ~Alive
    BY <2>2 DEF IInv, GoneHasNoSteps, Alive, StepsCarried, Empty
  <2> QED BY <2>1, <2>2
<1>4. GoneHasNoSteps' /\ PlacingArmsNothing' /\ SettlingWaitsForAll' /\ OrderAfterItsSteps'
  BY DEF IInv, GoneHasNoSteps, PlacingArmsNothing, SettlingWaitsForAll, OrderAfterItsSteps
<1> QED BY <1>1, <1>2, <1>3, <1>4 DEF IInv

LEMMA EffectIsCart == ASSUME TypeOK, NEW r \in wire PROVE Effect(r) \in Carts
<1>1. r \in Request /\ line \in Carts
  BY DEF TypeOK
<1>2. CASE r.kind \in {"set", "keepalive"}
  BY <1>1, <1>2 DEF Effect, Request, Carts
<1>3. CASE r.kind = "remove"
  BY <1>1, <1>3 DEF Effect, Carts
<1>4. CASE r.kind \in {"clear", "order", "read"}
  BY <1>1, <1>4 DEF Effect, Carts, Empty
<1> QED BY <1>1, <1>2, <1>3, <1>4 DEF Request

LEMMA AnsweredOnTheWire ==
    ASSUME TypeOK, TicketsDistinct, NEW r \in wire, NEW c \in Request, c.ticket = r.ticket,
           wire' = (wire \ {r}) \cup {c}
    PROVE  wire' \subseteq Request /\ TicketsDistinct' /\ \A s \in wire' : s.ticket \in 1 .. sent
<1>1. wire' \subseteq Request /\ \A s \in wire' : s.ticket \in 1 .. sent
  BY DEF TypeOK
<1>2. \A s \in wire' : s = c \/ (s \in wire /\ s.ticket # c.ticket)
  BY DEF TicketsDistinct
<1> QED BY <1>1, <1>2 DEF TicketsDistinct

LEMMA AnsweredAlone ==
    ASSUME CheckoutOnTheWire, NEW r \in wire, NEW c, c.kind = r.kind,
           wire' = (wire \ {r}) \cup {c}, UNCHANGED placing
    PROVE  CheckoutOnTheWire'
  BY DEF CheckoutOnTheWire

LEMMA AcceptIInv == ASSUME IInv, NEW r \in wire, Accept(r) PROVE IInv'
<1> USE DEF Accept
<1>1. TypeOK /\ TicketsDistinct /\ r \in Request /\ line' \in Carts /\ sent' = sent
  BY EffectIsCart DEF IInv, TypeOK
<1>2. asked' \in Carts
  BY <1>1 DEF Unasked, TypeOK, Carts
<1>3. CASE r.kind = "keepalive"
  <2>1. wire' = wire \ {r}
    BY <1>3
  <2>2. wire' \subseteq Request /\ TicketsDistinct' /\ \A s \in wire' : s.ticket \in 1 .. sent
    BY <2>1, <1>1 DEF TypeOK, TicketsDistinct
  <2>3. CheckoutOnTheWire'
    BY <2>1, CheckoutAlone DEF IInv, client
  <2> QED BY <1>1, <1>2, <1>3, <2>1, <2>2, <2>3, ServedIInv
<1>4. CASE r.kind # "keepalive"
  <2> DEFINE c == [r EXCEPT !.at = "done", !.ok = TRUE, !.cart = Effect(r)]
  <2>1. wire' = (wire \ {r}) \cup {c}
    BY <1>4 DEF Becomes
  <2>2. /\ c \in Request /\ c.kind = r.kind /\ c.product = r.product
        /\ c.quantity = r.quantity /\ c.ticket = r.ticket
    BY <1>1, EffectIsCart DEF Request
  <2>3. wire' \subseteq Request /\ TicketsDistinct' /\ \A s \in wire' : s.ticket \in 1 .. sent
    BY <2>1, <2>2, <1>1, AnsweredOnTheWire
  <2>4. CheckoutOnTheWire'
    BY <2>1, <2>2, AnsweredAlone DEF IInv, client
  <2> QED BY <1>1, <1>2, <2>1, <2>2, <2>3, <2>4, ServedIInv
<1> QED BY <1>3, <1>4

LEMMA RefuseIInv == ASSUME IInv, NEW r \in wire, Refuse(r) PROVE IInv'
<1> USE DEF Refuse
<1> DEFINE c == [r EXCEPT !.at = "done"]
<1>1. TypeOK /\ TicketsDistinct /\ r \in Request /\ line' \in Carts /\ asked' \in Carts
  BY DEF IInv, TypeOK, history
<1>2. wire' = (wire \ {r}) \cup {c}
  BY DEF Becomes
<1>3. /\ c \in Request /\ c.kind = r.kind /\ c.product = r.product
      /\ c.quantity = r.quantity /\ c.ticket = r.ticket
  BY <1>1 DEF Request
<1>4. wire' \subseteq Request /\ TicketsDistinct' /\ \A s \in wire' : s.ticket \in 1 .. sent
  BY <1>1, <1>2, <1>3, AnsweredOnTheWire
<1>5. CheckoutOnTheWire'
  BY <1>2, <1>3, AnsweredAlone DEF IInv, client
<1> QED BY <1>1, <1>2, <1>3, <1>4, <1>5, ServedIInv DEF history

\* A request nobody waits for is gone from the wire: a keepalive, or any of a page that is gone.
LEMMA GoneIInv ==
    ASSUME IInv, NEW r \in wire, KeepaliveGone(r) \/ CancelledWithPage(r) PROVE IInv'
<1>1. TypeOK /\ TicketsDistinct
  BY DEF IInv
<1>2. wire' = wire \ {r} /\ UNCHANGED <<client, sent, line, steppedBack, told, unheard>>
  BY DEF KeepaliveGone, CancelledWithPage, history
<1>3. asked' \in Carts
  BY <1>1 DEF KeepaliveGone, CancelledWithPage, AskedNoMore, history, TypeOK, Carts
<1>4. wire' \subseteq Request /\ TicketsDistinct' /\ \A s \in wire' : s.ticket \in 1 .. sent
  BY <1>1, <1>2 DEF TypeOK, TicketsDistinct
<1>5. Alive => r.kind # "set"
  BY DEF KeepaliveGone, CancelledWithPage
<1>6. line' \in Carts
  BY <1>1, <1>2 DEF TypeOK
<1>7. CheckoutOnTheWire'
  BY <1>2, CheckoutAlone DEF IInv, client
<1> QED BY <1>2, <1>3, <1>4, <1>5, <1>6, <1>7, ServedIInv

-----------------------------------------------------------------------------
(* The answers. *)

LEMMA StoreAnswerKeeps ==
    ASSUME TypeOK, NEW r \in wire, StoreAnswer(r)
    PROVE  cart' \in Carts /\ applied' \in 0 .. sent
<1>1. r.cart \in Carts /\ r.ticket \in 1 .. sent
  BY DEF TypeOK, Request
<1> QED BY <1>1 DEF StoreAnswer, TypeOK

\* A request of a line comes back.
LEMMA QuantityLandedKeeps ==
    ASSUME IInv, NEW r \in wire, r.kind = "set", Landed(r), QuantityLanded(r),
           UNCHANGED <<armed, page>>
    PROVE  /\ pending' \in Carts /\ newest' \in [Products -> 0 .. sent]
           /\ NewestOnTheWire' /\ StepsCarried'
           /\ \A p \in Products : /\ newest'[p] \in {newest[p], 0}
                                  /\ pending[p] = None => pending'[p] = None
<1>1. TypeOK /\ TicketsDistinct /\ r \in Request /\ wire' = wire \ {r}
  BY DEF IInv, TypeOK, Landed
<1>2. pending' \in Carts /\ newest' \in [Products -> 0 .. sent]
  <2>1. sent \in Nat /\ pending \in Carts /\ newest \in [Products -> 0 .. sent]
    BY <1>1 DEF TypeOK
  <2>2. pending' \in Carts
    BY <2>1 DEF Carts, QuantityLanded, ForgetIfCarried
  <2>3. newest' \in [Products -> 0 .. sent]
    <3>1. 0 \in 0 .. sent
      BY <2>1
    <3>2. newest' = newest \/ newest' = [newest EXCEPT ![r.product] = 0]
      BY DEF QuantityLanded
    <3> QED BY <2>1, <3>1, <3>2
  <2> QED BY <2>2, <2>3
<1>3. \A p \in Products : /\ newest'[p] # 0 => newest'[p] = newest[p] /\ newest[p] # 0
                          /\ newest'[p] # 0 /\ p = r.product => newest[p] # r.ticket
                          /\ p # r.product => newest'[p] = newest[p] /\ pending'[p] = pending[p]
                          /\ pending'[p] # None /\ p = r.product
                                => pending'[p] = pending[p] /\ pending[p] # r.quantity
                          /\ newest[p] # r.ticket => newest'[p] = newest[p]
                          /\ pending'[p] # None => pending'[p] = pending[p]
                          /\ newest'[p] \in {newest[p], 0}
                          /\ pending[p] = None => pending'[p] = None
  BY <1>1 DEF TypeOK, Carts, QuantityLanded, ForgetIfCarried
<1>4. NewestOnTheWire'
  <2> SUFFICES ASSUME Alive, NEW p \in Products, newest'[p] # 0
               PROVE  \E s \in wire' : s.kind = "set" /\ s.product = p /\ s.ticket = newest'[p]
    BY DEF NewestOnTheWire, Alive
  <2>1. newest'[p] = newest[p] /\ newest[p] # 0
    BY <1>3
  <2>2. PICK s \in wire : s.kind = "set" /\ s.product = p /\ s.ticket = newest[p]
    BY <2>1 DEF IInv, NewestOnTheWire
  <2>3. s # r
    BY <1>3, <2>2
  <2> QED BY <1>1, <2>1, <2>2, <2>3
<1>5. StepsCarried'
  <2> SUFFICES ASSUME NEW p \in Products, pending'[p] # None, p \notin armed
               PROVE  \E s \in wire' : /\ s.kind = "set" /\ s.product = p
                                       /\ s.quantity = pending'[p] /\ s.ticket = newest'[p]
    BY DEF StepsCarried
  <2>1. pending'[p] = pending[p]
    BY <1>3
  <2>2. PICK s \in wire : /\ s.kind = "set" /\ s.product = p
                          /\ s.quantity = pending[p] /\ s.ticket = newest[p]
    BY <2>1 DEF IInv, StepsCarried
  <2>3. s # r
    BY <1>3, <2>2
  <2>4. newest'[p] = newest[p]
    BY <1>1, <1>3, <2>2, <2>3 DEF TicketsDistinct
  <2> QED BY <1>1, <2>1, <2>2, <2>3, <2>4
<1> QED BY <1>2, <1>3, <1>4, <1>5

LEMMA SetAnsweredIInv == ASSUME IInv, NEW r \in wire, SetAnswered(r) PROVE IInv'
<1> USE DEF SetAnswered
<1>1. /\ pending' \in Carts /\ newest' \in [Products -> 0 .. sent]
      /\ NewestOnTheWire' /\ StepsCarried'
      /\ \A p \in Products : /\ newest'[p] \in {newest[p], 0}
                             /\ pending[p] = None => pending'[p] = None
  BY QuantityLandedKeeps
<1>2. cart' \in Carts /\ applied' \in 0 .. sent
  BY StoreAnswerKeeps DEF IInv
<1>3. wire' = wire \ {r} /\ Alive
  BY DEF Landed, AnswerOf
<1>5. TypeOK'
  BY <1>1, <1>2, <1>3 DEF IInv, TypeOK, history
<1>6. TicketsDistinct' /\ GoneHasNoSteps'
  BY <1>3 DEF IInv, TicketsDistinct, GoneHasNoSteps, Alive
<1>7. PlacingArmsNothing' /\ SettlingWaitsForAll' /\ OrderAfterItsSteps'
  BY <1>1 DEF IInv, PlacingArmsNothing, SettlingWaitsForAll, OrderAfterItsSteps, history
<1>8. CheckoutOnTheWire'
  BY <1>3, CheckoutAlone DEF IInv
<1> QED BY <1>1, <1>5, <1>6, <1>7, <1>8 DEF IInv

LEMMA SetFailedIInv == ASSUME IInv, NEW r \in wire, SetFailed(r) PROVE IInv'
<1> USE DEF SetFailed
<1>1. /\ pending' \in Carts /\ newest' \in [Products -> 0 .. sent]
      /\ NewestOnTheWire' /\ StepsCarried'
      /\ \A p \in Products : /\ newest'[p] \in {newest[p], 0}
                             /\ pending[p] = None => pending'[p] = None
  BY QuantityLandedKeeps
<1>2. TypeOK /\ r \in Request /\ r.ticket \in 1 .. sent
  BY DEF IInv, TypeOK
<1>3. wire' = wire \ {r} /\ Alive
  BY DEF Landed, FailureOf
<1>4. anyFailed' \in BOOLEAN
  BY <1>2, <1>3, Zenon DEF TypeOK
<1>5. asked' \in Carts /\ unheard' \in Nat
  BY <1>2 DEF AskedNoMore, Unheard, TypeOK, Carts, Request
<1>6. told' \subseteq Products
  BY <1>2 DEF TypeOK
<1>7. TypeOK'
  BY <1>1, <1>2, <1>3, <1>4, <1>5, <1>6 DEF TypeOK
<1>8. TicketsDistinct' /\ GoneHasNoSteps'
  BY <1>3 DEF IInv, TicketsDistinct, GoneHasNoSteps, Alive
<1>9. SettlingWaitsForAll'
  <2> SUFFICES ASSUME placing = "settling"
               PROVE  /\ \A p \in Products : newest'[p] \in awaited \cup {0}
                      /\ told' # {} => anyFailed'
    BY DEF SettlingWaitsForAll
  <2>1. \A p \in Products : newest[p] \in awaited \cup {0}
    BY DEF IInv, SettlingWaitsForAll
  <2>2. ASSUME told' # told PROVE anyFailed'
    <3>1. PICK p \in Products : newest[p] = r.ticket
      BY <2>2
    <3>2. r.ticket \in awaited
      BY <3>1, <2>1, <1>2
    <3> QED BY <3>2
  <2>3. ASSUME told' = told, told # {} PROVE anyFailed'
    BY <2>3 DEF IInv, SettlingWaitsForAll
  <2> QED BY <1>1, <2>1, <2>2, <2>3
<1>10. PlacingArmsNothing' /\ OrderAfterItsSteps'
  BY <1>1 DEF IInv, PlacingArmsNothing, OrderAfterItsSteps
<1>11. CheckoutOnTheWire'
  BY <1>3, CheckoutAlone DEF IInv
<1> QED BY <1>1, <1>7, <1>8, <1>9, <1>10, <1>11 DEF IInv

LEMMA CartHeardIInv ==
    ASSUME IInv, NEW r \in wire, CartAnswered(r) \/ CartFailed(r) PROVE IInv'
<1> USE DEF CartAnswered, CartFailed
<1>1. TypeOK /\ r \in Request /\ r.ticket \in 1 .. sent
  BY DEF IInv, TypeOK
<1>2. wire' = wire \ {r} /\ Alive /\ r.kind # "set"
  BY DEF Landed, AnswerOf, FailureOf
<1>3. cart' \in Carts /\ applied' \in 0 .. sent /\ unheard' \in Nat
  BY <1>1, StoreAnswerKeeps DEF history, Unheard, TypeOK
<1>5. placing' \in {placing, "no"} /\ UNCHANGED <<pending, armed, newest, awaited, anyFailed,
                                                page, sent, line, asked, steppedBack, told>>
  BY DEF history
<1>6. TypeOK'
  BY <1>1, <1>2, <1>3, <1>5 DEF TypeOK
<1>7. TicketsDistinct' /\ GoneHasNoSteps'
  BY <1>2, <1>5 DEF IInv, TicketsDistinct, GoneHasNoSteps
<1>8. NewestOnTheWire' /\ StepsCarried'
  BY <1>2, <1>5 DEF IInv, NewestOnTheWire, StepsCarried, Alive
<1>9. PlacingArmsNothing' /\ SettlingWaitsForAll' /\ OrderAfterItsSteps'
  BY <1>5 DEF IInv, PlacingArmsNothing, SettlingWaitsForAll, OrderAfterItsSteps
<1>10. CheckoutOnTheWire'
  BY <1>2, <1>5 DEF IInv, CheckoutOnTheWire
<1> QED BY <1>6, <1>7, <1>8, <1>9, <1>10 DEF IInv

LEMMA OrderAnsweredIInv == ASSUME IInv, NEW r \in wire, OrderAnswered(r) PROVE IInv'
<1> USE DEF OrderAnswered
<1>1. TypeOK
  BY DEF IInv
<1>2. wire' = wire \ {r} /\ Alive /\ r.kind # "set"
  BY DEF Landed, AnswerOf
<1>3. cart' \in Carts /\ applied' \in 0 .. sent
  BY <1>1, StoreAnswerKeeps
<1>5. pending' = Empty /\ pending' \in Carts /\ armed' = {}
  BY <1>1 DEF Forget, Empty, Carts, TypeOK
<1>6. TypeOK'
  BY <1>1, <1>2, <1>3, <1>5 DEF TypeOK, history
<1>7. TicketsDistinct' /\ GoneHasNoSteps'
  BY <1>2, <1>5 DEF IInv, TicketsDistinct, GoneHasNoSteps
<1>8. NewestOnTheWire' /\ StepsCarried'
  BY <1>2, <1>5 DEF IInv, NewestOnTheWire, StepsCarried, Alive, Empty
<1>9. PlacingArmsNothing' /\ SettlingWaitsForAll' /\ OrderAfterItsSteps'
  BY DEF PlacingArmsNothing, SettlingWaitsForAll, OrderAfterItsSteps
<1>10. CheckoutOnTheWire'
  BY <1>2 DEF IInv, CheckoutOnTheWire
<1> QED BY <1>6, <1>7, <1>8, <1>9, <1>10 DEF IInv

LEMMA OrderFailedIInv == ASSUME IInv, NEW r \in wire, OrderFailed(r) PROVE IInv'
<1> USE DEF OrderFailed
<1>1. TypeOK /\ TicketsDistinct /\ r \in Request /\ r.ticket \in 1 .. sent
  BY DEF IInv, TypeOK
<1>2. Alive /\ r.kind # "set"
  BY DEF FailureOf
<1>3. unheard' \in Nat
  BY <1>1 DEF Unheard, TypeOK
<1>4. /\ wire' \subseteq Request /\ sent' \in Nat /\ sent <= sent'
      /\ \A s \in wire' : s.ticket \in 1 .. sent'
      /\ TicketsDistinct' /\ wire \ {r} \subseteq wire' /\ placing' \in {"no", "rereading"}
      /\ CheckoutOnTheWire' /\ armed = {}
  <2>1. armed = {}
    BY DEF IInv, CheckoutOnTheWire, PlacingArmsNothing
  <2>2. \A s \in wire \ {r} : s.kind \notin {"order", "read"}
    BY DEF IInv, CheckoutOnTheWire
  <2>3. CASE Landed(r) /\ GivesUp /\ UNCHANGED sent
    <3>1. wire' = wire \ {r} /\ placing' = "no"
      BY <2>3 DEF Landed, GivesUp
    <3> QED BY <2>3, <2>1, <2>2, <3>1, <1>1 DEF TypeOK, TicketsDistinct, CheckoutOnTheWire
  <2>4. CASE /\ wire' = (wire \ {r}) \cup {Leaving("read", Whole, None, sent + 1)}
             /\ sent' = sent + 1
             /\ placing' = "rereading"
    <3> DEFINE new == Leaving("read", Whole, None, sent + 1)
    <3>1. /\ sent \in Nat /\ sent + 1 \in Nat
          /\ Whole \in Products \cup {Whole} /\ None \in {None} \cup Quantity
      BY <1>1 DEF TypeOK
    <3>2. new \in Request /\ new.ticket = sent + 1 /\ sent \in Nat /\ new.kind = "read"
      BY ONLY <1>1, <3>1, LeavingIsRequest
    <3>4. wire' = (wire \ {r}) \cup {new}
      BY <2>4
    <3> HIDE DEF new
    <3> QED BY <2>4, <2>1, <2>2, <3>2, <3>4, <1>1
        DEF TypeOK, TicketsDistinct, CheckoutOnTheWire
  <2> QED BY <2>3, <2>4
<1>5. newest' \in [Products -> 0 .. sent'] /\ applied' \in 0 .. sent'
  BY <1>1, <1>4 DEF TypeOK
<1>6. TypeOK'
  BY <1>1, <1>3, <1>4, <1>5 DEF TypeOK
<1>7. NewestOnTheWire' /\ StepsCarried' /\ GoneHasNoSteps'
  BY <1>2, <1>4 DEF IInv, NewestOnTheWire, StepsCarried, GoneHasNoSteps, Alive
<1>8. PlacingArmsNothing' /\ SettlingWaitsForAll' /\ OrderAfterItsSteps'
  BY <1>4 DEF IInv, PlacingArmsNothing, SettlingWaitsForAll, OrderAfterItsSteps
<1> QED BY <1>4, <1>6, <1>7, <1>8 DEF IInv

-----------------------------------------------------------------------------
(* The theorems. *)

LEMMA StutterIInv == ASSUME IInv, UNCHANGED vars PROVE IInv'
  BY DEF vars, client, history, IInv, TypeOK, TicketsDistinct, NewestOnTheWire, StepsCarried,
     GoneHasNoSteps, PlacingArmsNothing, SettlingWaitsForAll, OrderAfterItsSteps, CheckoutOnTheWire, Alive

LEMMA StepIInv == ASSUME IInv, [Next]_vars PROVE IInv'
<1>1. ASSUME NEW p \in Products, RemoveLine(p) PROVE IInv'
  BY <1>1, GiveUpIInv DEF RemoveLine, MountedAnd
<1>2. ASSUME HandleClearCart PROVE IInv'
  BY <1>2, GiveUpIInv DEF HandleClearCart, MountedAnd
<1>3. ASSUME Visitor PROVE IInv'
  BY <1>1, <1>2, <1>3, StepQuantityIInv, CheckoutIInv, UnmountIInv, PageHideIInv DEF Visitor
<1>4. ASSUME Served PROVE IInv'
  BY <1>4, AcceptIInv, RefuseIInv, GoneIInv DEF Served
<1>5. ASSUME Heard PROVE IInv'
  BY <1>5, SetAnsweredIInv, SetFailedIInv, CartHeardIInv, OrderAnsweredIInv, OrderFailedIInv
  DEF Heard
<1> QED
  BY <1>3, <1>4, <1>5, TimerFiresIInv, SettleReturnsIInv, StutterIInv DEF Next

THEOREM Inductive == Spec => []IInv
<1>1. Init => IInv
  BY InitIInv
<1>2. IInv /\ [Next]_vars => IInv'
  BY StepIInv
<1> QED BY <1>1, <1>2, PTL DEF Spec

\* Every variable keeps its kind and no ticket runs ahead of the dispenser (store.ts, takeCartSlot).
THEOREM TypeCorrect == Spec => []TypeOK
<1>1. IInv => TypeOK
  BY DEF IInv
<1> QED BY <1>1, Inductive, PTL

\* A number shown on the visitor's word is always on its way (use-line-quantity.ts, quantityOf).
THEOREM StepsOnTheirWay == Spec => []StepOnItsWay
<1>1. IInv => StepOnItsWay
  BY DEF IInv, StepsCarried, StepOnItsWay
<1> QED BY <1>1, Inductive, PTL

\* No order leaves before its steps have landed, whatever order the server works in (Cart.vue,
\* checkout; use-line-quantity.ts, settle).
THEOREM OrdersAfterTheirSteps == Spec => []OrderAfterItsSteps
<1>1. IInv => OrderAfterItsSteps
  BY DEF IInv
<1> QED BY <1>1, Inductive, PTL

-----------------------------------------------------------------------------
(* What follows is about a server that handles the requests in the order   *)
(* they left: every lemma that needs it says so.                           *)

\* The answered requests left before those still to be handled, and what the page has heard of, or
\* never will, left before both.
Sequenced ==
    /\ unheard <= sent
    /\ \A s \in wire : /\ s.ok => s.at = "done"
                       /\ s.ticket # applied /\ s.ticket # unheard
                       /\ s.at = "sent" =>
                            /\ applied < s.ticket /\ unheard < s.ticket
                            /\ \A r \in wire : r.at = "done" => r.ticket < s.ticket

\* A keepalive leaves as the page goes and is never waited for; an order is out while it is placed.
KindsFit ==
    \A r \in wire : /\ r.kind = "keepalive" => r.at = "sent" /\ ~Alive
                    /\ r.kind \in {"set", "keepalive"} => r.product \in Products /\ r.quantity # None
                    /\ r.kind \in {"clear", "order"} => r.product = Whole
                    /\ r.kind = "order" => placing = "ordering"

\* The page shows the server's cart, or is about to be shown it, or will not hear of its last change.
ScreenFollows ==
    Alive => \/ cart = line /\ \A r \in wire : r.ok => r.ticket < applied
             \/ \E k \in wire : /\ k.ok /\ k.cart = line
                                /\ applied < k.ticket /\ unheard < k.ticket
                                /\ \A r \in wire : r.ok => r.ticket <= k.ticket
             \/ unheard > applied /\ \A r \in wire : r.ok => r.ticket < unheard

\* The answer with ticket k, or what the page never heard of it, is the one that took line p away.
GoneSince(p, k) == \A r \in wire : r.ok /\ r.ticket > k => r.cart[p] = None

TakesAway(k, p) == /\ k.ok /\ k.kind \in {"remove", "clear", "order"} /\ k.product \in {p, Whole}
                   /\ k.cart[p] = None

\* A line the server has not got is not on the page, or what took it away is still to be heard of.
GoneIsKnown ==
    Alive => \A p \in Products : line[p] = None =>
                 \/ cart[p] = None /\ GoneSince(p, applied)
                 \/ \E k \in wire : /\ TakesAway(k, p) /\ GoneSince(p, k.ticket)
                                    /\ applied > k.ticket => cart[p] = None
                 \/ unheard > applied /\ GoneSince(p, unheard)

Carriers(p) == {r \in wire : r.kind \in {"set", "keepalive"} /\ r.product = p}

\* The newest request of a line is the last of it that left; once it was handled, what it carried stands.
NewestStands ==
    Alive => \A p \in Products : \A r \in Carriers(p) : r.ticket = newest[p] =>
                 /\ \A s \in Carriers(p) : s.ticket <= r.ticket
                 /\ r.ok => line[p] \in {None, r.quantity}

\* How the number q the visitor stopped on reaches the server: by the line's timer, by its newest
\* request, by a keepalive; or it is there, and no request still to come says another.
UnderWay(p, q) ==
    \/ pending[p] = q /\ p \in armed
    \/ pending[p] = q /\ \E r \in Carriers(p) : /\ r.kind = "set" /\ r.quantity = q
                                                /\ r.ticket = newest[p] /\ r.ok = FALSE
    \/ \E r \in Carriers(p) : r.kind = "keepalive" /\ r.quantity = q
    \/ line[p] = q /\ \A r \in Carriers(p) : r.at = "sent" => r.quantity = q

\* ... and nothing that is on the wire goes against it.
Unopposed(p, q) ==
    /\ pending[p] \in {None, q}
    /\ \A r \in wire : r.kind \in {"remove", "clear"} => r.product \notin {p, Whole}
    /\ \A r \in Carriers(p) : r.quantity = q =>
           /\ r.ok => line[p] = q
           /\ \A s \in Carriers(p) : r.ticket < s.ticket => s.quantity = q

Carried(p) == p \notin steppedBack /\ asked[p] # None =>
                  UnderWay(p, asked[p]) /\ Unopposed(p, asked[p])

ClicksCarried == \A p \in Products : Carried(p)

OInv == IInv /\ Sequenced /\ KindsFit

-----------------------------------------------------------------------------
(* Requests in sequence. *)

JustLeft(r) == r.at = "sent" /\ r.ok = FALSE /\ r.ticket > sent

LEMMA LeavingJustLeft ==
    ASSUME TypeOK, NEW kind, NEW p, NEW q, NEW k, k > sent
    PROVE  JustLeft(Leaving(kind, p, q, k))
  BY DEF Leaving, JustLeft

\* What a run of the senders puts on the wire.
LEMMA SendersSend ==
    ASSUME TypeOK, NEW S \in SUBSET Products, SendersRun(S)
    PROVE  /\ sent <= sent' /\ wire \subseteq wire' /\ armed' = armed \ S
           /\ \A r \in wire' : \/ r \in wire
                               \/ /\ JustLeft(r) /\ r.kind = "set" /\ r.product \in Carrying(S)
                                  /\ r.quantity = pending[r.product]
                                  /\ r.ticket = newest'[r.product]
           /\ \A p \in Carrying(S) : \E r \in wire' : /\ JustLeft(r) /\ r.kind = "set"
                                                      /\ r.product = p /\ r.quantity = pending[p]
                                                      /\ r.ticket = newest'[p]
           /\ \A p \in Products \ Carrying(S) : newest'[p] = newest[p]
<1> DEFINE C == Carrying(S)
<1>1. PICK ticket \in Numberings(C) :
          /\ wire' = wire \cup {Leaving("set", p, pending[p], ticket[p]) : p \in C}
          /\ newest' = [p \in Products |-> IF p \in C THEN ticket[p] ELSE newest[p]]
          /\ sent' = sent + Cardinality(C)
          /\ armed' = armed \ S
  BY Zenon DEF SendersRun
<1>2. C \in SUBSET Products /\ sent \in Nat
  BY DEF Carrying, TypeOK
<1>3. Cardinality(C) \in Nat /\ \A p \in C : ticket[p] \in sent + 1 .. sent + Cardinality(C)
  BY <1>1, <1>2, NumberingsOf
<1> DEFINE new(p) == Leaving("set", p, pending[p], ticket[p])
<1>4. \A p \in C : /\ JustLeft(new(p)) /\ new(p).kind = "set" /\ new(p).product = p
                   /\ new(p).quantity = pending[p] /\ new(p).ticket = newest'[p]
  <2> TAKE p \in C
  <2>1. newest'[p] = ticket[p] /\ ticket[p] > sent
    BY <1>1, <1>2, <1>3
  <2>2. JustLeft(new(p))
    BY <2>1, LeavingJustLeft
  <2> QED BY <2>1, <2>2 DEF Leaving
<1>5. \A r \in wire' : r \in wire \/ \E p \in C : r = new(p)
  BY <1>1
<1>6. \A p \in C : new(p) \in wire'
  BY <1>1
<1> HIDE DEF new, C
<1>7. \A p \in Products \ C : newest'[p] = newest[p]
  BY <1>1
<1>8. sent <= sent' /\ wire \subseteq wire' /\ armed' = armed \ S
  BY <1>1, <1>2, <1>3
<1>9. \A r \in wire' : \/ r \in wire
                       \/ /\ JustLeft(r) /\ r.kind = "set" /\ r.product \in C
                          /\ r.quantity = pending[r.product] /\ r.ticket = newest'[r.product]
  BY <1>4, <1>5
<1>10. \A p \in C : \E r \in wire' : /\ JustLeft(r) /\ r.kind = "set" /\ r.product = p
                                     /\ r.quantity = pending[p] /\ r.ticket = newest'[p]
  BY <1>4, <1>6
<1> QED BY <1>7, <1>8, <1>9, <1>10 DEF C

\* One call of the store.
LEMMA CallSends ==
    ASSUME TypeOK, NEW kind \in {"remove", "clear", "order", "read"},
           NEW p \in Products \cup {Whole}, Call(kind, p)
    PROVE  /\ sent <= sent' /\ wire \subseteq wire'
           /\ \A r \in wire' : r \in wire \/ (JustLeft(r) /\ r.kind = kind /\ r.product = p)
<1> DEFINE new == Leaving(kind, p, None, sent + 1)
<1>1. sent \in Nat /\ sent' = sent + 1 /\ wire' = wire \cup {new}
  BY DEF Call, TypeOK
<1>2. JustLeft(new) /\ new.kind = kind /\ new.product = p
  BY <1>1, LeavingJustLeft DEF Leaving
<1> HIDE DEF new
<1> QED BY <1>1, <1>2

\* The keepalives of a page that goes away.
LEMMA HideSends ==
    ASSUME TypeOK, PageHide
    PROVE  /\ sent <= sent' /\ wire \subseteq wire'
           /\ \A r \in wire' : \/ r \in wire
                               \/ /\ JustLeft(r) /\ r.kind = "keepalive" /\ r.product \in Products
                                  /\ pending[r.product] # None /\ r.quantity = pending[r.product]
           /\ \A p \in Products : pending[p] # None =>
                  \E r \in wire' : /\ JustLeft(r) /\ r.kind = "keepalive" /\ r.product = p
                                   /\ r.quantity = pending[p]
<1> DEFINE C == Carrying(Products)
<1>1. PICK ticket \in Numberings(C) :
          wire' = wire \cup {Leaving("keepalive", p, pending[p], ticket[p]) : p \in C}
  BY DEF PageHide
<1>2. sent' = sent + Cardinality(C)
  BY DEF PageHide
<1>3. C \in SUBSET Products /\ sent \in Nat /\ \A p \in Products : p \in C <=> pending[p] # None
  BY DEF Carrying, TypeOK
<1>4. Cardinality(C) \in Nat /\ \A p \in C : ticket[p] \in sent + 1 .. sent + Cardinality(C)
  BY <1>1, <1>3, NumberingsOf
<1> DEFINE new(p) == Leaving("keepalive", p, pending[p], ticket[p])
<1>5. \A p \in C : /\ JustLeft(new(p)) /\ new(p).kind = "keepalive" /\ new(p).product = p
                   /\ new(p).quantity = pending[p]
  <2> TAKE p \in C
  <2>1. ticket[p] > sent
    BY <1>3, <1>4
  <2> QED BY <2>1, LeavingJustLeft DEF Leaving
<1>6. \A r \in wire' : r \in wire \/ \E p \in C : r = new(p)
  BY <1>1
<1>7. \A p \in C : new(p) \in wire'
  BY <1>1
<1> HIDE DEF new, C
<1>8. sent <= sent' /\ wire \subseteq wire'
  BY <1>1, <1>2, <1>3, <1>4
<1>9. \A r \in wire' : \/ r \in wire
                       \/ /\ JustLeft(r) /\ r.kind = "keepalive" /\ r.product \in Products
                          /\ pending[r.product] # None /\ r.quantity = pending[r.product]
  BY <1>3, <1>5, <1>6
<1>10. \A p \in Products : pending[p] # None =>
          \E r \in wire' : /\ JustLeft(r) /\ r.kind = "keepalive" /\ r.product = p
                           /\ r.quantity = pending[p]
  BY <1>3, <1>5, <1>7
<1> QED BY <1>8, <1>9, <1>10

\* Nothing but the server handles a request; an answer heard or lost leaves the wire.
LEMMA SequencedStays ==
    ASSUME IInv, Sequenced, sent <= sent', TypeOK',
           \A r \in wire' : r \in wire \/ JustLeft(r),
           applied' = applied \/ \E r \in wire \ wire' : r.ok /\ applied' = r.ticket,
           unheard' = unheard \/ \E r \in wire \ wire' : r.ok /\ unheard' = r.ticket
    PROVE  Sequenced'
<1>1. /\ sent \in Nat /\ applied \in Nat /\ applied <= sent /\ unheard \in Nat /\ unheard <= sent
      /\ \A r \in wire : r.ticket \in 1 .. sent
      /\ \A r \in wire' : r.ticket \in Nat
      /\ sent' \in Nat
  BY DEF IInv, TypeOK, Sequenced
<1>2. \A x : /\ x = applied \/ x = unheard \/ \E r \in wire \ wire' : r.ok /\ x = r.ticket
             => /\ x \in Nat /\ x <= sent
                /\ \A s \in wire' : /\ s.ticket # x
                                    /\ s.at = "sent" => x < s.ticket
  <2> TAKE x
  <2> HAVE x = applied \/ x = unheard \/ \E r \in wire \ wire' : r.ok /\ x = r.ticket
  <2>1. CASE x = applied \/ x = unheard
    BY <2>1, <1>1 DEF Sequenced, JustLeft
  <2>2. CASE \E r \in wire \ wire' : r.ok /\ x = r.ticket
    <3>1. PICK r \in wire \ wire' : r.ok /\ x = r.ticket
      BY <2>2
    <3>2. \A s \in wire : s \in wire' => s.ticket # x
      BY <3>1 DEF IInv, TicketsDistinct
    <3>3. \A s \in wire : s.at = "sent" => x < s.ticket
      BY <3>1 DEF Sequenced
    <3> QED BY <3>1, <3>2, <3>3, <1>1 DEF JustLeft
  <2> QED BY <2>1, <2>2
<1>3. unheard' \in Nat /\ unheard' <= sent
  BY <1>2
<1>4. unheard' <= sent'
  BY <1>1, <1>3
<1>5. \A s \in wire' : s.ok => s.at = "done"
  BY DEF Sequenced, JustLeft
<1>6. \A s \in wire' : /\ s.ticket # applied' /\ s.ticket # unheard'
                       /\ s.at = "sent" => applied' < s.ticket /\ unheard' < s.ticket
  BY <1>2
<1>7. \A s, r \in wire' : s.at = "sent" /\ r.at = "done" => r.ticket < s.ticket
  BY <1>1 DEF Sequenced, JustLeft
<1> QED BY <1>4, <1>5, <1>6, <1>7 DEF Sequenced

\* What a request becomes as the server handles it.
LEMMA AcceptedOnTheWire ==
    ASSUME IInv, NEW r \in wire, Accept(r), r.kind # "keepalive"
    PROVE  \E c : /\ wire' = (wire \ {r}) \cup {c} /\ c.at = "done" /\ c.ticket = r.ticket
                  /\ c.kind = r.kind /\ c.product = r.product /\ c.quantity = r.quantity
                  /\ c.ok = TRUE /\ c.cart = Effect(r)
<1> DEFINE c == [r EXCEPT !.at = "done", !.ok = TRUE, !.cart = Effect(r)]
<1>1. r \in Request
  BY DEF IInv, TypeOK
<1>2. wire' = (wire \ {r}) \cup {c}
  BY DEF Accept, Becomes
<1>3. /\ c.at = "done" /\ c.ticket = r.ticket /\ c.ok = TRUE /\ c.cart = Effect(r)
      /\ c.kind = r.kind /\ c.product = r.product /\ c.quantity = r.quantity
  BY <1>1 DEF Request
<1> HIDE DEF c
<1> QED BY <1>2, <1>3

LEMMA RefusedOnTheWire ==
    ASSUME IInv, NEW r \in wire, Refuse(r)
    PROVE  \E c : /\ wire' = (wire \ {r}) \cup {c} /\ c.at = "done" /\ c.ticket = r.ticket
                  /\ c.kind = r.kind /\ c.product = r.product /\ c.quantity = r.quantity
                  /\ c.ok = r.ok
<1> DEFINE c == [r EXCEPT !.at = "done"]
<1>1. r \in Request
  BY DEF IInv, TypeOK
<1>2. wire' = (wire \ {r}) \cup {c}
  BY DEF Refuse, Becomes
<1>3. /\ c.at = "done" /\ c.ticket = r.ticket /\ c.ok = r.ok
      /\ c.kind = r.kind /\ c.product = r.product /\ c.quantity = r.quantity
  BY <1>1 DEF Request
<1> HIDE DEF c
<1> QED BY <1>2, <1>3

\* A request handled in its turn was the first of those to be handled.
LEMMA SequencedHandled ==
    ASSUME IInv, Sequenced, InOrder, NEW r \in wire, Turn(r),
           UNCHANGED <<applied, unheard, sent>>,
           \/ wire' = wire \ {r}
           \/ \E c : wire' = (wire \ {r}) \cup {c} /\ c.at = "done" /\ c.ticket = r.ticket
    PROVE  /\ Sequenced' /\ applied < r.ticket /\ unheard < r.ticket
           /\ \A s \in wire : s.at = "sent" /\ s # r => r.ticket < s.ticket
           /\ \A s \in wire : s.at = "done" => s.ticket < r.ticket
<1>1. r.at = "sent" /\ \A s \in wire : s.at = "sent" => r.ticket <= s.ticket
  BY DEF Turn
<1>2. \A s \in wire : s.ticket \in Nat /\ (s # r => s.ticket # r.ticket)
  BY DEF IInv, TypeOK, TicketsDistinct
<1>3. \A s \in wire : s.at = "sent" /\ s # r => r.ticket < s.ticket
  BY <1>1, <1>2
<1>4. applied < r.ticket /\ unheard < r.ticket /\ \A s \in wire : s.at = "done" => s.ticket < r.ticket
  BY <1>1 DEF Sequenced
<1>5. applied \in Nat /\ unheard \in Nat
  BY DEF IInv, TypeOK
<1>6. ASSUME wire' = wire \ {r} PROVE Sequenced'
  BY <1>6 DEF Sequenced
<1>7. ASSUME NEW c, wire' = (wire \ {r}) \cup {c}, c.at = "done", c.ticket = r.ticket
      PROVE  Sequenced'
  <2>1. \A s \in wire' : s = c \/ (s \in wire /\ s # r)
    BY <1>7
  <2>2. r.ticket # applied /\ r.ticket # unheard
    BY <1>2, <1>4, <1>5
  <2>3. unheard <= sent /\ \A s \in wire : /\ s.ok => s.at = "done"
                                           /\ s.ticket # applied /\ s.ticket # unheard
                                           /\ s.at = "sent" =>
                                                 applied < s.ticket /\ unheard < s.ticket
    BY DEF Sequenced
  <2>4. \A s \in wire' : /\ s.ok => s.at = "done"
                         /\ s.ticket # applied /\ s.ticket # unheard
                         /\ s.at = "sent" => applied < s.ticket /\ unheard < s.ticket
    BY <2>1, <2>2, <2>3, <1>7
  <2>5. \A s, q \in wire' : s.at = "sent" /\ q.at = "done" => q.ticket < s.ticket
    <3> TAKE s, q \in wire'
    <3> HAVE s.at = "sent" /\ q.at = "done"
    <3>1. s \in wire /\ s # r
      BY <2>1, <1>7
    <3>2. CASE q = c
      BY <3>1, <3>2, <1>3, <1>7
    <3>3. CASE q # c
      BY <3>1, <3>3, <2>1 DEF Sequenced
    <3> QED BY <3>2, <3>3
  <2> QED BY <2>3, <2>4, <2>5 DEF Sequenced
<1> QED BY <1>3, <1>4, <1>6, <1>7

-----------------------------------------------------------------------------
(* The steps, as the wire and the two carts see them. *)

\* Requests may leave.
Adds == /\ sent <= sent' /\ wire \subseteq wire' /\ \A s \in wire' : s \in wire \/ JustLeft(s)
        /\ UNCHANGED <<line, cart, applied, unheard>>

\* An answer or a failure is heard; a read may leave after it.
Hears(r) == /\ Alive /\ r \notin wire' /\ wire \ {r} \subseteq wire'
            /\ sent <= sent' /\ \A s \in wire' : s \in wire \/ JustLeft(s)
            /\ UNCHANGED <<line, page>>
            /\ \/ r.ok /\ StoreAnswer(r) /\ UNCHANGED unheard
               \/ Unheard(r) /\ UNCHANGED <<cart, applied>>

\* A request of a page that is gone leaves the wire unheard.
Drops(r) == /\ ~Alive /\ wire' = wire \ {r}
            /\ UNCHANGED <<line, cart, applied, unheard, page, sent>>

LEMMA VisitorAdds ==
    ASSUME TypeOK, Visitor \/ (\E p \in Products : TimerFires(p)) \/ SettleReturns \/ UNCHANGED vars
    PROVE  Adds /\ (Alive' => Alive)
<1>1. ASSUME NEW S \in SUBSET Products, SendersRun(S), UNCHANGED <<line, cart, applied, unheard>>
      PROVE  Adds
  <2>1. /\ sent <= sent' /\ wire \subseteq wire'
        /\ \A r \in wire' : r \in wire \/ JustLeft(r)
    BY <1>1, SendersSend, Zenon
  <2> QED BY <2>1, <1>1 DEF Adds
<1>2. ASSUME NEW kind \in {"remove", "clear", "order", "read"}, NEW p \in Products \cup {Whole},
             Call(kind, p), UNCHANGED <<line, cart, applied, unheard>>
      PROVE  Adds
  BY <1>2, CallSends DEF Adds
<1>3. ASSUME UNCHANGED <<wire, sent, line, cart, applied, unheard>> PROVE Adds
  BY <1>3 DEF Adds, TypeOK
<1>4. ASSUME NEW p \in Products, StepQuantity(p) PROVE Adds /\ (Alive' => Alive)
  BY <1>4, <1>3 DEF StepQuantity, Alive
<1>5. ASSUME NEW p \in Products, RemoveLine(p) PROVE Adds /\ (Alive' => Alive)
  BY <1>5, <1>2 DEF RemoveLine, Alive
<1>6. ASSUME HandleClearCart PROVE Adds /\ (Alive' => Alive)
  BY <1>6, <1>2 DEF HandleClearCart, Alive
<1>7. ASSUME Checkout PROVE Adds /\ (Alive' => Alive)
  BY <1>7, <1>1 DEF Checkout, Alive, TypeOK
<1>8. ASSUME Unmount PROVE Adds /\ (Alive' => Alive)
  BY <1>8, <1>1 DEF Unmount, MountedAnd, Alive, TypeOK, history
<1>9. ASSUME PageHide PROVE Adds /\ (Alive' => Alive)
  <2>1. UNCHANGED <<line, cart, applied, unheard>> /\ ~Alive'
    BY <1>9 DEF PageHide, history, Alive
  <2> QED BY <1>9, <2>1, HideSends DEF Adds
<1>10. ASSUME NEW p \in Products, TimerFires(p) PROVE Adds /\ (Alive' => Alive)
  BY <1>10, <1>1 DEF TimerFires, Alive, history
<1>11. ASSUME SettleReturns PROVE Adds /\ (Alive' => Alive)
  <2>1. UNCHANGED <<line, cart, applied, unheard, page>>
    BY <1>11 DEF SettleReturns, history
  <2>2. UNCHANGED <<wire, sent>> \/ Call("order", Whole)
    BY <1>11 DEF SettleReturns, PlaceOrder
  <2> QED BY <2>1, <2>2, <1>2, <1>3 DEF Alive
<1>12. ASSUME UNCHANGED vars PROVE Adds /\ (Alive' => Alive)
  BY <1>12, <1>3 DEF vars, client, history, Alive
<1> QED BY <1>4, <1>5, <1>6, <1>7, <1>8, <1>9, <1>10, <1>11, <1>12 DEF Visitor

LEMMA HeardHears == ASSUME TypeOK, Heard PROVE \E r \in wire : Hears(r)
<1>1. PICK r \in wire : \/ SetAnswered(r) \/ CartAnswered(r) \/ OrderAnswered(r)
                        \/ SetFailed(r) \/ CartFailed(r) \/ OrderFailed(r)
  BY DEF Heard
<1>2. sent \in Nat /\ r \in wire /\ r.ticket \in 1 .. sent
  BY DEF TypeOK
<1>3. CASE SetAnswered(r) \/ CartAnswered(r) \/ OrderAnswered(r)
  BY <1>2, <1>3 DEF SetAnswered, CartAnswered, OrderAnswered, AnswerOf, Landed, Hears, history
<1>4. CASE SetFailed(r) \/ CartFailed(r)
  BY <1>2, <1>4 DEF SetFailed, CartFailed, FailureOf, Landed, Hears
<1>5. CASE OrderFailed(r)
  <2>1. /\ UNCHANGED <<line, page, cart, applied>> /\ Unheard(r) /\ Alive
        /\ \/ Landed(r) /\ UNCHANGED sent
           \/ /\ wire' = (wire \ {r}) \cup {Leaving("read", Whole, None, sent + 1)}
              /\ sent' = sent + 1
    BY <1>5 DEF OrderFailed, FailureOf
  <2>2. CASE Landed(r) /\ UNCHANGED sent
    BY <1>2, <2>1, <2>2 DEF Landed, Hears
  <2>3. CASE /\ wire' = (wire \ {r}) \cup {Leaving("read", Whole, None, sent + 1)}
             /\ sent' = sent + 1
    <3>1. PICK new : new = Leaving("read", Whole, None, sent + 1)
      OBVIOUS
    <3>2. JustLeft(new) /\ new.ticket = sent + 1
      BY <1>2, <3>1, LeavingJustLeft DEF Leaving
    <3> QED BY <1>2, <2>1, <2>3, <3>1, <3>2 DEF Hears
  <2> QED BY <2>1, <2>2, <2>3
<1> QED BY <1>1, <1>3, <1>4, <1>5

LEMMA DroppedDrops ==
    ASSUME KindsFit, NEW r \in wire, KeepaliveGone(r) \/ CancelledWithPage(r) PROVE Drops(r)
  BY DEF KindsFit, KeepaliveGone, CancelledWithPage, Drops, client, history

\* Every step is of one of these kinds, and a page that is gone does not come back.
LEMMA StepKinds ==
    ASSUME TypeOK, KindsFit, [Next]_vars
    PROVE  /\ Adds \/ \E r \in wire : Hears(r) \/ Drops(r) \/ Accept(r) \/ Refuse(r)
           /\ Alive' => Alive
<1>1. CASE Served
  <2>1. \E r \in wire : Accept(r) \/ Refuse(r) \/ Drops(r)
    BY <1>1, DroppedDrops DEF Served
  <2>2. UNCHANGED page
    BY <1>1 DEF Served, Accept, Refuse, KeepaliveGone, CancelledWithPage, client
  <2> QED BY <2>1, <2>2 DEF Alive
<1>2. CASE Heard
  BY <1>2, HeardHears DEF Hears
<1> QED BY <1>1, <1>2, VisitorAdds DEF Next

LEMMA SequencedStep ==
    ASSUME OInv, InOrder, [Next]_vars
    PROVE  Sequenced'
<1>1. IInv /\ Sequenced /\ TypeOK /\ KindsFit
  BY DEF OInv, IInv
<1>2. TypeOK' /\ sent <= sent
  BY <1>1, StepIInv DEF IInv, TypeOK
<1>3. CASE Adds
  BY <1>1, <1>2, <1>3, SequencedStays DEF Adds
<1>4. ASSUME NEW r \in wire, Hears(r) PROVE Sequenced'
  <2>1. applied' = applied \/ (r.ok /\ applied' = r.ticket)
    BY <1>4 DEF Hears, StoreAnswer
  <2>2. unheard' = unheard \/ (r.ok /\ unheard' = r.ticket)
    BY <1>4 DEF Hears, Unheard
  <2>3. r \in wire \ wire' /\ sent <= sent' /\ \A s \in wire' : s \in wire \/ JustLeft(s)
    BY <1>4 DEF Hears
  <2> QED BY <1>1, <1>2, <2>1, <2>2, <2>3, SequencedStays
<1>5. ASSUME NEW r \in wire, Drops(r) PROVE Sequenced'
  BY <1>1, <1>2, <1>5, SequencedStays DEF Drops
<1>6. ASSUME NEW r \in wire, Accept(r) PROVE Sequenced'
  <2>1. Turn(r) /\ UNCHANGED <<applied, unheard, sent>>
    BY <1>6 DEF Accept, client
  <2>2. \/ wire' = wire \ {r}
        \/ \E c : wire' = (wire \ {r}) \cup {c} /\ c.at = "done" /\ c.ticket = r.ticket
    <3>1. CASE r.kind = "keepalive"
      BY <1>6, <3>1 DEF Accept
    <3>2. CASE r.kind # "keepalive"
      BY <1>1, <1>6, <3>2, AcceptedOnTheWire
    <3> QED BY <3>1, <3>2
  <2> QED BY <1>1, <2>1, <2>2, SequencedHandled
<1>7. ASSUME NEW r \in wire, Refuse(r) PROVE Sequenced'
  <2>1. Turn(r) /\ UNCHANGED <<applied, unheard, sent>>
    BY <1>7 DEF Refuse, client, history
  <2>2. \E c : wire' = (wire \ {r}) \cup {c} /\ c.at = "done" /\ c.ticket = r.ticket
    BY <1>1, <1>7, RefusedOnTheWire
  <2> QED BY <1>1, <2>1, <2>2, SequencedHandled
<1> QED BY <1>1, <1>3, <1>4, <1>5, <1>6, <1>7, StepKinds

\* An order and the read after it are out while the checkout waits for them.
LEMMA KindsFitStep ==
    ASSUME OInv, [Next]_vars
    PROVE  KindsFit'
<1>1. IInv /\ TypeOK /\ KindsFit /\ CheckoutOnTheWire
  BY DEF OInv, IInv
<1>2. Alive' => Alive
  BY <1>1, StepKinds
<1>3. ASSUME \A s \in wire' : \/ \E r \in wire : /\ s.kind = r.kind /\ s.product = r.product
                                                 /\ s.quantity = r.quantity
                                                 /\ s.kind = "keepalive" => s.at = r.at
                              \/ /\ s.kind = "keepalive" => s.at = "sent" /\ ~Alive'
                                 /\ s.kind \in {"set", "keepalive"} =>
                                        s.product \in Products /\ s.quantity # None
                                 /\ s.kind = "clear" => s.product = Whole
                                 /\ s.kind # "order",
             placing' = placing \/ placing # "ordering"
             \/ \A s \in wire' : s.kind # "order"
      PROVE  KindsFit'
  BY <1>1, <1>2, <1>3 DEF KindsFit
<1>4. ASSUME NEW S \in SUBSET Products, SendersRun(S), placing' = placing \/ placing = "no"
      PROVE  KindsFit'
  <2>1. \A s \in wire' : \/ s \in wire
                         \/ /\ s.kind = "set" /\ s.product \in Carrying(S)
                            /\ s.quantity = pending[s.product]
    BY <1>1, <1>4, SendersSend, Zenon
  <2>2. \A p \in Carrying(S) : p \in Products /\ pending[p] # None
    BY DEF Carrying
  <2> QED BY <2>1, <2>2, <1>3, <1>4
<1>5. ASSUME NEW kind \in {"remove", "clear"}, NEW p \in Products \cup {Whole}, Call(kind, p),
             kind = "clear" => p = Whole, placing' = placing
      PROVE  KindsFit'
  BY <1>1, <1>3, <1>5, CallSends
<1>6. ASSUME Visitor PROVE KindsFit'
  <2>1. ASSUME NEW p \in Products, StepQuantity(p) PROVE KindsFit'
    BY <2>1, <1>3 DEF StepQuantity
  <2>2. ASSUME NEW p \in Products, RemoveLine(p) PROVE KindsFit'
    BY <2>2, <1>5 DEF RemoveLine
  <2>3. ASSUME HandleClearCart PROVE KindsFit'
    BY <2>3, <1>5 DEF HandleClearCart
  <2>4. ASSUME Checkout PROVE KindsFit'
    BY <1>1, <2>4, <1>4 DEF Checkout, MountedAnd, TypeOK
  <2>5. ASSUME Unmount PROVE KindsFit'
    BY <1>1, <2>5, <1>4 DEF Unmount, TypeOK
  <2>6. ASSUME PageHide PROVE KindsFit'
    <3>1. placing' = placing /\ ~Alive'
      BY <2>6 DEF PageHide, Alive
    <3>2. \A s \in wire' : \/ s \in wire
                           \/ /\ s.at = "sent" /\ s.kind = "keepalive"
                              /\ s.product \in Products /\ s.quantity # None
      <4>1. \A s \in wire' : \/ s \in wire
                             \/ /\ JustLeft(s) /\ s.kind = "keepalive" /\ s.product \in Products
                                /\ pending[s.product] # None /\ s.quantity = pending[s.product]
        BY <1>1, <2>6, HideSends
      <4> QED BY <4>1 DEF JustLeft
    <3> QED BY <3>1, <3>2, <1>3
  <2> QED BY <1>6, <2>1, <2>2, <2>3, <2>4, <2>5, <2>6 DEF Visitor
<1>7. ASSUME NEW p \in Products, TimerFires(p) PROVE KindsFit'
  BY <1>7, <1>4 DEF TimerFires
<1>8. ASSUME SettleReturns PROVE KindsFit'
  <2>1. CASE anyFailed
    BY <1>3, <1>8, <2>1 DEF SettleReturns, PlaceOrder, Settled
  <2>2. CASE ~anyFailed
    <3>1. placing' = "ordering" /\ Call("order", Whole)
      BY <1>8, <2>2 DEF SettleReturns, PlaceOrder
    <3>2. \A s \in wire' : s \in wire \/ (s.kind = "order" /\ s.product = Whole)
      BY <1>1, <3>1, CallSends
    <3> QED BY <1>2, <3>1, <3>2, <1>1 DEF KindsFit
  <2> QED BY <2>1, <2>2
<1>9. ASSUME Heard PROVE KindsFit'
  <2>1. PICK r \in wire : \/ SetAnswered(r) \/ CartAnswered(r) \/ OrderAnswered(r)
                          \/ SetFailed(r) \/ CartFailed(r) \/ OrderFailed(r)
    BY <1>9 DEF Heard
  <2>2. CASE SetAnswered(r) \/ SetFailed(r)
    BY <2>2, <1>3 DEF SetAnswered, SetFailed, Landed
  <2>3. CASE CartAnswered(r) \/ CartFailed(r)
    <3>1. wire' = wire \ {r} /\ (placing' = placing \/ r.kind = "read")
      BY <2>3 DEF CartAnswered, CartFailed, Landed
    <3>2. r.kind = "read" => \A s \in wire' : s.kind # "order"
      BY <1>1, <3>1 DEF CheckoutOnTheWire
    <3> QED BY <3>1, <3>2, <1>3
  <2>4. CASE OrderAnswered(r) \/ OrderFailed(r)
    <3>1. r.kind = "order"
      BY <2>4 DEF OrderAnswered, OrderFailed
    <3>2. \A s \in wire \ {r} : s.kind # "order"
      BY <1>1, <3>1 DEF CheckoutOnTheWire
    <3>3. \/ wire' = wire \ {r}
          \/ wire' = (wire \ {r}) \cup {Leaving("read", Whole, None, sent + 1)}
      BY <2>4 DEF OrderAnswered, OrderFailed, Landed
    <3>4. \A s \in wire' : s \in wire \ {r} \/ s.kind = "read"
      BY <3>3 DEF Leaving
    <3>5. \A s \in wire' : s.kind # "order"
      BY <3>2, <3>4
    <3>6. \A s \in wire' : s \in wire \/ s.kind = "read"
      BY <3>4
    <3> QED BY <3>5, <3>6, <1>3
  <2> QED BY <2>1, <2>2, <2>3, <2>4
<1>10. ASSUME Served PROVE KindsFit'
  <2>1. PICK r \in wire : Accept(r) \/ Refuse(r) \/ KeepaliveGone(r) \/ CancelledWithPage(r)
    BY <1>10 DEF Served
  <2>2. placing' = placing
    BY <2>1 DEF Accept, Refuse, KeepaliveGone, CancelledWithPage, client
  <2>3. CASE wire' = wire \ {r}
    BY <2>2, <2>3, <1>3
  <2>4. CASE r.kind # "keepalive" /\ (Accept(r) \/ Refuse(r))
    <3>1. PICK c : /\ wire' = (wire \ {r}) \cup {c}
                   /\ c.kind = r.kind /\ c.product = r.product /\ c.quantity = r.quantity
      BY <1>1, <2>4, AcceptedOnTheWire, RefusedOnTheWire
    <3> QED BY <2>2, <2>4, <3>1, <1>3
  <2> QED BY <2>1, <2>3, <2>4 DEF Accept, Refuse, KeepaliveGone, CancelledWithPage
<1>11. CASE UNCHANGED vars
  BY <1>3, <1>11 DEF vars, client
<1> QED BY <1>6, <1>7, <1>8, <1>9, <1>10, <1>11 DEF Next

LEMMA StepOInv == ASSUME OInv, InOrder, [Next]_vars PROVE OInv'
  BY StepIInv, SequencedStep, KindsFitStep DEF OInv

-----------------------------------------------------------------------------
(* The cart on screen and the server's. *)

\* What a step that answers no request leaves of the answered ones.
LEMMA AnsweredStay ==
    ASSUME OInv, InOrder, Alive, Adds \/ \E r \in wire : Refuse(r)
    PROVE  /\ \A s \in wire' : s.ok => s \in wire
           /\ \A s \in wire : s.ok => s \in wire'
           /\ UNCHANGED <<line, cart, applied, unheard>>
<1>1. CASE Adds
  BY <1>1 DEF Adds, JustLeft
<1>2. ASSUME NEW r \in wire, Refuse(r)
      PROVE  /\ \A s \in wire' : s.ok => s \in wire
             /\ \A s \in wire : s.ok => s \in wire'
             /\ UNCHANGED <<line, cart, applied, unheard>>
  <2>1. PICK c : wire' = (wire \ {r}) \cup {c} /\ c.ok = r.ok
    BY <1>2, RefusedOnTheWire DEF OInv
  <2>2. ~r.ok
    BY <1>2 DEF OInv, Sequenced, Refuse, Turn
  <2> QED BY <1>2, <2>1, <2>2 DEF Refuse, client, history
<1> QED BY <1>1, <1>2

\* What handling a request leaves of the answered ones, on a page that is there.
LEMMA AcceptAnswers ==
    ASSUME OInv, InOrder, Alive, NEW r \in wire, Accept(r)
    PROVE  /\ \E c \in wire' : /\ c.ok = TRUE /\ c.cart = line' /\ c.ticket = r.ticket
                               /\ c.kind = r.kind /\ c.product = r.product
                               /\ c.quantity = r.quantity /\ c.at = "done"
                               /\ wire' = (wire \ {r}) \cup {c}
           /\ applied < r.ticket /\ unheard < r.ticket
           /\ \A s \in wire : s.ok => s.ticket < r.ticket
           /\ UNCHANGED <<cart, applied, unheard>>
<1>1. r.kind # "keepalive" /\ IInv /\ Sequenced
  BY DEF OInv, KindsFit
<1>2. PICK c : /\ wire' = (wire \ {r}) \cup {c} /\ c.ticket = r.ticket /\ c.at = "done"
               /\ c.kind = r.kind /\ c.product = r.product /\ c.quantity = r.quantity
               /\ c.ok = TRUE /\ c.cart = Effect(r)
  BY <1>1, AcceptedOnTheWire
<1>3. Turn(r) /\ UNCHANGED <<cart, applied, unheard, sent>> /\ line' = Effect(r)
  BY DEF Accept, client
<1>4. /\ applied < r.ticket /\ unheard < r.ticket
      /\ \A s \in wire : s.at = "done" => s.ticket < r.ticket
  BY <1>1, <1>2, <1>3, SequencedHandled
<1>5. \A s \in wire : s.ok => s.ticket < r.ticket
  BY <1>1, <1>4 DEF Sequenced
<1> QED BY <1>2, <1>3, <1>4, <1>5

LEMMA TicketsNat ==
    ASSUME OInv
    PROVE  /\ applied \in Nat /\ unheard \in Nat
           /\ \A s \in wire : s.ticket \in Nat /\ s.ticket # applied /\ s.ticket # unheard
           /\ \A r, s \in wire : r.ticket = s.ticket => r = s
  BY DEF OInv, IInv, TypeOK, Sequenced, TicketsDistinct

\* What hearing leaves of the answered ones and of the two marks.
LEMMA HearsMarks ==
    ASSUME OInv, NEW r \in wire, Hears(r)
    PROVE  /\ \A s \in wire' : s.ok => s \in wire /\ s # r
           /\ UNCHANGED line
           /\ \/ r.ok /\ r.ticket > applied /\ cart' = r.cart /\ applied' = r.ticket /\ unheard' = unheard
              \/ r.ok /\ r.ticket < applied /\ UNCHANGED <<cart, applied, unheard>>
              \/ r.ok /\ r.ticket > unheard /\ unheard' = r.ticket /\ UNCHANGED <<cart, applied>>
              \/ ~(r.ok /\ r.ticket > unheard) /\ UNCHANGED <<cart, applied, unheard>>
<1>1. \A s \in wire' : s.ok => s \in wire /\ s # r
  BY DEF Hears, JustLeft
<1>2. UNCHANGED line
  BY DEF Hears
<1>3. CASE r.ok /\ StoreAnswer(r) /\ UNCHANGED unheard
  BY <1>1, <1>2, <1>3, TicketsNat DEF StoreAnswer
<1>4. CASE Unheard(r) /\ UNCHANGED <<cart, applied>>
  BY <1>1, <1>2, <1>4 DEF Unheard
<1> QED BY <1>3, <1>4 DEF Hears

LEMMA ScreenStep ==
    ASSUME OInv, InOrder, ScreenFollows, [Next]_vars
    PROVE  ScreenFollows'
<1> SUFFICES ASSUME Alive' PROVE ScreenFollows'
  BY DEF ScreenFollows
<1>1. /\ Adds \/ \E r \in wire : Hears(r) \/ Drops(r) \/ Accept(r) \/ Refuse(r)
      /\ Alive
  BY StepKinds DEF OInv, IInv
<1>2. \/ cart = line /\ \A r \in wire : r.ok => r.ticket < applied
      \/ \E k \in wire : /\ k.ok /\ k.cart = line
                         /\ applied < k.ticket /\ unheard < k.ticket
                         /\ \A r \in wire : r.ok => r.ticket <= k.ticket
      \/ unheard > applied /\ \A r \in wire : r.ok => r.ticket < unheard
  BY <1>1 DEF ScreenFollows
<1>3. CASE Adds \/ \E r \in wire : Refuse(r)
  <2>1. /\ \A s \in wire' : s.ok => s \in wire
        /\ \A s \in wire : s.ok => s \in wire'
        /\ UNCHANGED <<line, cart, applied, unheard>>
    BY <1>1, <1>3, AnsweredStay
  <2> QED BY <1>2, <2>1 DEF ScreenFollows
<1>4. ASSUME NEW r \in wire, Hears(r) PROVE ScreenFollows'
  <2>1. /\ \A s \in wire' : s.ok => s \in wire /\ s # r
        /\ UNCHANGED line
        /\ \/ r.ok /\ r.ticket > applied /\ cart' = r.cart /\ applied' = r.ticket /\ unheard' = unheard
           \/ r.ok /\ r.ticket < applied /\ UNCHANGED <<cart, applied, unheard>>
           \/ r.ok /\ r.ticket > unheard /\ unheard' = r.ticket /\ UNCHANGED <<cart, applied>>
           \/ ~(r.ok /\ r.ticket > unheard) /\ UNCHANGED <<cart, applied, unheard>>
    BY <1>4, HearsMarks
  <2>2. /\ applied \in Nat /\ unheard \in Nat
        /\ \A s \in wire : s.ticket \in Nat /\ s.ticket # applied /\ s.ticket # unheard
        /\ \A q, s \in wire : q.ticket = s.ticket => q = s
    BY TicketsNat
  <2>3. wire \ {r} \subseteq wire'
    BY <1>4 DEF Hears
  <2>4. CASE cart = line /\ \A s \in wire : s.ok => s.ticket < applied
    BY <2>1, <2>2, <2>4 DEF ScreenFollows
  <2>5. CASE \E k \in wire : /\ k.ok /\ k.cart = line
                             /\ applied < k.ticket /\ unheard < k.ticket
                             /\ \A s \in wire : s.ok => s.ticket <= k.ticket
    <3>1. PICK k \in wire : /\ k.ok /\ k.cart = line
                            /\ applied < k.ticket /\ unheard < k.ticket
                            /\ \A s \in wire : s.ok => s.ticket <= k.ticket
      BY <2>5
    <3>2. CASE k = r
      <4>1. \A s \in wire' : s.ok => s.ticket < r.ticket
        BY <2>1, <2>2, <3>1, <3>2
      <4>2. (cart' = line' /\ applied' = r.ticket) \/ (unheard' = r.ticket /\ unheard' > applied')
        BY <2>1, <2>2, <3>1, <3>2
      <4> QED BY <4>1, <4>2 DEF ScreenFollows
    <3>3. CASE k # r
      <4>1. k \in wire' /\ applied' < k.ticket /\ unheard' < k.ticket
        BY <2>1, <2>2, <2>3, <3>1, <3>3
      <4>2. \A s \in wire' : s.ok => s.ticket <= k.ticket
        BY <2>1, <3>1
      <4> QED BY <2>1, <3>1, <4>1, <4>2 DEF ScreenFollows
    <3> QED BY <3>2, <3>3
  <2>6. CASE unheard > applied /\ \A s \in wire : s.ok => s.ticket < unheard
    <3>1. unheard' = unheard /\ applied' < unheard
      BY <2>1, <2>2, <2>6
    <3> QED BY <2>1, <2>2, <2>6, <3>1 DEF ScreenFollows
  <2> QED BY <1>2, <2>4, <2>5, <2>6
<1>5. ASSUME NEW r \in wire, Accept(r) PROVE ScreenFollows'
  <2>1. /\ \E c \in wire' : /\ c.ok = TRUE /\ c.cart = line' /\ c.ticket = r.ticket
                            /\ wire' = (wire \ {r}) \cup {c}
        /\ applied < r.ticket /\ unheard < r.ticket
        /\ \A s \in wire : s.ok => s.ticket < r.ticket
        /\ UNCHANGED <<cart, applied, unheard>>
    BY <1>1, <1>5, AcceptAnswers
  <2>2. PICK c \in wire' : /\ c.ok = TRUE /\ c.cart = line' /\ c.ticket = r.ticket
                           /\ wire' = (wire \ {r}) \cup {c}
    BY <2>1
  <2>3. c.ok /\ applied' < c.ticket /\ unheard' < c.ticket
    BY <2>1, <2>2
  <2>4. \A s \in wire' : s.ok => s.ticket <= c.ticket
    BY <2>1, <2>2, TicketsNat
  <2> QED BY <2>2, <2>3, <2>4 DEF ScreenFollows
<1> QED BY <1>1, <1>3, <1>4, <1>5 DEF Drops

\* A line is there no more because of the request just handled, or was gone before.
LEMMA TakenAway ==
    ASSUME OInv, NEW r \in wire, r.kind # "keepalive", Accept(r), NEW p \in Products, line'[p] = None
    PROVE  line[p] = None \/ (r.kind \in {"remove", "clear", "order"} /\ r.product \in {p, Whole})
<1>1. r \in Request /\ line \in Carts /\ line' = Effect(r)
  BY DEF OInv, IInv, TypeOK, Accept
<1>2. CASE r.kind = "set"
  BY <1>1, <1>2 DEF Effect, Carts, OInv, KindsFit
<1>3. CASE r.kind = "remove"
  BY <1>1, <1>3 DEF Effect, Carts
<1>4. CASE r.kind = "read"
  BY <1>1, <1>4 DEF Effect
<1>5. CASE r.kind \in {"clear", "order"}
  BY <1>5 DEF OInv, KindsFit
<1> QED BY <1>1, <1>2, <1>3, <1>4, <1>5 DEF Request

LEMMA GoneStep ==
    ASSUME OInv, InOrder, GoneIsKnown, [Next]_vars
    PROVE  GoneIsKnown'
<1> SUFFICES ASSUME Alive', NEW p \in Products, line'[p] = None
             PROVE  \/ cart'[p] = None /\ GoneSince(p, applied)'
                    \/ \E k \in wire' : /\ TakesAway(k, p) /\ GoneSince(p, k.ticket)'
                                        /\ applied' > k.ticket => cart'[p] = None
                    \/ unheard' > applied' /\ GoneSince(p, unheard)'
  BY Zenon DEF GoneIsKnown, TakesAway
<1> DEFINE Goal == \/ cart'[p] = None /\ GoneSince(p, applied)'
                   \/ \E k \in wire' : /\ TakesAway(k, p) /\ GoneSince(p, k.ticket)'
                                       /\ applied' > k.ticket => cart'[p] = None
                   \/ unheard' > applied' /\ GoneSince(p, unheard)'
<1>1. /\ Adds \/ \E r \in wire : Hears(r) \/ Drops(r) \/ Accept(r) \/ Refuse(r)
      /\ Alive
  BY StepKinds DEF OInv, IInv
<1>2. line[p] = None =>
          \/ cart[p] = None /\ GoneSince(p, applied)
          \/ \E k \in wire : /\ TakesAway(k, p) /\ GoneSince(p, k.ticket)
                             /\ applied > k.ticket => cart[p] = None
          \/ unheard > applied /\ GoneSince(p, unheard)
  BY <1>1 DEF GoneIsKnown
<1>3. /\ applied \in Nat /\ unheard \in Nat
      /\ \A s \in wire : s.ticket \in Nat /\ s.ticket # applied /\ s.ticket # unheard
      /\ \A q, s \in wire : q.ticket = s.ticket => q = s
  BY TicketsNat
<1>4. CASE Adds \/ \E r \in wire : Refuse(r)
  <2>1. /\ \A s \in wire' : s.ok => s \in wire
        /\ \A s \in wire : s.ok => s \in wire'
        /\ UNCHANGED <<line, cart, applied, unheard>>
    BY <1>1, <1>4, AnsweredStay
  <2> QED BY <1>2, <2>1 DEF GoneSince, TakesAway
<1>5. ASSUME NEW r \in wire, Hears(r) PROVE Goal
  <2>1. /\ \A s \in wire' : s.ok => s \in wire /\ s # r
        /\ UNCHANGED line
        /\ \/ r.ok /\ r.ticket > applied /\ cart' = r.cart /\ applied' = r.ticket /\ unheard' = unheard
           \/ r.ok /\ r.ticket < applied /\ UNCHANGED <<cart, applied, unheard>>
           \/ r.ok /\ r.ticket > unheard /\ unheard' = r.ticket /\ UNCHANGED <<cart, applied>>
           \/ ~(r.ok /\ r.ticket > unheard) /\ UNCHANGED <<cart, applied, unheard>>
    BY <1>5, HearsMarks
  <2>2. wire \ {r} \subseteq wire'
    BY <1>5 DEF Hears
  <2>3. CASE cart[p] = None /\ GoneSince(p, applied)
    <3>1. cart'[p] = None /\ applied' \in Nat /\ applied' >= applied
      BY <1>3, <2>1, <2>3 DEF GoneSince
    <3>2. GoneSince(p, applied)'
      BY <1>3, <2>1, <2>3, <3>1 DEF GoneSince
    <3> QED BY <3>1, <3>2
  <2>4. CASE \E k \in wire : /\ TakesAway(k, p) /\ GoneSince(p, k.ticket)
                             /\ applied > k.ticket => cart[p] = None
    <3>1. PICK k \in wire : /\ TakesAway(k, p) /\ GoneSince(p, k.ticket)
                            /\ applied > k.ticket => cart[p] = None
      BY <2>4
    <3>2. k.ok /\ k.cart[p] = None /\ \A s \in wire : s.ok /\ s.ticket > k.ticket => s.cart[p] = None
      BY <3>1 DEF TakesAway, GoneSince
    <3>3. \A s \in wire' : s.ok => s \in wire
      BY <2>1
    <3>4. CASE k # r
      <4>1. k \in wire' /\ GoneSince(p, k.ticket)'
        BY <2>2, <3>2, <3>3, <3>4 DEF GoneSince
      <4>2. applied' > k.ticket => cart'[p] = None
        BY <1>3, <2>1, <3>1, <3>2, <3>4
      <4> QED BY <3>1, <4>1, <4>2
    <3>5. CASE k = r
      <4>1. \/ cart'[p] = None /\ applied' \in Nat /\ applied' >= r.ticket
            \/ unheard' > applied' /\ unheard' \in Nat /\ unheard' >= r.ticket
        BY <1>3, <2>1, <3>1, <3>2, <3>5
      <4>2. applied' >= r.ticket /\ applied' \in Nat => GoneSince(p, applied)'
        BY <1>3, <3>2, <3>3, <3>5 DEF GoneSince
      <4>3. unheard' >= r.ticket /\ unheard' \in Nat => GoneSince(p, unheard)'
        BY <1>3, <3>2, <3>3, <3>5 DEF GoneSince
      <4> QED BY <4>1, <4>2, <4>3
    <3> QED BY <3>4, <3>5
  <2>5. CASE unheard > applied /\ GoneSince(p, unheard)
    <3>1. /\ unheard' \in Nat /\ unheard' >= unheard /\ applied' \in Nat
          /\ applied' > unheard => cart'[p] = None
          /\ applied' # unheard
      BY <1>3, <2>1, <2>5 DEF GoneSince
    <3>2. GoneSince(p, unheard)'
      BY <1>3, <2>1, <2>5, <3>1 DEF GoneSince
    <3>3. applied' > unheard => GoneSince(p, applied)' /\ unheard' = unheard
      BY <1>3, <2>1, <2>5, <3>1 DEF GoneSince
    <3> QED BY <3>1, <3>2, <3>3, <1>3
  <2> QED BY <1>2, <2>1, <2>3, <2>4, <2>5
<1>6. ASSUME NEW r \in wire, Accept(r) PROVE Goal
  <2>1. /\ \E c \in wire' : /\ c.ok = TRUE /\ c.cart = line' /\ c.ticket = r.ticket
                            /\ c.kind = r.kind /\ c.product = r.product
                            /\ wire' = (wire \ {r}) \cup {c}
        /\ applied < r.ticket /\ unheard < r.ticket
        /\ \A s \in wire : s.ok => s.ticket < r.ticket
        /\ UNCHANGED <<cart, applied, unheard>>
    BY <1>1, <1>6, AcceptAnswers
  <2>2. PICK c \in wire' : /\ c.ok = TRUE /\ c.cart = line' /\ c.ticket = r.ticket
                           /\ c.kind = r.kind /\ c.product = r.product
                           /\ wire' = (wire \ {r}) \cup {c}
    BY <2>1
  <2>3. line[p] = None \/ (r.kind \in {"remove", "clear", "order"} /\ r.product \in {p, Whole})
    BY <1>1, <1>6, TakenAway DEF OInv, KindsFit
  <2>4. CASE line[p] = None
    <3>1. \A n : GoneSince(p, n) => GoneSince(p, n)'
      BY <2>2 DEF GoneSince
    <3>2. \A k \in wire : TakesAway(k, p) => k \in wire'
      BY <2>1, <2>2, <1>3 DEF TakesAway
    <3> QED BY <1>2, <2>1, <2>4, <3>1, <3>2
  <2>5. CASE r.kind \in {"remove", "clear", "order"} /\ r.product \in {p, Whole}
    <3>1. TakesAway(c, p) /\ ~(applied' > c.ticket)
      BY <2>1, <2>2, <2>5, <1>3 DEF TakesAway
    <3>2. GoneSince(p, c.ticket)'
      BY <2>1, <2>2, <1>3 DEF GoneSince
    <3> QED BY <3>1, <3>2
  <2> QED BY <2>3, <2>4, <2>5
<1> QED BY <1>1, <1>4, <1>5, <1>6 DEF Drops

-----------------------------------------------------------------------------
(* The newest request of a line. *)

LEMMA NewestStays ==
    ASSUME OInv, NewestStands, Alive' => Alive,
           \A s \in wire' : s \in wire \/ (s.kind \notin {"set", "keepalive"}),
           \A p \in Products : newest'[p] \in {newest[p], 0} /\ line'[p] \in {line[p], None}
    PROVE  NewestStands'
<1> SUFFICES ASSUME Alive', NEW p \in Products, NEW r \in Carriers(p)', r.ticket = newest'[p]
             PROVE  /\ \A s \in Carriers(p)' : s.ticket <= r.ticket
                    /\ r.ok => line'[p] \in {None, r.quantity}
  BY DEF NewestStands
<1>1. \A s \in Carriers(p)' : s \in Carriers(p)
  BY DEF Carriers
<1>2. r.ticket # 0
  BY <1>1 DEF Carriers, OInv, IInv, TypeOK
<1>3. newest[p] = r.ticket /\ Alive
  BY <1>2
<1> QED BY <1>1, <1>3 DEF NewestStands

LEMMA NewestSent ==
    ASSUME OInv, TypeOK', NewestStands, Alive, NEW S \in SUBSET Products, SendersRun(S), UNCHANGED line
    PROVE  NewestStands'
<1> SUFFICES ASSUME NEW p \in Products, NEW r \in Carriers(p)', r.ticket = newest'[p]
             PROVE  /\ \A s \in Carriers(p)' : s.ticket <= r.ticket
                    /\ r.ok => line'[p] \in {None, r.quantity}
  BY DEF NewestStands
<1>1. /\ \A s \in wire' : \/ s \in wire
                          \/ /\ JustLeft(s) /\ s.kind = "set" /\ s.product \in Carrying(S)
                             /\ s.quantity = pending[s.product] /\ s.ticket = newest'[s.product]
      /\ \A q \in Carrying(S) : \E s \in wire' : /\ JustLeft(s) /\ s.kind = "set"
                                                 /\ s.product = q /\ s.quantity = pending[q]
                                                 /\ s.ticket = newest'[q]
      /\ \A q \in Products \ Carrying(S) : newest'[q] = newest[q]
  BY SendersSend DEF OInv, IInv
<1>2. sent \in Nat /\ \A s \in wire : s.ticket \in 1 .. sent
  BY DEF OInv, IInv, TypeOK
<1>3. CASE p \in Carrying(S)
  <2>1. PICK k \in wire' : JustLeft(k) /\ k.ticket = newest'[p]
    BY <1>1, <1>3
  <2>2. r.ticket > sent /\ r.ticket \notin 1 .. sent
    BY <2>1, <1>2 DEF JustLeft
  <2>3. r \notin wire
    BY <1>2, <2>2
  <2>4. r.ok = FALSE
    BY <1>1, <2>3 DEF Carriers, JustLeft
  <2>5. \A s \in Carriers(p)' : s.ticket = r.ticket \/ s \in wire
    BY <1>1 DEF Carriers
  <2>6. r.ticket \in Nat
    BY DEF Carriers, TypeOK
  <2> QED BY <1>2, <2>2, <2>4, <2>5, <2>6
<1>4. CASE p \notin Carrying(S)
  <2>1. \A s \in Carriers(p)' : s \in Carriers(p)
    BY <1>1, <1>4 DEF Carriers
  <2>2. newest'[p] = newest[p]
    BY <1>1, <1>4
  <2> QED BY <2>1, <2>2 DEF NewestStands
<1> QED BY <1>3, <1>4

LEMMA NewestStep ==
    ASSUME OInv, InOrder, NewestStands, [Next]_vars
    PROVE  NewestStands'
<1>1. IInv /\ TypeOK /\ KindsFit /\ TypeOK'
  BY StepIInv DEF OInv, IInv
<1>2. Alive' => Alive
  BY <1>1, StepKinds
<1>3. CASE Heard
  <2>1. PICK r \in wire : \/ SetAnswered(r) \/ CartAnswered(r) \/ OrderAnswered(r)
                          \/ SetFailed(r) \/ CartFailed(r) \/ OrderFailed(r)
    BY <1>3 DEF Heard
  <2>2. \A p \in Products : newest'[p] \in {newest[p], 0}
    BY <2>1, <1>1 DEF SetAnswered, CartAnswered, OrderAnswered, SetFailed, CartFailed, OrderFailed,
       QuantityLanded, TypeOK
  <2>3. line' = line
    BY <2>1 DEF SetAnswered, CartAnswered, OrderAnswered, SetFailed, CartFailed, OrderFailed
  <2>4. \A s \in wire' : s \in wire \/ s.kind = "read"
    BY <2>1 DEF SetAnswered, CartAnswered, OrderAnswered, SetFailed, CartFailed, OrderFailed,
       Landed, Leaving
  <2> QED BY <1>2, <2>2, <2>3, <2>4, NewestStays
<1>4. CASE Served
  <2>1. PICK r \in wire : Accept(r) \/ Refuse(r) \/ KeepaliveGone(r) \/ CancelledWithPage(r)
    BY <1>4 DEF Served
  <2>2. newest' = newest /\ page' = page
    BY <2>1 DEF Accept, Refuse, KeepaliveGone, CancelledWithPage, client
  <2> SUFFICES ASSUME Alive PROVE NewestStands'
    BY <2>2 DEF NewestStands, Alive
  <2>3. CASE Accept(r)
    <3>1. PICK c : /\ c \in wire'
                   /\ c.ok = TRUE /\ c.cart = line' /\ c.ticket = r.ticket
                   /\ c.kind = r.kind /\ c.product = r.product
                   /\ c.quantity = r.quantity /\ c.at = "done"
                   /\ wire' = (wire \ {r}) \cup {c}
      BY <2>3, AcceptAnswers
    <3>2. \A s \in wire : s.ok => s.ticket < r.ticket
      BY <2>3, AcceptAnswers
    <3> SUFFICES ASSUME NEW p \in Products, NEW k \in Carriers(p)', k.ticket = newest[p]
                 PROVE  /\ \A s \in Carriers(p)' : s.ticket <= k.ticket
                        /\ k.ok => line'[p] \in {None, k.quantity}
      BY <2>2 DEF NewestStands
    <3>3. PICK o \in Carriers(p) : o.ticket = k.ticket /\ (o = k \/ (o = r /\ k = c))
      BY <3>1 DEF Carriers
    <3>4. \A s \in Carriers(p)' : \E q \in Carriers(p) : s.ticket = q.ticket
      BY <3>1 DEF Carriers
    <3>5. /\ \A s \in Carriers(p) : s.ticket <= o.ticket
          /\ o.ok => line[p] \in {None, o.quantity}
      BY <3>3 DEF NewestStands
    <3>6. \A s \in Carriers(p)' : s.ticket <= k.ticket
      BY <3>3, <3>4, <3>5
    <3>7. line' = Effect(r) /\ r \in Request /\ line \in Carts
      BY <2>3, <1>1 DEF Accept, TypeOK
    <3>8. CASE k = c /\ o = r
      <4>1. r.kind \in {"set", "keepalive"} /\ r.product = p /\ k.quantity = r.quantity
        BY <3>1, <3>3, <3>8 DEF Carriers
      <4>2. line'[p] = r.quantity
        BY <3>7, <4>1 DEF Effect, Carts
      <4> QED BY <3>6, <4>1, <4>2
    <3>9. CASE k = o /\ k.ok
      <4>1. k.ticket < r.ticket
        BY <3>2, <3>3, <3>9 DEF Carriers
      <4>2. ~(r \in Carriers(p))
        BY <4>1, <3>5, <3>9, TicketsNat DEF Carriers
      <4>3. line'[p] \in {line[p], None}
        BY <3>7, <4>2 DEF Effect, Carts, Carriers, Request, Empty
      <4> QED BY <3>5, <3>6, <3>9, <4>3
    <3> QED BY <3>3, <3>6, <3>8, <3>9
  <2>4. CASE Refuse(r)
    <3>1. PICK c : /\ wire' = (wire \ {r}) \cup {c} /\ c.ticket = r.ticket
                   /\ c.kind = r.kind /\ c.product = r.product /\ c.quantity = r.quantity
                   /\ c.ok = r.ok
      BY <1>1, <2>4, RefusedOnTheWire
    <3>2. line' = line
      BY <2>4 DEF Refuse
    <3> SUFFICES ASSUME NEW p \in Products, NEW k \in Carriers(p)', k.ticket = newest[p]
                 PROVE  /\ \A s \in Carriers(p)' : s.ticket <= k.ticket
                        /\ k.ok => line[p] \in {None, k.quantity}
      BY <2>2, <3>2 DEF NewestStands
    <3>3. \A s \in Carriers(p)' : \E q \in Carriers(p) : /\ s.ticket = q.ticket /\ s.ok = q.ok
                                                         /\ s.quantity = q.quantity
      BY <3>1 DEF Carriers
    <3>4. PICK o \in Carriers(p) : o.ticket = k.ticket /\ o.ok = k.ok /\ o.quantity = k.quantity
      BY <3>3
    <3> QED BY <3>3, <3>4 DEF NewestStands
  <2>5. CASE KeepaliveGone(r) \/ CancelledWithPage(r)
    <3>1. ~Alive
      BY <1>1, <2>5, DroppedDrops DEF Drops
    <3> QED BY <3>1
  <2> QED BY <2>1, <2>3, <2>4, <2>5
<1>5. ASSUME NEW p \in Products, StepQuantity(p) PROVE NewestStands'
  BY <1>2, <1>5, NewestStays DEF StepQuantity
<1>6. ASSUME NEW kind \in {"remove", "clear", "order"}, NEW p \in Products \cup {Whole},
             Call(kind, p), UNCHANGED <<newest, line>>
      PROVE  NewestStands'
  <2>1. \A s \in wire' : s \in wire \/ s.kind = kind
    BY <1>1, <1>6, CallSends
  <2> QED BY <1>2, <1>6, <2>1, NewestStays
<1>7. CASE SettleReturns
  <2>1. UNCHANGED <<newest, line>> /\ (UNCHANGED wire \/ Call("order", Whole))
    BY <1>7 DEF SettleReturns, PlaceOrder
  <2>2. CASE UNCHANGED wire
    BY <1>2, <2>1, <2>2, NewestStays
  <2> QED BY <1>6, <2>1, <2>2
<1>8. CASE PageHide
  BY <1>8 DEF PageHide, NewestStands, Alive
<1>9. CASE Checkout \/ Unmount \/ \E p \in Products : TimerFires(p)
  BY <1>9, <1>1, NewestSent DEF Checkout, Unmount, TimerFires, MountedAnd, Alive, TypeOK
<1>10. CASE UNCHANGED vars
  BY <1>2, <1>10, NewestStays DEF vars, client
<1> QED BY <1>3, <1>4, <1>5, <1>6, <1>7, <1>8, <1>9, <1>10
    DEF Next, Visitor, RemoveLine, HandleClearCart

-----------------------------------------------------------------------------
(* The last click on a line. *)

\* What a step that is not about line p leaves of it, requests in the server's hands included.
Untouched(p) ==
    /\ \A s \in Carriers(p)' : \E o \in Carriers(p) :
           /\ s.kind = o.kind /\ s.quantity = o.quantity /\ s.ticket = o.ticket /\ s.ok = o.ok
           /\ s.at = "sent" => o.at = "sent"
    /\ \A o \in Carriers(p) : \E s \in Carriers(p)' :
           s.kind = o.kind /\ s.quantity = o.quantity /\ s.ticket = o.ticket /\ s.ok = o.ok

\* No request that takes line p away joins those on the wire.
NoRemoval(p) == \A s \in wire' : s.kind \in {"remove", "clear"} /\ s.product \in {p, Whole} =>
                    \E o \in wire : o.kind \in {"remove", "clear"} /\ o.product = s.product

SameLine(p) == /\ line'[p] = line[p] /\ pending'[p] = pending[p] /\ (p \in armed => p \in armed')
               /\ p \notin steppedBack' => p \notin steppedBack

LEMMA UntouchedStays ==
    ASSUME NEW p \in Products, Carried(p), Untouched(p), NoRemoval(p), SameLine(p),
           newest'[p] = newest[p], asked'[p] \in {asked[p], None}
    PROVE  Carried(p)'
<1> SUFFICES ASSUME p \notin steppedBack', asked'[p] # None
             PROVE  UnderWay(p, asked[p])' /\ Unopposed(p, asked[p])'
  BY DEF Carried
<1>0. PICK q : q = asked[p]
  OBVIOUS
<1>1. asked'[p] = q /\ UnderWay(p, q) /\ Unopposed(p, q)
  BY <1>0 DEF Carried, SameLine
<1>2. UnderWay(p, q)'
  BY <1>1 DEF UnderWay, Untouched, SameLine
<1>3. \A s \in wire' : s.kind \in {"remove", "clear"} => s.product \notin {p, Whole}
  BY <1>1 DEF Unopposed, NoRemoval
<1>4. \A r \in Carriers(p)' : r.quantity = q =>
          /\ r.ok => line'[p] = q
          /\ \A s \in Carriers(p)' : r.ticket < s.ticket => s.quantity = q
  BY <1>1 DEF Unopposed, Untouched, SameLine
<1>5. pending'[p] \in {None, q}
  BY <1>1 DEF Unopposed, SameLine
<1> QED BY <1>1, <1>2, <1>3, <1>4, <1>5 DEF Unopposed

\* A request that carries another number leaves the wire, or any but a keepalive once the page is gone.
LEMMA FewerStays ==
    ASSUME OInv, NEW p \in Products, Carried(p), NEW r \in Carriers(p), wire' \subseteq wire,
           \A o \in wire : o # r => o \in wire', SameLine(p),
           newest'[p] = newest[p] \/ newest[p] = r.ticket,
           asked'[p] \in {asked[p], None},
           asked[p] # r.quantity \/ (r.kind # "keepalive" /\ ~Alive)
    PROVE  Carried(p)'
<1> SUFFICES ASSUME p \notin steppedBack', asked'[p] # None
             PROVE  UnderWay(p, asked[p])' /\ Unopposed(p, asked[p])'
  BY DEF Carried
<1>0. PICK q : q = asked[p]
  OBVIOUS
<1>1. asked'[p] = q /\ q # None /\ UnderWay(p, q) /\ Unopposed(p, q)
  BY <1>0 DEF Carried, SameLine
<1>2. ~Alive => pending[p] = None
  BY DEF OInv, IInv, GoneHasNoSteps, Alive, Empty
<1>3. \A o \in Carriers(p) : o.ticket = r.ticket => o = r
  BY TicketsNat DEF Carriers
<1>4. \A o \in Carriers(p) : o # r => o \in Carriers(p)'
  BY DEF Carriers
<1>5. \A o \in Carriers(p)' : o \in Carriers(p)
  BY DEF Carriers
<1>6. q # r.quantity \/ (r.kind # "keepalive" /\ ~Alive)
  BY <1>0
<1>7. UnderWay(p, q)'
  <2>1. CASE pending[p] = q /\ p \in armed
    BY <2>1 DEF UnderWay, SameLine
  <2>2. CASE pending[p] = q /\ \E o \in Carriers(p) : /\ o.kind = "set" /\ o.quantity = q
                                                      /\ o.ticket = newest[p] /\ o.ok = FALSE
    <3>1. PICK o \in Carriers(p) : /\ o.kind = "set" /\ o.quantity = q
                                   /\ o.ticket = newest[p] /\ o.ok = FALSE
      BY <2>2
    <3>2. o # r
      BY <1>1, <1>2, <1>6, <2>2, <3>1
    <3>3. o \in Carriers(p)' /\ newest'[p] = newest[p]
      BY <1>3, <1>4, <3>1, <3>2
    <3> QED BY <2>2, <3>1, <3>3 DEF UnderWay, SameLine
  <2>3. CASE \E o \in Carriers(p) : o.kind = "keepalive" /\ o.quantity = q
    BY <1>4, <1>6, <2>3 DEF UnderWay
  <2>4. CASE line[p] = q /\ \A o \in Carriers(p) : o.at = "sent" => o.quantity = q
    BY <1>5, <2>4 DEF UnderWay, SameLine
  <2> QED BY <1>1, <2>1, <2>2, <2>3, <2>4 DEF UnderWay
<1>8. Unopposed(p, q)'
  BY <1>1, <1>5 DEF Unopposed, SameLine
<1> QED BY <1>1, <1>7, <1>8

LEMMA SendersCarry ==
    ASSUME OInv, TypeOK', NEW S \in SUBSET Products, SendersRun(S),
           UNCHANGED <<pending, line, asked, steppedBack>>, NEW p \in Products, Carried(p)
    PROVE  Carried(p)'
<1> SUFFICES ASSUME p \notin steppedBack, asked[p] # None
             PROVE  UnderWay(p, asked[p])' /\ Unopposed(p, asked[p])'
  BY DEF Carried
<1>0. PICK q : q = asked[p]
  OBVIOUS
<1>1. asked'[p] = q /\ q # None /\ UnderWay(p, q) /\ Unopposed(p, q)
  BY <1>0 DEF Carried
<1>2. /\ wire \subseteq wire' /\ armed' = armed \ S
      /\ \A r \in wire' : \/ r \in wire
                          \/ /\ JustLeft(r) /\ r.kind = "set" /\ r.product \in Carrying(S)
                             /\ r.quantity = pending[r.product] /\ r.ticket = newest'[r.product]
      /\ \A o \in Carrying(S) : \E r \in wire' : /\ JustLeft(r) /\ r.kind = "set"
                                                 /\ r.product = o /\ r.quantity = pending[o]
                                                 /\ r.ticket = newest'[o]
      /\ \A o \in Products \ Carrying(S) : newest'[o] = newest[o]
  BY SendersSend DEF OInv, IInv
<1>3. \A r \in Carriers(p)' :
          \/ r \in Carriers(p)
          \/ /\ JustLeft(r) /\ r.kind = "set" /\ p \in Carrying(S)
             /\ r.quantity = q /\ r.ticket = newest'[p]
  <2>1. p \in Carrying(S) => pending[p] = q
    BY <1>1 DEF Carrying, Unopposed
  <2> QED BY <1>2, <2>1 DEF Carriers
<1>4. Carriers(p) \subseteq Carriers(p)'
  BY <1>2 DEF Carriers
<1>5. \A r \in Carriers(p) : \A s \in wire' : JustLeft(s) => ~(s.ticket < r.ticket)
  BY DEF JustLeft, Carriers, OInv, IInv, TypeOK
<1>6. UnderWay(p, q)'
  <2>1. CASE pending[p] = q /\ p \in Carrying(S)
    <3>1. PICK r \in wire' : /\ JustLeft(r) /\ r.kind = "set" /\ r.product = p
                             /\ r.quantity = pending[p] /\ r.ticket = newest'[p]
      BY <1>2, <2>1
    <3>2. r \in Carriers(p)' /\ r.quantity = q /\ r.ok = FALSE
      BY <3>1, <2>1 DEF Carriers, JustLeft
    <3> QED BY <2>1, <3>1, <3>2 DEF UnderWay
  <2>2. CASE pending[p] = q /\ p \notin Carrying(S)
    <3>1. p \in armed => p \in armed'
      BY <1>1, <1>2, <2>2 DEF Carrying
    <3>2. newest'[p] = newest[p] /\ \A r \in Carriers(p)' : r \in Carriers(p)
      BY <1>2, <1>3, <2>2
    <3> QED BY <1>1, <1>4, <3>1, <3>2 DEF UnderWay
  <2>3. CASE pending[p] # q
    <3>1. p \notin Carrying(S)
      BY <1>1, <2>3 DEF Carrying, Unopposed
    <3>2. \A r \in Carriers(p)' : r \in Carriers(p)
      BY <1>3, <3>1
    <3> QED BY <1>1, <1>4, <2>3, <3>2 DEF UnderWay
  <2> QED BY <2>1, <2>2, <2>3
<1>7. \A s \in wire' : s.kind \in {"remove", "clear"} => s.product \notin {p, Whole}
  BY <1>1, <1>2 DEF Unopposed
<1>8. \A r \in Carriers(p)' : r.quantity = q =>
          /\ r.ok => line'[p] = q
          /\ \A s \in Carriers(p)' : r.ticket < s.ticket => s.quantity = q
  <2> TAKE r \in Carriers(p)'
  <2> HAVE r.quantity = q
  <2>1. CASE r \in Carriers(p)
    BY <1>1, <1>3, <2>1 DEF Unopposed
  <2>2. CASE r \notin Carriers(p)
    <3>1. JustLeft(r) /\ r.ok = FALSE
      BY <1>3, <2>2 DEF JustLeft
    <3>2. \A s \in Carriers(p)' : s \in Carriers(p) => ~(r.ticket < s.ticket)
      BY <1>5, <3>1 DEF Carriers
    <3>3. \A s \in Carriers(p)' : r.ticket < s.ticket => s.quantity = q
      BY <1>3, <3>2
    <3> QED BY <3>1, <3>3
  <2> QED BY <2>1, <2>2
<1>9. pending'[p] \in {None, q}
  BY <1>1 DEF Unopposed
<1> QED BY <1>1, <1>6, <1>7, <1>8, <1>9 DEF Unopposed

LEMMA HideCarries ==
    ASSUME OInv, TypeOK', PageHide, NEW p \in Products, Carried(p)
    PROVE  Carried(p)'
<1> SUFFICES ASSUME p \notin steppedBack, asked[p] # None
             PROVE  UnderWay(p, asked[p])' /\ Unopposed(p, asked[p])'
  BY DEF Carried, PageHide, history
<1>0. PICK q : q = asked[p]
  OBVIOUS
<1>1. asked'[p] = q /\ q # None /\ UnderWay(p, q) /\ Unopposed(p, q) /\ line' = line
  BY <1>0 DEF Carried, PageHide, history
<1>2. /\ wire \subseteq wire'
      /\ \A r \in wire' : \/ r \in wire
                          \/ /\ JustLeft(r) /\ r.kind = "keepalive" /\ r.product \in Products
                             /\ pending[r.product] # None /\ r.quantity = pending[r.product]
      /\ \A o \in Products : pending[o] # None =>
             \E r \in wire' : /\ JustLeft(r) /\ r.kind = "keepalive" /\ r.product = o
                              /\ r.quantity = pending[o]
  BY HideSends DEF OInv, IInv
<1>3. \A r \in Carriers(p)' :
          r \in Carriers(p) \/ (JustLeft(r) /\ r.kind = "keepalive" /\ r.quantity = q)
  BY <1>1, <1>2 DEF Carriers, Unopposed
<1>4. Carriers(p) \subseteq Carriers(p)' /\ \A r \in Carriers(p) : r.kind # "keepalive"
  BY <1>2 DEF Carriers, OInv, KindsFit, PageHide, MountedAnd, Alive
<1>5. \A r \in Carriers(p) : \A s \in wire' : JustLeft(s) => ~(s.ticket < r.ticket)
  BY DEF JustLeft, Carriers, OInv, IInv, TypeOK
<1>6. UnderWay(p, q)'
  <2>1. CASE pending[p] = q
    <3>1. PICK r \in wire' : /\ r.kind = "keepalive" /\ r.product = p /\ r.quantity = pending[p]
      BY <1>1, <1>2, <2>1
    <3>2. r \in Carriers(p)'
      BY <3>1 DEF Carriers
    <3> QED BY <2>1, <3>1, <3>2 DEF UnderWay
  <2>2. CASE pending[p] # q
    BY <1>1, <1>3, <1>4, <2>2 DEF UnderWay
  <2> QED BY <2>1, <2>2
<1>7. \A s \in wire' : s.kind \in {"remove", "clear"} => s.product \notin {p, Whole}
  BY <1>1, <1>2 DEF Unopposed
<1>8. \A r \in Carriers(p)' : r.quantity = q =>
          /\ r.ok => line'[p] = q
          /\ \A s \in Carriers(p)' : r.ticket < s.ticket => s.quantity = q
  <2> TAKE r \in Carriers(p)'
  <2> HAVE r.quantity = q
  <2>1. CASE r \in Carriers(p)
    BY <1>1, <1>3, <2>1 DEF Unopposed
  <2>2. CASE r \notin Carriers(p)
    <3>1. JustLeft(r) /\ r.ok = FALSE
      BY <1>3, <2>2 DEF JustLeft
    <3>2. \A s \in Carriers(p)' : s \in Carriers(p) => ~(r.ticket < s.ticket)
      BY <1>5, <3>1 DEF Carriers
    <3>3. \A s \in Carriers(p)' : r.ticket < s.ticket => s.quantity = q
      BY <1>3, <3>2
    <3> QED BY <3>1, <3>3
  <2> QED BY <2>1, <2>2
<1>9. pending'[p] \in {None, q}
  BY DEF PageHide, Empty
<1> QED BY <1>1, <1>6, <1>7, <1>8, <1>9 DEF Unopposed

\* The click itself: what the page knows of the line is enough for its promise.
LEMMA StepCarries ==
    ASSUME OInv, NewestStands, GoneIsKnown, NEW p \in Products, StepQuantity(p)
    PROVE  Carried(p)'
<1> USE DEF StepQuantity
<1>1. /\ page = "open" /\ placing = "no" /\ cart[p] # None /\ Alive
      /\ UNCHANGED <<wire, line, newest>> /\ p \in armed'
  BY DEF MountedAnd, Alive
<1> SUFFICES ASSUME p \notin steppedBack', asked'[p] # None
             PROVE  UnderWay(p, asked[p])' /\ Unopposed(p, asked[p])'
  BY DEF Carried
<1>2. PICK q : q = asked'[p]
  OBVIOUS
<1>3. pending'[p] = q /\ q # None /\ ~InDoubt(p) /\ ~Overtaken(p, q)
  <2>1. PICK step \in {-1, 1} :
            LET next == steppedQuantity(quantityOf(p), step)
            IN /\ pending' = [pending EXCEPT ![p] = next]
               /\ asked' = [asked EXCEPT ![p] = IF InDoubt(p) THEN None ELSE next]
               /\ steppedBack' = IF Overtaken(p, next) THEN steppedBack \cup {p}
                                                       ELSE steppedBack \ {p}
    OBVIOUS
  <2>2. PICK next : next = steppedQuantity(quantityOf(p), step)
    OBVIOUS
  <2>3. /\ pending' = [pending EXCEPT ![p] = next]
        /\ asked' = [asked EXCEPT ![p] = IF InDoubt(p) THEN None ELSE next]
        /\ steppedBack' = IF Overtaken(p, next) THEN steppedBack \cup {p}
                                                ELSE steppedBack \ {p}
    BY <2>1, <2>2
  <2>4. pending'[p] = next /\ asked'[p] = IF InDoubt(p) THEN None ELSE next
    BY <2>3 DEF OInv, IInv, TypeOK, Carts
  <2> QED BY <1>2, <2>3, <2>4
<1>4. /\ \A r \in wire : r.kind \in {"remove", "clear"} => r.product \notin {p, Whole}
      /\ ~(unheard > applied)
  BY <1>3 DEF InDoubt
<1>5. line[p] # None
  <2> SUFFICES ASSUME line[p] = None PROVE FALSE
    OBVIOUS
  <2>1. \E k \in wire : TakesAway(k, p)
    BY <1>1, <1>4 DEF GoneIsKnown
  <2> QED BY <1>1, <1>4, <2>1 DEF TakesAway, OInv, KindsFit
<1>6. \A r \in Carriers(p) : r.kind = "set"
  BY <1>1 DEF Carriers, OInv, KindsFit
<1>7. \A r \in Carriers(p) : r.quantity = q =>
          /\ r.ok => line[p] = q
          /\ \A s \in Carriers(p) : r.ticket < s.ticket => s.quantity = q
  <2> TAKE r \in Carriers(p)
  <2> HAVE r.quantity = q
  <2>1. r.ticket = newest[p]
    BY <1>3, <1>6 DEF Overtaken, Carriers
  <2>2. /\ \A s \in Carriers(p) : s.ticket <= r.ticket
        /\ r.ok => line[p] \in {None, r.quantity}
    BY <1>1, <2>1 DEF NewestStands
  <2>3. \A s \in Carriers(p) : ~(r.ticket < s.ticket)
    BY <2>2, TicketsNat DEF Carriers
  <2> QED BY <1>5, <2>2, <2>3
<1>8. UnderWay(p, q)'
  BY <1>1, <1>3 DEF UnderWay
<1>9. Unopposed(p, q)'
  BY <1>1, <1>3, <1>4, <1>7 DEF Unopposed, Carriers
<1> QED BY <1>2, <1>8, <1>9

\* The server handles the request that carries the line's number, or an earlier one of the line.
LEMMA AcceptOwnCarries ==
    ASSUME OInv, InOrder, NEW p \in Products, Carried(p), NEW r \in Carriers(p), Accept(r)
    PROVE  Carried(p)'
<1>1. /\ IInv /\ Sequenced /\ r \in wire /\ r \in Request /\ line \in Carts
      /\ r.kind \in {"set", "keepalive"} /\ r.product = p
  BY DEF OInv, IInv, TypeOK, Carriers
<1>2. /\ line' = Effect(r) /\ Turn(r) /\ UNCHANGED <<client, sent, asked, steppedBack, applied, unheard>>
      /\ r.kind = "keepalive" => wire' = wire \ {r}
  BY <1>1 DEF Accept, client
<1>3. line'[p] = r.quantity
  BY <1>1, <1>2 DEF Effect, Carts
<1>4. \/ wire' = wire \ {r}
      \/ \E c : /\ wire' = (wire \ {r}) \cup {c} /\ c.at = "done" /\ c.ticket = r.ticket
                /\ c.kind = r.kind /\ c.product = r.product /\ c.quantity = r.quantity /\ r.kind = "set"
  BY <1>1, <1>2, AcceptedOnTheWire
<1>5. /\ \A s \in wire : s.at = "sent" /\ s # r => r.ticket < s.ticket
      /\ \A s \in wire : s.at = "done" => s.ticket < r.ticket
  BY <1>1, <1>2, <1>4, SequencedHandled
<1> SUFFICES ASSUME p \notin steppedBack, asked[p] # None
             PROVE  UnderWay(p, asked[p])' /\ Unopposed(p, asked[p])'
  BY <1>2 DEF Carried
<1>6. PICK q : q = asked[p]
  OBVIOUS
<1>7. asked'[p] = q /\ q # None /\ UnderWay(p, q) /\ Unopposed(p, q)
  BY <1>2, <1>6 DEF Carried
<1>8. UNCHANGED <<pending, armed, newest>>
  BY <1>2 DEF client
<1>9. \A s \in Carriers(p)' :
          \/ s \in Carriers(p) /\ s # r
          \/ s.at = "done" /\ s.ticket = r.ticket /\ s.quantity = r.quantity
  BY <1>4 DEF Carriers
<1>10. \A s \in Carriers(p) : s # r => s \in Carriers(p)'
  BY <1>4 DEF Carriers
<1>11. \A s \in Carriers(p) : /\ s.at = "sent" /\ s # r => r.ticket < s.ticket
                              /\ s.ok => s.ticket < r.ticket
  BY <1>1, <1>5 DEF Carriers, Sequenced
<1>12. UnderWay(p, q)'
  <2>1. ASSUME r.quantity = q PROVE UnderWay(p, q)'
    <3>1. \A s \in Carriers(p)' : s.at = "sent" => s.quantity = q
      BY <1>7, <1>9, <1>11, <2>1 DEF Unopposed
    <3> QED BY <1>3, <2>1, <3>1 DEF UnderWay
  <2>2. ASSUME r.quantity # q PROVE UnderWay(p, q)'
    <3>1. CASE pending[p] = q /\ p \in armed
      BY <1>8, <3>1 DEF UnderWay
    <3>2. CASE pending[p] = q /\ \E o \in Carriers(p) : /\ o.kind = "set" /\ o.quantity = q
                                                        /\ o.ticket = newest[p] /\ o.ok = FALSE
      BY <1>8, <1>10, <2>2, <3>2 DEF UnderWay
    <3>3. CASE \E o \in Carriers(p) : o.kind = "keepalive" /\ o.quantity = q
      BY <1>10, <2>2, <3>3 DEF UnderWay
    <3>4. CASE line[p] = q /\ \A o \in Carriers(p) : o.at = "sent" => o.quantity = q
      BY <1>2, <2>2, <3>4 DEF Turn
    <3> QED BY <1>7, <3>1, <3>2, <3>3, <3>4 DEF UnderWay
  <2> QED BY <2>1, <2>2
<1>13. \A k \in Carriers(p)' : k.quantity = q =>
           /\ k.ok => line'[p] = q
           /\ \A s \in Carriers(p)' : k.ticket < s.ticket => s.quantity = q
  <2> TAKE k \in Carriers(p)'
  <2> HAVE k.quantity = q
  <2>1. CASE k \in Carriers(p) /\ k # r
    <3>1. k.ok => r.quantity = q
      BY <1>7, <1>11, <2>1 DEF Unopposed
    <3> QED BY <1>3, <1>7, <1>9, <2>1, <3>1 DEF Unopposed
  <2>2. CASE k.ticket = r.ticket /\ k.quantity = r.quantity
    <3>1. \A s \in Carriers(p) : r.ticket < s.ticket => s.quantity = q
      BY <1>7, <2>2 DEF Unopposed
    <3>2. ~(r.ticket < r.ticket)
      BY <1>1 DEF Request
    <3> QED BY <1>3, <1>9, <2>2, <3>1, <3>2
  <2> QED BY <1>9, <2>1, <2>2
<1>14. \A s \in wire' : s.kind \in {"remove", "clear"} => s.product \notin {p, Whole}
  BY <1>1, <1>4, <1>7 DEF Unopposed
<1>15. pending'[p] \in {None, q}
  BY <1>7, <1>8 DEF Unopposed
<1> QED BY <1>7, <1>12, <1>13, <1>14, <1>15 DEF Unopposed

\* ... or a request about something else.
LEMMA AcceptOtherCarries ==
    ASSUME OInv, NEW p \in Products, Carried(p), NEW r \in wire, r \notin Carriers(p), Accept(r)
    PROVE  Carried(p)'
<1>1. /\ IInv /\ r \in Request /\ line \in Carts /\ KindsFit
      /\ line' = Effect(r) /\ UNCHANGED <<pending, armed, newest, steppedBack>>
  BY DEF OInv, IInv, TypeOK, Accept, client
<1>2. CASE r.kind = "order"
  <2>1. asked'[p] = None
    BY <1>2 DEF Accept, Unasked
  <2> QED BY <2>1 DEF Carried
<1>3. CASE r.kind # "order"
  <2>1. asked' = asked
    BY <1>3 DEF Accept
  <2> SUFFICES ASSUME p \notin steppedBack, asked[p] # None PROVE Carried(p)'
    BY <1>1, <2>1 DEF Carried
  <2>2. ~(r.kind \in {"remove", "clear"} /\ r.product \in {p, Whole})
    BY DEF Carried, Unopposed
  <2>3. \/ wire' = wire \ {r}
        \/ \E c : wire' = (wire \ {r}) \cup {c} /\ c.kind = r.kind /\ c.product = r.product
    <3>1. CASE r.kind = "keepalive"
      BY <3>1 DEF Accept
    <3>2. CASE r.kind # "keepalive"
      BY <1>1, <3>2, AcceptedOnTheWire
    <3> QED BY <3>1, <3>2
  <2>4. Carriers(p)' = Carriers(p) /\ NoRemoval(p)
    BY <2>3 DEF Carriers, NoRemoval
  <2>5. Untouched(p)
    BY <2>4 DEF Untouched
  <2>6. line'[p] = line[p]
    BY <1>1, <1>3, <2>2 DEF Effect, Carts, Carriers, Request, KindsFit
  <2>7. SameLine(p)
    BY <1>1, <2>6 DEF SameLine
  <2> QED BY <1>1, <2>1, <2>4, <2>5, <2>7, UntouchedStays
<1> QED BY <1>2, <1>3

LEMMA RefuseCarries ==
    ASSUME OInv, NEW p \in Products, Carried(p), NEW r \in wire, Refuse(r)
    PROVE  Carried(p)'
<1>1. PICK c : /\ wire' = (wire \ {r}) \cup {c} /\ c.at = "done" /\ c.ticket = r.ticket
               /\ c.kind = r.kind /\ c.product = r.product /\ c.quantity = r.quantity
               /\ c.ok = r.ok
  BY RefusedOnTheWire DEF OInv
<1>2. UNCHANGED <<pending, armed, newest, steppedBack, asked, line>>
  BY DEF Refuse, client, history
<1>3. Untouched(p) /\ NoRemoval(p)
  BY <1>1 DEF Untouched, NoRemoval, Carriers
<1>4. SameLine(p)
  BY <1>2 DEF SameLine
<1> QED BY <1>2, <1>3, <1>4, UntouchedStays

LEMMA GoneCarries ==
    ASSUME OInv, NEW p \in Products, Carried(p), NEW r \in wire, KeepaliveGone(r) \/ CancelledWithPage(r)
    PROVE  Carried(p)'
<1>1. /\ wire' = wire \ {r} /\ UNCHANGED <<pending, armed, newest, steppedBack, line>>
      /\ KeepaliveGone(r) => AskedNoMore(r)
      /\ CancelledWithPage(r) => UNCHANGED asked /\ r.kind # "keepalive" /\ ~Alive
  BY DEF KeepaliveGone, CancelledWithPage, client, history
<1>2. SameLine(p) /\ NoRemoval(p)
  BY <1>1 DEF SameLine, NoRemoval
<1>3. asked'[p] \in {asked[p], None}
  BY <1>1 DEF AskedNoMore
<1>4. CASE r \notin Carriers(p)
  <2>1. Carriers(p)' = Carriers(p)
    BY <1>1, <1>4 DEF Carriers
  <2>2. Untouched(p)
    BY <2>1 DEF Untouched
  <2> QED BY <1>1, <1>2, <1>3, <2>2, UntouchedStays
<1>5. CASE r \in Carriers(p) /\ asked[p] = r.quantity /\ KeepaliveGone(r)
  <2>1. asked'[p] = None
    BY <1>1, <1>5 DEF AskedNoMore, Carriers
  <2> QED BY <2>1 DEF Carried
<1>6. CASE r \in Carriers(p) /\ ~(asked[p] = r.quantity /\ KeepaliveGone(r))
  <2>1. asked[p] # r.quantity \/ (r.kind # "keepalive" /\ ~Alive)
    BY <1>1, <1>6
  <2>2. wire' \subseteq wire /\ \A o \in wire : o # r => o \in wire'
    BY <1>1
  <2> QED BY <1>1, <1>2, <1>3, <1>6, <2>1, <2>2, FewerStays
<1> QED BY <1>4, <1>5, <1>6

\* The answer or the failure of a line's own request.
LEMMA SetHeardCarries ==
    ASSUME OInv, NEW p \in Products, Carried(p), NEW r \in wire, SetAnswered(r) \/ SetFailed(r)
    PROVE  Carried(p)'
<1>1. /\ TypeOK /\ Sequenced /\ KindsFit /\ r.kind = "set" /\ r.product \in Products
      /\ r.quantity # None /\ wire' = wire \ {r} /\ QuantityLanded(r)
      /\ UNCHANGED <<armed, line, steppedBack>>
      /\ SetAnswered(r) => UNCHANGED asked /\ r.ok /\ r.at = "done"
      /\ SetFailed(r) => AskedNoMore(r)
  BY DEF OInv, IInv, KindsFit, SetAnswered, SetFailed, Landed, AnswerOf, history
<1>2. /\ pending'[p] = pending[p] \/ (p = r.product /\ pending[p] = r.quantity /\ pending'[p] = None)
      /\ newest'[p] = newest[p] \/ (p = r.product /\ newest[p] = r.ticket)
      /\ p = r.product /\ pending[p] = r.quantity => pending'[p] = None
  BY <1>1 DEF QuantityLanded, ForgetIfCarried, TypeOK, Carts
<1>3. NoRemoval(p) /\ asked'[p] \in {asked[p], None}
  BY <1>1 DEF NoRemoval, AskedNoMore
<1> SUFFICES ASSUME p \notin steppedBack, asked[p] # None, asked'[p] # None PROVE Carried(p)'
  BY <1>1, <1>3 DEF Carried
<1>4. UnderWay(p, asked[p]) /\ Unopposed(p, asked[p]) /\ asked'[p] = asked[p]
  BY <1>3 DEF Carried
<1>5. CASE p # r.product
  <2>1. Carriers(p)' = Carriers(p)
    BY <1>1, <1>5 DEF Carriers
  <2>2. Untouched(p) /\ SameLine(p) /\ newest'[p] = newest[p]
    BY <2>1, <1>1, <1>2, <1>5 DEF Untouched, SameLine
  <2> QED BY <2>2, <1>3, UntouchedStays
<1>6. CASE p = r.product /\ r.quantity # asked[p]
  <2>1. pending[p] # r.quantity
    BY <1>1, <1>4, <1>6 DEF Unopposed
  <2>2. SameLine(p)
    BY <1>1, <1>2, <2>1 DEF SameLine
  <2>3. r \in Carriers(p)
    BY <1>1, <1>6 DEF Carriers
  <2>4. wire' \subseteq wire /\ \A o \in wire : o # r => o \in wire'
    BY <1>1
  <2> QED BY <1>2, <1>3, <1>6, <2>2, <2>3, <2>4, FewerStays
<1>7. CASE p = r.product /\ r.quantity = asked[p]
  <2>1. SetAnswered(r)
    BY <1>1, <1>4, <1>7 DEF AskedNoMore
  <2>2. PICK q : q = asked[p]
    OBVIOUS
  <2>3. r \in Carriers(p) /\ r.quantity = q /\ r.ok /\ r.at = "done" /\ line' = line
    BY <1>1, <1>7, <2>1, <2>2 DEF Carriers
  <2>4. line[p] = q /\ \A s \in Carriers(p) : r.ticket < s.ticket => s.quantity = q
    BY <1>4, <2>2, <2>3 DEF Unopposed
  <2>5. pending'[p] = None
    BY <1>2, <1>4, <1>7 DEF Unopposed
  <2>6. \A s \in Carriers(p)' : s \in Carriers(p)
    BY <1>1 DEF Carriers
  <2>7. \A s \in Carriers(p) : s.at = "sent" => r.ticket < s.ticket
    BY <1>1, <2>3 DEF Sequenced, Carriers
  <2>8. UnderWay(p, q)'
    BY <2>3, <2>4, <2>6, <2>7 DEF UnderWay
  <2>9. Unopposed(p, q)'
    BY <1>1, <1>4, <2>2, <2>3, <2>5, <2>6 DEF Unopposed
  <2> QED BY <1>4, <2>2, <2>8, <2>9 DEF Carried
<1> QED BY <1>5, <1>6, <1>7

\* Anything else that is heard: no request of a line, and an order only after every step has landed.
LEMMA OtherHeardCarries ==
    ASSUME OInv, NEW p \in Products, Carried(p), NEW r \in wire,
           CartAnswered(r) \/ CartFailed(r) \/ OrderAnswered(r) \/ OrderFailed(r)
    PROVE  Carried(p)'
<1>1. /\ r.kind \notin {"set", "keepalive"} /\ UNCHANGED <<newest, line, steppedBack, asked>>
      /\ \/ UNCHANGED <<pending, armed>>
         \/ r.kind = "order" /\ Forget(Products)
  BY DEF CartAnswered, CartFailed, OrderAnswered, OrderFailed, history
<1>2. \A s \in wire' : (s \in wire /\ s # r) \/ s.kind = "read"
  BY DEF CartAnswered, CartFailed, OrderAnswered, OrderFailed, Landed, Leaving
<1>3. wire \ {r} \subseteq wire'
  BY DEF CartAnswered, CartFailed, OrderAnswered, OrderFailed, Landed
<1>4. Carriers(p)' = Carriers(p) /\ NoRemoval(p)
  BY <1>1, <1>2, <1>3 DEF Carriers, NoRemoval
<1>5. Untouched(p)
  BY <1>4 DEF Untouched
<1>6. r.kind = "order" => pending[p] = None /\ armed = {}
  BY DEF OInv, KindsFit, IInv, OrderAfterItsSteps, PlacingArmsNothing
<1>7. SameLine(p)
  BY <1>1, <1>6 DEF SameLine, Forget
<1> QED BY <1>1, <1>4, <1>5, <1>7, UntouchedStays

LEMMA ClicksStep ==
    ASSUME OInv, InOrder, NewestStands, GoneIsKnown, ClicksCarried, [Next]_vars
    PROVE  ClicksCarried'
<1> SUFFICES ASSUME NEW p \in Products PROVE Carried(p)'
  BY DEF ClicksCarried
<1>1. Carried(p) /\ TypeOK /\ TypeOK'
  BY StepIInv DEF ClicksCarried, OInv, IInv
<1>2. ASSUME Carriers(p)' = Carriers(p), NoRemoval(p), SameLine(p),
             newest'[p] = newest[p], asked'[p] \in {asked[p], None}
      PROVE  Carried(p)'
  BY <1>1, <1>2, UntouchedStays DEF Untouched
<1>3. CASE Heard
  BY <1>1, <1>3, SetHeardCarries, OtherHeardCarries DEF Heard
<1>4. CASE Served
  BY <1>1, <1>4, AcceptOwnCarries, AcceptOtherCarries, RefuseCarries, GoneCarries DEF Served, Carriers
<1>5. ASSUME NEW o \in Products, StepQuantity(o) PROVE Carried(p)'
  <2>1. CASE o = p
    BY <1>5, <2>1, StepCarries
  <2>2. CASE o # p
    <3>1. /\ pending'[p] = pending[p] /\ asked'[p] = asked[p]
          /\ p \notin steppedBack' => p \notin steppedBack
          /\ armed \subseteq armed' /\ UNCHANGED <<wire, line, newest>>
      BY <1>1, <1>5, <2>2 DEF StepQuantity, TypeOK, Carts
    <3>2. Carriers(p)' = Carriers(p) /\ NoRemoval(p) /\ SameLine(p)
      BY <3>1 DEF Carriers, NoRemoval, SameLine
    <3> QED BY <3>1, <3>2, <1>2
  <2> QED BY <2>1, <2>2
<1>6. ASSUME NEW o \in Products, RemoveLine(o) PROVE Carried(p)'
  <2>1. CASE o = p
    <3>1. asked'[p] = None
      BY <1>6, <2>1 DEF RemoveLine, Unasked
    <3> QED BY <3>1 DEF Carried
  <2>2. CASE o # p
    <3>1. /\ pending'[p] = pending[p] /\ asked'[p] = asked[p] /\ (p \in armed => p \in armed')
          /\ UNCHANGED <<steppedBack, line, newest>>
      BY <1>6, <2>2 DEF RemoveLine, Forget, Unasked
    <3>2. wire \subseteq wire' /\ \A s \in wire' : s \in wire \/ (s.kind = "remove" /\ s.product = o)
      BY <1>1, <1>6, CallSends DEF RemoveLine
    <3>3. Carriers(p)' = Carriers(p) /\ NoRemoval(p) /\ SameLine(p)
      BY <3>1, <3>2, <2>2, ProductsFinite DEF Carriers, NoRemoval, SameLine
    <3> QED BY <3>1, <3>3, <1>2
  <2> QED BY <2>1, <2>2
<1>7. ASSUME HandleClearCart PROVE Carried(p)'
  <2>1. asked'[p] = None
    BY <1>7 DEF HandleClearCart, Unasked
  <2> QED BY <2>1 DEF Carried
<1>8. CASE Checkout \/ Unmount \/ \E o \in Products : TimerFires(o)
  BY <1>1, <1>8, SendersCarry DEF Checkout, Unmount, TimerFires, TypeOK, history
<1>9. CASE PageHide
  BY <1>1, <1>9, HideCarries
<1>10. CASE SettleReturns
  <2>1. /\ UNCHANGED <<pending, armed, newest, line, asked, steppedBack>>
        /\ UNCHANGED wire \/ Call("order", Whole)
    BY <1>10 DEF SettleReturns, PlaceOrder, history
  <2>2. wire \subseteq wire' /\ \A s \in wire' : s \in wire \/ s.kind = "order"
    BY <1>1, <2>1, CallSends
  <2>3. Carriers(p)' = Carriers(p) /\ NoRemoval(p) /\ SameLine(p)
    BY <2>1, <2>2 DEF Carriers, NoRemoval, SameLine
  <2> QED BY <2>1, <2>3, <1>2
<1>11. CASE UNCHANGED vars
  BY <1>2, <1>11 DEF vars, client, history, Carriers, NoRemoval, SameLine
<1> QED BY <1>3, <1>4, <1>5, <1>6, <1>7, <1>8, <1>9, <1>10, <1>11 DEF Next, Visitor

-----------------------------------------------------------------------------
(* The theorems about a server that keeps the order. *)

CartInv == OInv /\ ScreenFollows /\ GoneIsKnown /\ NewestStands /\ ClicksCarried

LEMMA InitCartInv == Init => CartInv
<1> SUFFICES ASSUME Init PROVE CartInv
  OBVIOUS
<1>1. IInv
  BY InitIInv
<1>2. wire = {} /\ cart = line /\ \A p \in Products : asked[p] = None /\ line[p] # None
  BY QuantityNat DEF Init, Empty, None
<1>3. Sequenced /\ KindsFit
  BY <1>2 DEF Init, Sequenced, KindsFit
<1> QED BY <1>1, <1>2, <1>3
    DEF CartInv, OInv, ScreenFollows, GoneIsKnown, NewestStands, Carriers, ClicksCarried, Carried

LEMMA StepCartInv == ASSUME CartInv, InOrder, [Next]_vars PROVE CartInv'
  BY StepOInv, ScreenStep, GoneStep, NewestStep, ClicksStep DEF CartInv

LEMMA CartInductive == ASSUME InOrder PROVE Spec => []CartInv
<1>1. Init => CartInv
  BY InitCartInv
<1>2. CartInv /\ [Next]_vars => CartInv'
  BY StepCartInv
<1> QED BY <1>1, <1>2, PTL DEF Spec

\* The debounce loses no click (use-line-quantity.ts): once all is quiet, the server has the number
\* each line was left at, whatever the page did meanwhile, with a server that keeps the order.
THEOREM LastClickLandsAlways == ASSUME InOrder PROVE Spec => []LastClickLands
<1>1. CartInv => LastClickLands
  <2> SUFFICES ASSUME CartInv, Quiet, NEW p \in Products \ steppedBack, asked[p] # None
               PROVE  line[p] = asked[p]
    BY DEF LastClickLands
  <2>1. UnderWay(p, asked[p])
    BY DEF CartInv, ClicksCarried, Carried
  <2>2. pending[p] = None /\ Carriers(p) = {}
    BY DEF Quiet, Empty, Carriers
  <2> QED BY <2>1, <2>2 DEF UnderWay
<1> QED BY <1>1, CartInductive, PTL

\* The answers may come back in any order, and the page ends at the server's cart (store.ts,
\* takeCartSlot), with a server that keeps the order.
THEOREM ScreenMatchesServerAlways == ASSUME InOrder PROVE Spec => []ScreenMatchesServer
<1>1. CartInv => ScreenMatchesServer
  <2> SUFFICES ASSUME CartInv, Quiet, page = "open", unheard <= applied PROVE cart = line
    BY DEF ScreenMatchesServer
  <2>1. wire = {} /\ Alive /\ ~(unheard > applied)
    BY TicketsNat DEF Quiet, Alive, CartInv
  <2> QED BY <2>1 DEF CartInv, ScreenFollows
<1> QED BY <1>1, CartInductive, PTL
=============================================================================
