--------------------------- MODULE PaymentsProofs ---------------------------
(***************************************************************************)
(* What Payments guarantees for any number of orders, presses and pages:   *)
(* its values keep their kinds; an attempt whose outcome the page never    *)
(* learned keeps its key, and no refund is made by a press that had not    *)
(* seen all the earlier ones, outside the named mix-ups.                   *)
(***************************************************************************)
EXTENDS Payments, TLAPS

Acts(c) == c.here /\ c.kind \in Ops \cup {"intent"}

(* One press at a time is waited for, and the key of its operation is the one it carries. *)
OneAtATime ==
    /\ \A c, d \in wire : Acts(c) /\ Acts(d) => c = d
    /\ \A c \in wire : c.here /\ c.kind \in Ops => c.key # 0 /\ key[c.kind][c.order] = c.key

(* No key is ahead of the mint, and no press is answered by a reading. *)
Keyed == \A c \in wire : c.key <= minted /\ (c.kind \in Ops => c.status # "read")

IInv == TypeOK /\ Keyed /\ OneAtATime /\ LostAttemptKeepsKeyElse

-----------------------------------------------------------------------------
(* Calls *)

LEMMA CallingIsACall ==
    ASSUME TypeOK, NEW kind \in Kinds, NEW o \in Orders, NEW k \in Nat, NEW at \in Nat, NEW d,
           d = Calling(kind, o, k, at)
    PROVE  d \in Call /\ d.kind = kind /\ d.order = o /\ d.key = k /\ d.here = TRUE /\ d.status = "sent"
<1>1. payment.refunded \in Nat
  BY DEF TypeOK, Payment
<1>2. "sent" \in Statuses /\ FALSE \in BOOLEAN /\ TRUE \in BOOLEAN
  BY DEF Statuses
<1> QED BY <1>1, <1>2 DEF Calling, Call

LEMMA OrphansAreCalls ==
    ASSUME NEW calls, calls \subseteq Call
    PROVE  \A d \in Orphans(calls) :
              /\ d \in Call /\ d.here = FALSE
              /\ \E c \in calls : d.key = c.key /\ d.kind = c.kind /\ d.status = c.status
<1>1. ASSUME NEW c \in Call, NEW d, d = [c EXCEPT !.here = FALSE]
      PROVE  d \in Call /\ d.here = FALSE /\ d.key = c.key /\ d.kind = c.kind /\ d.status = c.status
  BY <1>1 DEF Call
<1> QED BY <1>1 DEF Orphans

(* e is waited for by nobody's press. *)
Idle(e) == e \in Call /\ e.key <= minted /\ (e.kind \in Ops => e.status # "read") /\ ~Acts(e)

(* e is the call c, further on. *)
Further(e, c) == /\ e \in Call /\ e.kind = c.kind /\ e.order = c.order /\ e.key = c.key
                 /\ e.here = c.here /\ (e.kind \in Ops => e.status # "read")

(* The wire after a call went further, or ended, beside calls nobody's press waits for. *)
WireMoves(c) == \E e : /\ Further(e, c)
                       /\ \A d \in wire' : d \in wire \ {c} \/ d = e \/ Idle(d)

LEMMA MovedWire ==
    ASSUME IInv, NEW c \in wire, WireMoves(c), UNCHANGED keys
    PROVE  wire' \subseteq Call /\ Keyed' /\ OneAtATime'
<1>1. PICK e : Further(e, c) /\ \A d \in wire' : d \in wire \ {c} \/ d = e \/ Idle(d)
  BY DEF WireMoves
<1>2. wire \subseteq Call /\ key' = key /\ minted' = minted
  BY DEF IInv, TypeOK, keys
<1>3. wire' \subseteq Call
  BY <1>1, <1>2 DEF Further, Idle
<1>4. Keyed'
  BY <1>1, <1>2 DEF IInv, Keyed, Further, Idle
<1>5. \A d \in wire' : Acts(d) => \/ d \in wire \ {c}
                                  \/ d = e /\ Acts(c)
  BY <1>1 DEF Further, Idle, Acts
<1>6. \A d, f \in wire' : Acts(d) /\ Acts(f) => d = f
  BY <1>5 DEF IInv, OneAtATime
<1>7. \A d \in wire' : d.here /\ d.kind \in Ops => d.key # 0 /\ key[d.kind][d.order] = d.key
  BY <1>1 DEF IInv, OneAtATime, Further, Idle, Acts
<1>8. \A d : Acts(d)' = Acts(d)
  BY DEF Acts
<1> QED BY <1>2, <1>3, <1>4, <1>6, <1>7 DEF OneAtATime, Acts

(* The press is over: whatever key it leaves, no call is held to it. *)
LEMMA PressOver ==
    ASSUME IInv, NEW c \in wire, Acts(c), UNCHANGED minted, \A d \in wire' : d \in wire \ {c} \/ Idle(d)
    PROVE  wire' \subseteq Call /\ Keyed' /\ OneAtATime'
<1>1. wire \subseteq Call /\ minted' = minted
  BY DEF IInv, TypeOK
<1>2. \A d \in wire' : ~Acts(d)
  BY DEF IInv, OneAtATime, Idle
<1>3. wire' \subseteq Call
  BY <1>1 DEF Idle
<1>4. Keyed'
  BY <1>1 DEF IInv, Keyed, Idle
<1> QED BY <1>2, <1>3, <1>4 DEF OneAtATime, Acts

LEMMA FollowedByIdle ==
    ASSUME TypeOK, NEW c \in wire, NEW kinds \in SUBSET {"totals", "again"}, FollowedBy(c, kinds)
    PROVE  \A d \in wire' : d \in wire \ {c} \/ Idle(d)
<1> SUFFICES ASSUME NEW kind \in kinds PROVE Idle([Calling(kind, c.order, 0, c.at) EXCEPT !.saw = c.saw])
  BY DEF FollowedBy
<1>1. c \in Call /\ c.order \in Orders /\ c.at \in Nat /\ c.saw \in Nat /\ minted \in Nat
  BY DEF TypeOK, Call
<1> DEFINE d == Calling(kind, c.order, 0, c.at)
           e == [d EXCEPT !.saw = c.saw]
<1>2. d \in Call /\ d.kind = kind /\ d.key = 0
  <2>1. kind \in Kinds
    BY DEF Kinds
  <2>2. payment.refunded \in Nat /\ "sent" \in Statuses
    BY DEF TypeOK, Payment, Statuses
  <2> QED BY <1>1, <2>1, <2>2 DEF Calling, Call
<1> HIDE DEF d
<1>3. e \in Call /\ e.kind = kind /\ e.key = 0
  BY <1>1, <1>2 DEF Call
<1> HIDE DEF e
<1>4. Idle(e)
  BY <1>1, <1>3 DEF Idle, Acts, Ops
<1> QED BY <1>4 DEF d, e

-----------------------------------------------------------------------------
(* Types of the rest *)

KeysOK == key \in [Ops -> [Orders -> 0 .. minted]] /\ minted \in Nat
          /\ undecided \in [Ops -> [Orders -> 0 .. minted]]
ServerOK == refunded \in [Orders -> Nat] /\ record \subseteq Outcome /\ blind \subseteq Orders
            /\ seen \in [Orders -> Nat]
ScreenOK == page \in Orders \cup {None} /\ payment \in Payment
            /\ presses \in 0 .. MaxPresses /\ turns \in 0 .. MaxTurns

LEMMA TypesTogether ==
    /\ TypeOK => KeysOK /\ ServerOK /\ ScreenOK /\ wire \subseteq Call /\ tangled \subseteq Mixups
    /\ KeysOK' /\ ServerOK' /\ ScreenOK' /\ wire' \subseteq Call /\ tangled' \subseteq Mixups => TypeOK'
BY DEF TypeOK, KeysOK, ServerOK, ScreenOK

LEMMA NoKeysAreKeys == \A n \in Nat : NoKeys \in [Ops -> [Orders -> 0 .. n]]
BY DEF NoKeys

(* A new mint takes the older keys along. *)
LEMMA MoreKeys ==
    ASSUME NEW n \in Nat, NEW f \in [Ops -> [Orders -> 0 .. n]]
    PROVE  f \in [Ops -> [Orders -> 0 .. n + 1]]
<1>1. \A op \in Ops, o \in Orders : f[op][o] \in 0 .. n + 1
  BY SMT
<1>2. \A op \in Ops : f[op] \in [Orders -> 0 .. n + 1]
  BY <1>1
<1> QED BY <1>2

LEMMA KeysMinted ==
    ASSUME KeysOK, NEW op \in Ops, NEW o \in Orders, WithKey(op, o), UNCHANGED undecided
    PROVE  /\ KeysOK' /\ minted' \in {minted, minted + 1}
           /\ key'[op][o] # 0 /\ key'[op][o] \in Nat /\ key'[op][o] <= minted'
           /\ key' = key \/ (key[op][o] = 0 /\ key' = [key EXCEPT ![op][o] = minted + 1])
<1>1. minted \in Nat /\ key[op][o] \in 0 .. minted /\ key[op] \in [Orders -> 0 .. minted]
  BY DEF KeysOK
<1>2. CASE key[op][o] # 0 /\ UNCHANGED keys
  BY <1>1, <1>2 DEF KeysOK, keys
<1>3. CASE key[op][o] = 0 /\ minted' = minted + 1 /\ key' = [key EXCEPT ![op][o] = minted + 1]
  <2>1. /\ key \in [Ops -> [Orders -> 0 .. minted + 1]] /\ undecided \in [Ops -> [Orders -> 0 .. minted + 1]]
        /\ minted + 1 \in 0 .. minted + 1
    BY <1>1, MoreKeys DEF KeysOK
  <2>2. key' \in [Ops -> [Orders -> 0 .. minted + 1]]
    BY <1>3, <2>1
  <2>3. key'[op][o] = minted + 1
    BY <1>3, <2>1
  <2> QED BY <1>1, <1>3, <2>1, <2>2, <2>3 DEF KeysOK
<1> QED BY <1>1, <1>2, <1>3 DEF WithKey

(* A key that ends is a key. *)
LEMMA KeysSettled ==
    ASSUME KeysOK, NEW op \in Ops, NEW o \in Orders, NEW verdict, Settle(op, o, verdict), UNCHANGED minted
    PROVE  /\ key' \in [Ops -> [Orders -> 0 .. minted']]
           /\ Keeps(verdict) => key' = key
           /\ \A p \in Ops, q \in Orders : <<p, q>> # <<op, o>> => key'[p][q] = key[p][q]
<1>1. 0 \in 0 .. minted
  BY DEF KeysOK
<1>2. key' = key \/ key' = [key EXCEPT ![op][o] = 0]
  BY DEF Settle
<1>3. \A p \in Ops, q \in Orders : <<p, q>> # <<op, o>> => [key EXCEPT ![op][o] = 0][p][q] = key[p][q]
  BY DEF KeysOK
<1>4. [key EXCEPT ![op][o] = 0] \in [Ops -> [Orders -> 0 .. minted]]
  BY <1>1 DEF KeysOK
<1> QED BY <1>2, <1>3, <1>4 DEF Settle, KeysOK

LEMMA LostStays ==
    ASSUME LostAttemptKeepsKeyElse, UNCHANGED <<key, undecided>>, tangled \subseteq tangled'
    PROVE  LostAttemptKeepsKeyElse'
BY DEF LostAttemptKeepsKeyElse, LostAttemptKeepsKey

(* Nothing but the wire, the server and the screen moved. *)
LEMMA Unkeyed ==
    ASSUME IInv, NEW c \in wire, WireMoves(c), UNCHANGED <<keys, undecided>>,
           tangled \subseteq tangled', tangled' \subseteq Mixups, ServerOK', ScreenOK'
    PROVE  IInv'
<1>1. wire' \subseteq Call /\ Keyed' /\ OneAtATime'
  BY MovedWire
<1>2. KeysOK'
  BY TypesTogether DEF IInv, KeysOK, keys
<1>3. LostAttemptKeepsKeyElse'
  BY LostStays DEF IInv, keys
<1> QED BY <1>1, <1>2, <1>3, TypesTogether DEF IInv

-----------------------------------------------------------------------------
(* The server, the network and the prompt *)

LEMMA AnswerMoves ==
    ASSUME IInv, NEW c \in wire, NEW status \in Statuses, Answer(c, status),
           refunded' \in [Orders -> Nat], c.kind \in Ops => status # "read"
    PROVE  WireMoves(c)
<1> DEFINE told == [c EXCEPT !.status = status, !.refunded = refunded'[c.order]]
<1>1. c \in Call /\ c.order \in Orders
  BY DEF IInv, TypeOK, Call
<1>2. refunded'[c.order] \in Nat
  BY <1>1
<1>3. told \in Call /\ told.kind = c.kind /\ told.order = c.order /\ told.key = c.key
      /\ told.here = c.here /\ told.status = status
  BY <1>1, <1>2 DEF Call
<1>4. wire' \subseteq (wire \ {c}) \cup {told}
  BY DEF Answer
<1> HIDE DEF told
<1>5. Further(told, c)
  BY <1>3 DEF Further
<1> QED BY <1>4, <1>5 DEF WireMoves

LEMMA ServerStep ==
    ASSUME IInv, NEW c \in wire,
           \/ \E answer \in {"done", "fault"} : Executes(c, answer)
           \/ \E answer \in {"refused", "fault"} : Refuses(c, answer)
           \/ \E status \in Statuses : Meets(c, status)
    PROVE  IInv'
<1>1. /\ KeysOK /\ ServerOK /\ ScreenOK /\ tangled \subseteq Mixups /\ c \in Call
      /\ c.order \in Orders /\ c.key \in Nat
  BY TypesTogether DEF IInv, Call
<1>2. UNCHANGED <<keys, undecided, tangled>> /\ UNCHANGED <<page, payment, presses, turns>>
  BY DEF Executes, Refuses, Meets, screen, budget, past
<1>3. ScreenOK'
  BY <1>1, <1>2 DEF ScreenOK
<1>4. ASSUME NEW answer \in Outcomes, c.kind \in Ops, Records(c, answer)
      PROVE  record' \subseteq Outcome
  BY <1>1, <1>4 DEF Records, Outcome, ServerOK
<1>5. Outcomes \subseteq Statuses /\ "read" \notin Outcomes
  BY DEF Outcomes, Statuses
<1>6. ASSUME NEW answer \in {"done", "fault"}, Executes(c, answer) PROVE IInv'
  <2>1. answer \in Outcomes /\ c.kind \in Ops /\ Records(c, answer) /\ Answer(c, answer)
    BY <1>6 DEF Executes, Due, Outcomes
  <2>2. refunded' \in [Orders -> Nat] /\ blind' \subseteq Orders /\ seen' = seen
    BY <1>1, <1>6 DEF Executes, ServerOK
  <2>3. ServerOK'
    BY <1>1, <1>4, <2>1, <2>2 DEF ServerOK
  <2>4. WireMoves(c)
    BY <1>5, <2>1, <2>2, AnswerMoves
  <2> QED BY <1>1, <1>2, <1>3, <2>3, <2>4, Unkeyed
<1>7. ASSUME NEW answer \in {"refused", "fault"}, Refuses(c, answer) PROVE IInv'
  <2>1. answer \in Outcomes /\ c.kind \in Ops /\ Records(c, answer) /\ Answer(c, answer)
        /\ refunded' = refunded /\ blind' = blind /\ seen' = seen
    BY <1>7 DEF Refuses, Due, Outcomes, past
  <2>2. ServerOK'
    BY <1>1, <1>4, <2>1 DEF ServerOK
  <2>3. WireMoves(c)
    BY <1>1, <1>5, <2>1, AnswerMoves DEF ServerOK
  <2> QED BY <1>1, <1>2, <1>3, <2>2, <2>3, Unkeyed
<1>8. ASSUME NEW status \in Statuses, Meets(c, status) PROVE IInv'
  <2>1. Answer(c, status) /\ UNCHANGED <<refunded, record, blind, seen>>
    BY <1>8 DEF Meets, past
  <2>2. c.kind \in Ops => status # "read"
    <3>1. \A r \in record : r.answer # "read"
      BY <1>1, <1>5 DEF ServerOK, Outcome
    <3> QED BY <1>8, <3>1 DEF Meets, Handled, Ops
  <2>3. ServerOK'
    BY <1>1, <2>1 DEF ServerOK
  <2>4. WireMoves(c)
    BY <1>1, <2>1, <2>2, AnswerMoves DEF ServerOK
  <2> QED BY <1>1, <1>2, <1>3, <2>3, <2>4, Unkeyed
<1> QED BY <1>6, <1>7, <1>8

LEMMA NetworkStep ==
    ASSUME IInv, NEW c \in wire, Loses(c) \/ Proves(c) \/ Dismisses(c)
    PROVE  IInv'
<1>1. /\ ServerOK /\ ScreenOK /\ tangled \subseteq Mixups /\ c \in Call /\ {c} \subseteq Call
      /\ c.key <= minted /\ (c.kind \in Ops => c.status # "read")
  BY TypesTogether DEF IInv, Keyed
<1>2. UNCHANGED <<screen, keys, server, budget, past, tangled>>
  BY DEF Loses, Proves, Dismisses
<1>3. ServerOK' /\ ScreenOK'
  BY <1>1, <1>2 DEF ServerOK, ScreenOK, screen, server, budget, past
<1>4. ASSUME NEW status \in {"lost", "sent", "turnedAway"}, NEW proved \in BOOLEAN, NEW e,
             e = [c EXCEPT !.status = status, !.proved = proved],
             \A d \in wire' : d \in wire \ {c} \/ d = e \/ Idle(d)
      PROVE  IInv'
  <2>1. e \in Call /\ e.kind = c.kind /\ e.order = c.order /\ e.key = c.key /\ e.here = c.here
        /\ e.status = status
    BY <1>1, <1>4 DEF Call, Statuses
  <2>2. Further(e, c)
    BY <2>1 DEF Further
  <2>3. WireMoves(c)
    BY <1>4, <2>2 DEF WireMoves
  <2> QED BY <1>1, <1>2, <1>3, <2>3, Unkeyed DEF past
<1>5. c.proved \in BOOLEAN /\ \A s : [c EXCEPT !.status = s] = [c EXCEPT !.status = s, !.proved = c.proved]
  BY <1>1 DEF Call
<1>6. CASE Loses(c)
  <2>1. \A d \in Orphans({c}) : Idle(d)
    <3> SUFFICES ASSUME NEW d \in Orphans({c}) PROVE Idle(d)
      OBVIOUS
    <3>1. d = [c EXCEPT !.here = FALSE]
      BY DEF Orphans
    <3>2. d \in Call /\ d.here = FALSE /\ d.key = c.key /\ d.kind = c.kind /\ d.status = c.status
      BY <1>1, <3>1 DEF Call
    <3> QED BY <1>1, <3>2 DEF Idle, Acts
  <2>2. wire' = (wire \ {c}) \cup {[c EXCEPT !.status = "lost"]} \cup Orphans({c})
    BY <1>6 DEF Loses
  <2>3. \A d \in wire' : d \in wire \ {c} \/ d = [c EXCEPT !.status = "lost", !.proved = c.proved] \/ Idle(d)
    BY <1>5, <2>1, <2>2
  <2> QED BY <1>4, <1>5, <2>3
<1>7. CASE Proves(c)
  BY <1>4, <1>7 DEF Proves
<1>8. CASE Dismisses(c)
  <2>1. wire' = (wire \ {c}) \cup {[c EXCEPT !.status = "turnedAway", !.proved = c.proved]}
    BY <1>5, <1>8 DEF Dismisses
  <2> QED BY <1>4, <1>5, <2>1
<1> QED BY <1>6, <1>7, <1>8

-----------------------------------------------------------------------------
(* The pages and the presses *)

(* A read of the page. *)
LEMMA ShowIsIdle ==
    ASSUME TypeOK, NEW o \in Orders, turns + 1 \in Nat
    PROVE  Idle(Calling("show", o, 0, turns + 1))
<1> DEFINE d == Calling("show", o, 0, turns + 1)
<1>1. d \in Call /\ d.kind = "show" /\ d.key = 0
  <2>1. payment.refunded \in Nat /\ "sent" \in Statuses /\ "show" \in Kinds
    BY DEF TypeOK, Payment, Statuses, Kinds
  <2> QED BY <2>1 DEF Calling, Call
<1>2. 0 <= minted
  BY DEF TypeOK
<1> HIDE DEF d
<1>3. Idle(d)
  BY <1>1, <1>2 DEF Idle, Acts, Ops
<1> QED BY <1>3 DEF d

LEMMA OpenStep ==
    ASSUME IInv, NEW o \in Orders, Open(o)
    PROVE  IInv'
<1>1. /\ TypeOK /\ KeysOK /\ ServerOK /\ ScreenOK /\ tangled \subseteq Mixups /\ wire \subseteq Call
  BY TypesTogether DEF IInv
<1>2. /\ UNCHANGED <<payment, keys, server, presses, past, tangled>>
      /\ turns < MaxTurns /\ turns' = turns + 1 /\ page' = o
      /\ wire' = wire \cup {Calling("show", o, 0, turns + 1)}
  BY DEF Open
<1>3. turns + 1 \in Nat /\ turns + 1 \in 0 .. MaxTurns
  BY <1>1, <1>2, BoundsNat DEF ScreenOK
<1>4. Idle(Calling("show", o, 0, turns + 1))
  BY <1>1, <1>3, ShowIsIdle
<1>5. \A d \in wire' : d \in wire \/ Idle(d)
  BY <1>2, <1>4
<1>6. wire' \subseteq Call /\ Keyed' /\ OneAtATime'
  BY <1>1, <1>2, <1>5 DEF IInv, Keyed, OneAtATime, Idle, Acts, keys
<1>7. KeysOK' /\ ServerOK' /\ ScreenOK'
  BY <1>1, <1>2, <1>3 DEF KeysOK, ServerOK, ScreenOK, keys, server, past
<1>8. LostAttemptKeepsKeyElse'
  BY <1>2, LostStays DEF IInv, keys, past
<1> QED BY <1>1, <1>2, <1>6, <1>7, <1>8, TypesTogether DEF IInv

LEMMA ReloadStep ==
    ASSUME IInv, Reload
    PROVE  IInv'
<1>1. /\ TypeOK /\ KeysOK /\ ServerOK /\ ScreenOK /\ tangled \subseteq Mixups /\ wire \subseteq Call
  BY TypesTogether DEF IInv
<1>2. /\ turns < MaxTurns /\ turns' = turns + 1 /\ page # None
      /\ payment' = NoPayment /\ key' = NoKeys /\ undecided' = NoKeys /\ seen' = NoRefunds
      /\ wire' = Orphans(wire) \cup {Calling("show", page, 0, turns + 1)}
      /\ tangled' = tangled \cup {"reloaded"}
      /\ UNCHANGED <<page, minted, server, presses, blind>>
  BY DEF Reload
<1>3. turns + 1 \in Nat /\ turns + 1 \in 0 .. MaxTurns /\ page \in Orders
  BY <1>1, <1>2, BoundsNat DEF ScreenOK
<1>4. Idle(Calling("show", page, 0, turns + 1))
  BY <1>1, <1>3, ShowIsIdle
<1>5. \A d \in Orphans(wire) : Idle(d)
  <2> SUFFICES ASSUME NEW d \in Orphans(wire) PROVE Idle(d)
    OBVIOUS
  <2>1. d \in Call /\ d.here = FALSE /\ \E c \in wire : d.key = c.key /\ d.kind = c.kind /\ d.status = c.status
    BY <1>1, OrphansAreCalls
  <2>2. d.key <= minted /\ (d.kind \in Ops => d.status # "read")
    BY <2>1 DEF IInv, Keyed
  <2> QED BY <2>1, <2>2 DEF Idle, Acts
<1>6. \A d \in wire' : Idle(d)
  BY <1>2, <1>4, <1>5
<1>7. wire' \subseteq Call /\ Keyed' /\ OneAtATime'
  BY <1>2, <1>6 DEF Keyed, OneAtATime, Idle, Acts
<1>8. KeysOK' /\ ServerOK' /\ ScreenOK'
  <2>1. NoPayment \in Payment
    BY DEF NoPayment, Payment
  <2>2. NoRefunds \in [Orders -> Nat]
    BY DEF NoRefunds
  <2> QED BY <1>1, <1>2, <1>3, <2>1, <2>2, NoKeysAreKeys DEF KeysOK, ServerOK, ScreenOK, server
<1>9. LostAttemptKeepsKeyElse'
  BY <1>2 DEF LostAttemptKeepsKeyElse, LostAttemptKeepsKey, NoKeys
<1>10. tangled' \subseteq Mixups
  BY <1>1, <1>2 DEF Mixups
<1> QED BY <1>7, <1>8, <1>9, <1>10, TypesTogether DEF IInv

(* A press when nothing is waited for: its call is the only one, and carries its key. *)
LEMMA PressStep ==
    ASSUME IInv, PressRefund \/ PressPay
    PROVE  IInv'
<1>1. /\ TypeOK /\ KeysOK /\ ServerOK /\ ScreenOK /\ tangled \subseteq Mixups /\ wire \subseteq Call
      /\ minted \in Nat
  BY TypesTogether DEF IInv, KeysOK
<1>2. /\ UNCHANGED <<screen, server, turns, past, tangled>> /\ page # None
      /\ presses < MaxPresses /\ presses' = presses + 1 /\ \A c \in wire : ~c.here
  BY DEF PressRefund, PressPay, Live, Pressed
<1>3. ServerOK' /\ ScreenOK'
  <2>1. presses + 1 \in 0 .. MaxPresses
    BY <1>1, <1>2, BoundsNat DEF ScreenOK
  <2> QED BY <1>1, <1>2, <2>1 DEF ServerOK, ScreenOK, screen, server, past
<1>4. /\ payment.refunded \in Nat /\ "sent" \in Statuses /\ {"refund", "intent"} \subseteq Kinds
      /\ turns \in Nat
  BY <1>1, BoundsNat DEF ScreenOK, Payment, Statuses, Kinds, Ops
<1>5. ASSUME NEW d \in Call, wire' = wire \cup {d}, minted <= minted', minted' \in Nat, d.key <= minted',
             d.status = "sent", d.kind \in Ops => d.key # 0 /\ key'[d.kind][d.order] = d.key
      PROVE  wire' \subseteq Call /\ Keyed' /\ OneAtATime'
  <2>1. \A c \in wire : c.key \in Nat /\ c.key <= minted
    BY <1>1 DEF IInv, Keyed, Call
  <2>2. \A c \in wire : c.key <= minted'
    BY <1>1, <1>5, <2>1
  <2>3. Keyed'
    BY <1>5, <2>2 DEF IInv, Keyed
  <2>4. OneAtATime'
    BY <1>2, <1>5 DEF OneAtATime, Acts
  <2> QED BY <1>1, <1>5, <2>3, <2>4
<1>6. CASE PressPay
  <2> DEFINE d == Calling("intent", page, 0, turns)
  <2>1. page \in Orders
    BY <1>1, <1>2 DEF ScreenOK
  <2>2. d \in Call /\ d.kind = "intent" /\ d.key = 0 /\ d.status = "sent"
    BY <1>4, <2>1 DEF Calling, Call
  <2>3. wire' = wire \cup {d} /\ UNCHANGED keys
    BY <1>6 DEF PressPay
  <2> HIDE DEF d
  <2>4. wire' \subseteq Call /\ Keyed' /\ OneAtATime'
    BY <1>1, <1>5, <2>2, <2>3 DEF keys, Ops
  <2>5. KeysOK'
    BY <1>1, <1>2, <2>3 DEF KeysOK, keys, past
  <2>6. LostAttemptKeepsKeyElse'
    BY <1>2, <2>3, LostStays DEF IInv, keys, past
  <2> QED BY <1>1, <1>2, <1>3, <2>4, <2>5, <2>6, TypesTogether DEF IInv
<1>7. CASE PressRefund
  <2> DEFINE o == payment.order
             d == Calling("refund", o, key'["refund"][o], turns)
  <2>1. o \in Orders /\ "refund" \in Ops
    BY <1>1, <1>7 DEF ScreenOK, PressRefund, Payment, Ops
  <2>2. WithKey("refund", o) /\ wire' = wire \cup {d} /\ UNCHANGED undecided
    BY <1>2, <1>7 DEF PressRefund, past
  <2> HIDE DEF o
  <2>3. /\ KeysOK' /\ minted' \in {minted, minted + 1}
        /\ key'["refund"][o] # 0 /\ key'["refund"][o] \in Nat /\ key'["refund"][o] <= minted'
        /\ key' = key \/ (key["refund"][o] = 0 /\ key' = [key EXCEPT !["refund"][o] = minted + 1])
    BY <1>1, <2>1, <2>2, KeysMinted
  <2>4. d \in Call /\ d.kind = "refund" /\ d.order = o /\ d.key = key'["refund"][o] /\ d.status = "sent"
    BY <1>4, <2>1, <2>3 DEF Calling, Call
  <2> HIDE DEF d
  <2>5. wire' \subseteq Call /\ Keyed' /\ OneAtATime'
    BY <1>1, <1>5, <2>2, <2>3, <2>4
  <2>6. LostAttemptKeepsKeyElse'
    <3>1. CASE key' = key
      BY <1>2, <2>2, <3>1, LostStays DEF IInv
    <3>2. CASE key["refund"][o] = 0 /\ key' = [key EXCEPT !["refund"][o] = minted + 1]
      <4>1. \A op \in Ops, q \in Orders : <<op, q>> # <<"refund", o>> => key'[op][q] = key[op][q]
        BY <1>1, <2>1, <3>2 DEF KeysOK
      <4> QED BY <1>2, <2>1, <2>2, <3>2, <4>1 DEF IInv, LostAttemptKeepsKeyElse, LostAttemptKeepsKey
    <3> QED BY <2>3, <3>1, <3>2
  <2> QED BY <1>1, <1>2, <1>3, <2>3, <2>5, <2>6, TypesTogether DEF IInv
<1> QED BY <1>6, <1>7

-----------------------------------------------------------------------------
(* Answers *)

(* What is shown, and the most that was: never less than it was. *)
LEMMA ShownPayment ==
    ASSUME NEW c \in Call, Shows(c), seen \in [Orders -> Nat]
    PROVE  /\ payment' \in Payment /\ payment'.order = c.order /\ payment'.refunded = c.refunded
           /\ seen' \in [Orders -> Nat]
           /\ \A o \in Orders : seen[o] <= seen'[o]
           /\ c.refunded <= seen'[c.order]
           /\ tangled \subseteq tangled' /\ tangled' \subseteq tangled \cup {"outrun"}
           /\ c.refunded < seen[c.order] => "outrun" \in tangled'
<1>1. c.order \in Orders /\ c.refunded \in Nat /\ \A o \in Orders : seen[o] \in Nat
  BY DEF Call
<1>2. payment' = [order |-> c.order, refunded |-> c.refunded]
  BY DEF Shows
<1>3. payment' \in Payment /\ payment'.order = c.order /\ payment'.refunded = c.refunded
  BY <1>1, <1>2 DEF Payment
<1>4. seen' = [seen EXCEPT ![c.order] = IF @ < c.refunded THEN c.refunded ELSE @]
  BY DEF Shows
<1>5. \A o \in Orders : seen'[o] \in Nat /\ seen[o] <= seen'[o]
  BY <1>1, <1>4
<1>6. c.refunded <= seen'[c.order] /\ seen' \in [Orders -> Nat]
  BY <1>1, <1>4
<1> QED BY <1>3, <1>5, <1>6 DEF Shows

LEMMA ReadStep ==
    ASSUME IInv, NEW c \in wire, ReadLands(c) \/ ReadFails(c)
    PROVE  IInv'
<1>1. /\ TypeOK /\ ServerOK /\ ScreenOK /\ tangled \subseteq Mixups /\ c \in Call
  BY TypesTogether DEF IInv
<1>2. PICK kinds \in SUBSET {"totals", "again"} : FollowedBy(c, kinds)
  BY DEF ReadLands, ReadFails
<1>3. /\ UNCHANGED <<page, keys, server, budget, undecided, blind>>
      /\ \/ Shows(c)
         \/ UNCHANGED <<payment, seen>> /\ tangled \subseteq tangled' /\ tangled' \subseteq tangled \cup {"unread"}
      /\ c.kind \in {"show", "totals", "again"}
  BY DEF ReadLands, ReadFails, screen, past, Lands
<1>4. WireMoves(c)
  <2>1. Further(c, c)
    BY <1>1, <1>3 DEF Further, Ops
  <2>2. \A d \in wire' : d \in wire \ {c} \/ Idle(d)
    BY <1>1, <1>2, FollowedByIdle
  <2> QED BY <2>1, <2>2 DEF WireMoves
<1>5. ServerOK' /\ ScreenOK' /\ tangled \subseteq tangled' /\ tangled' \subseteq Mixups
  <2>1. /\ payment' \in Payment /\ seen' \in [Orders -> Nat]
        /\ tangled \subseteq tangled' /\ tangled' \subseteq tangled \cup {"outrun", "unread"}
    BY <1>1, <1>3, ShownPayment DEF ScreenOK, ServerOK
  <2> QED BY <1>1, <1>3, <2>1 DEF ServerOK, ScreenOK, Mixups, server, budget
<1> QED BY <1>3, <1>4, <1>5, Unkeyed

LEMMA RereadsAgain == \A verdict : \A kinds \in Rereads(verdict) : kinds \in SUBSET {"totals", "again"}
BY DEF Rereads

LEMMA IntentStep ==
    ASSUME IInv, NEW c \in wire, IntentLands(c)
    PROVE  IInv'
<1>1. /\ TypeOK /\ KeysOK /\ ServerOK /\ ScreenOK /\ tangled \subseteq Mixups /\ wire \subseteq Call
      /\ c \in Call /\ c.order \in Orders /\ c.at \in Nat /\ c.saw \in Nat
  BY TypesTogether DEF IInv, Call
<1>2. UNCHANGED <<screen, server, budget, past>> /\ c.here /\ c.kind = "intent" /\ Acts(c)
  BY DEF IntentLands, Lands, Acts
<1>3. ServerOK' /\ ScreenOK'
  BY <1>1, <1>2 DEF ServerOK, ScreenOK, screen, server, budget, past
<1>4. \A d \in wire \ {c} : ~Acts(d)
  BY <1>2 DEF IInv, OneAtATime
<1>5. "confirm" \in Ops /\ "confirm" \in Kinds
  BY DEF Ops, Kinds
<1>6. CASE c.status = "read"
  <2> DEFINE d == Calling("confirm", c.order, key'["confirm"][c.order], c.at)
             e == [d EXCEPT !.saw = c.saw]
  <2>1. WithKey("confirm", c.order) /\ wire' = (wire \ {c}) \cup {e} /\ UNCHANGED <<tangled, undecided>>
    BY <1>2, <1>6 DEF IntentLands, past
  <2>2. /\ KeysOK' /\ minted' \in {minted, minted + 1}
        /\ key'["confirm"][c.order] # 0 /\ key'["confirm"][c.order] \in Nat /\ key'["confirm"][c.order] <= minted'
        /\ key' = key \/ (key["confirm"][c.order] = 0 /\ key' = [key EXCEPT !["confirm"][c.order] = minted + 1])
    BY <1>1, <1>5, <2>1, KeysMinted
  <2>3. d \in Call /\ d.kind = "confirm" /\ d.order = c.order /\ d.key = key'["confirm"][c.order]
        /\ d.status = "sent"
    <3>1. payment.refunded \in Nat /\ "sent" \in Statuses
      BY <1>1 DEF ScreenOK, Payment, Statuses
    <3> QED BY <1>1, <1>5, <2>2, <3>1 DEF Calling, Call
  <2> HIDE DEF d
  <2>4. e \in Call /\ e.kind = "confirm" /\ e.order = c.order /\ e.key = key'["confirm"][c.order]
        /\ e.status = "sent"
    BY <1>1, <2>3 DEF Call
  <2> HIDE DEF e
  <2>5. wire' \subseteq Call
    BY <1>1, <2>1, <2>4
  <2>6. Keyed'
    <3>1. \A b \in wire : b.key \in Nat /\ b.key <= minted /\ minted \in Nat
      BY <1>1 DEF IInv, Keyed, Call, KeysOK
    <3>2. \A b \in wire : b.key <= minted'
      BY <2>2, <3>1
    <3> QED BY <2>1, <2>2, <2>4, <3>2 DEF IInv, Keyed
  <2>7. OneAtATime'
    BY <1>4, <2>1, <2>2, <2>4 DEF OneAtATime, Acts
  <2>8. LostAttemptKeepsKeyElse'
    <3>1. CASE key' = key
      BY <2>1, <3>1, LostStays DEF IInv
    <3>2. CASE key["confirm"][c.order] = 0 /\ key' = [key EXCEPT !["confirm"][c.order] = minted + 1]
      <4>1. \A op \in Ops, q \in Orders : <<op, q>> # <<"confirm", c.order>> => key'[op][q] = key[op][q]
        BY <1>1, <1>5, <3>2 DEF KeysOK
      <4> QED BY <1>1, <1>5, <2>1, <3>2, <4>1 DEF IInv, LostAttemptKeepsKeyElse, LostAttemptKeepsKey
    <3> QED BY <2>2, <3>1, <3>2
  <2> QED BY <1>1, <1>3, <2>1, <2>2, <2>5, <2>6, <2>7, <2>8, TypesTogether DEF IInv
<1>7. CASE c.status # "read"
  <2>1. /\ Settle("confirm", c.order, c.status) /\ UNCHANGED <<minted, undecided>>
        /\ tangled' = IF undecided["confirm"][c.order] # 0 /\ ~Keeps(c.status)
                      THEN tangled \cup {"intent"} ELSE tangled
    BY <1>2, <1>7 DEF IntentLands, past
  <2>2. \A d \in wire' : d \in wire \ {c} \/ Idle(d)
    <3>1. PICK kinds \in Rereads(c.status) : FollowedBy(c, kinds)
      BY <1>7 DEF IntentLands
    <3> QED BY <1>1, <3>1, RereadsAgain, FollowedByIdle
  <2>3. wire' \subseteq Call /\ Keyed' /\ OneAtATime'
    BY <1>2, <2>1, <2>2, PressOver
  <2>4. /\ key' \in [Ops -> [Orders -> 0 .. minted']]
        /\ Keeps(c.status) => key' = key
        /\ \A p \in Ops, q \in Orders : <<p, q>> # <<"confirm", c.order>> => key'[p][q] = key[p][q]
    BY <1>1, <1>5, <2>1, KeysSettled
  <2>5. KeysOK'
    BY <1>1, <2>1, <2>4 DEF KeysOK
  <2>6. LostAttemptKeepsKeyElse'
    BY <2>1, <2>4 DEF IInv, LostAttemptKeepsKeyElse, LostAttemptKeepsKey
  <2>7. tangled' \subseteq Mixups
    BY <1>1, <2>1 DEF Mixups
  <2> QED BY <1>3, <2>3, <2>5, <2>6, <2>7, TypesTogether DEF IInv
<1> QED BY <1>6, <1>7

(* A press that comes back: what the server did decide ends the key with the doubt, and what it *)
(* may not have decided keeps both, unless a mix-up is named.                                   *)
LEMMA PressReturns ==
    ASSUME IInv, NEW c \in wire, Succeeds(c) \/ Fails(c)
    PROVE  IInv'
<1>1. /\ TypeOK /\ KeysOK /\ ServerOK /\ ScreenOK /\ tangled \subseteq Mixups /\ wire \subseteq Call
      /\ c \in Call /\ c.order \in Orders
  BY TypesTogether DEF IInv, Call
<1>2. /\ UNCHANGED <<page, minted, server, budget, blind>> /\ c.here /\ c.kind \in Ops /\ Acts(c)
      /\ c.status \notin {"sent", "parked"} /\ Decides(c)
  BY DEF Succeeds, Fails, Lands, Acts, screen
<1>3. PICK verdict : /\ Settle(c.kind, c.order, verdict)
                     /\ \/ Succeeds(c) /\ verdict = c.status
                        \/ Fails(c) /\ verdict = Verdict(c)
  BY DEF Succeeds, Fails
<1>4. c.key # 0 /\ key[c.kind][c.order] = c.key /\ c.status # "read" /\ c.key <= minted /\ c.key \in Nat
  BY <1>1, <1>2 DEF IInv, OneAtATime, Keyed, Call
<1>5. payment' \in Payment /\ seen' \in [Orders -> Nat]
  BY <1>1, ShownPayment DEF Succeeds, Fails, screen, ScreenOK, ServerOK
<1>6. ServerOK' /\ ScreenOK'
  BY <1>1, <1>2, <1>5 DEF ServerOK, ScreenOK, server, budget
<1>7. \A d \in wire' : d \in wire \ {c} \/ Idle(d)
  <2>1. PICK kinds \in SUBSET {"totals", "again"} : FollowedBy(c, kinds)
    BY RereadsAgain DEF Succeeds, Fails
  <2> QED BY <1>1, <2>1, FollowedByIdle
<1>8. wire' \subseteq Call /\ Keyed' /\ OneAtATime'
  BY <1>2, <1>7, PressOver
<1>9. /\ key' \in [Ops -> [Orders -> 0 .. minted']]
      /\ Keeps(verdict) => key' = key
      /\ ~Keeps(verdict) => key' = [key EXCEPT ![c.kind][c.order] = 0]
      /\ \A p \in Ops, q \in Orders : <<p, q>> # <<c.kind, c.order>> => key'[p][q] = key[p][q]
  BY <1>1, <1>2, <1>3, KeysSettled DEF Settle
<1>10. \/ c.status = "lost" /\ undecided' = [undecided EXCEPT ![c.kind][c.order] = c.key]
       \/ c.status \in Outcomes /\ undecided' = [undecided EXCEPT ![c.kind][c.order] = 0]
       \/ c.status \in {"inFlight", "turnedAway"} /\ undecided' = undecided
  <2>1. c.status \in Statuses
    BY <1>1 DEF Call
  <2> QED BY <1>2, <1>4, <2>1 DEF Decides, Statuses, Outcomes
<1>11. KeysOK'
  <2>1. 0 \in 0 .. minted /\ c.key \in 0 .. minted
    BY <1>1, <1>4 DEF KeysOK
  <2>2. \A k \in 0 .. minted :
            [undecided EXCEPT ![c.kind][c.order] = k] \in [Ops -> [Orders -> 0 .. minted]]
    <3>1. undecided \in [Ops -> [Orders -> 0 .. minted]] /\ c.kind \in Ops /\ c.order \in Orders
      BY <1>1, <1>2 DEF KeysOK
    <3> QED BY <3>1
  <2>3. undecided' \in [Ops -> [Orders -> 0 .. minted]]
    <3>1. undecided \in [Ops -> [Orders -> 0 .. minted]]
      BY <1>1 DEF KeysOK
    <3> QED BY <1>10, <2>1, <2>2, <3>1
  <2> QED BY <1>1, <1>2, <1>9, <2>3 DEF KeysOK
<1>12. tangled \subseteq tangled' /\ tangled' \subseteq Mixups
  BY <1>1, ShownPayment DEF Succeeds, Fails, Mixups, ServerOK
<1>13. LostAttemptKeepsKeyElse'
  <2> SUFFICES ASSUME tangled' \cap {"masked", "turnedAway", "intent"} = {},
                      NEW p \in Ops, NEW q \in Orders, undecided'[p][q] # 0
               PROVE  key'[p][q] = undecided'[p][q]
    BY DEF LostAttemptKeepsKeyElse, LostAttemptKeepsKey
  <2>1. undecided[p][q] # 0 => key[p][q] = undecided[p][q]
    BY <1>12 DEF IInv, LostAttemptKeepsKeyElse, LostAttemptKeepsKey
  <2>2. CASE <<p, q>> # <<c.kind, c.order>>
    <3>1. undecided'[p][q] = undecided[p][q]
      BY <1>1, <1>10, <2>2 DEF KeysOK
    <3> QED BY <1>9, <2>1, <2>2, <3>1
  <2>3. CASE p = c.kind /\ q = c.order
    <3>1. CASE c.status = "lost"
      <4>1. ~c.proved /\ Fails(c) /\ verdict = "lost"
        BY <1>3, <3>1 DEF Succeeds, Fails, Verdict
      <4>2. key' = key
        BY <1>9, <4>1 DEF Keeps
      <4>3. undecided'[p][q] = c.key
        BY <1>1, <1>2, <1>10, <2>3, <3>1 DEF KeysOK, Outcomes
      <4> QED BY <1>4, <2>3, <4>2, <4>3
    <3>2. CASE c.status \in Outcomes
      <4>1. undecided'[p][q] = 0
        BY <1>1, <1>2, <1>10, <2>3, <3>2 DEF KeysOK, Outcomes
      <4> QED BY <4>1
    <3>3. CASE c.status = "inFlight"
      <4>1. ~c.proved /\ Fails(c) /\ verdict = "inFlight"
        BY <1>3, <3>3 DEF Succeeds, Fails, Verdict
      <4>2. key' = key /\ undecided' = undecided
        BY <1>9, <1>10, <3>3, <4>1 DEF Keeps, Outcomes
      <4> QED BY <2>1, <4>2
    <3>4. CASE c.status = "turnedAway"
      <4>1. Fails(c) /\ undecided' = undecided
        BY <1>3, <1>10, <3>4 DEF Succeeds, Outcomes
      <4>2. undecided[p][q] = 0
        BY <2>3, <3>4, <4>1 DEF Fails
      <4> QED BY <4>1, <4>2
    <3> QED BY <1>10, <3>1, <3>2, <3>3, <3>4
  <2> QED BY <2>2, <2>3
<1> QED BY <1>6, <1>8, <1>11, <1>12, <1>13, TypesTogether DEF IInv

-----------------------------------------------------------------------------
(* The invariant *)

LEMMA InitIInv == Init => IInv
<1> SUFFICES ASSUME Init PROVE IInv
  OBVIOUS
<1>1. TypeOK
  <2>1. KeysOK
    BY NoKeysAreKeys DEF Init, KeysOK
  <2>2. ScreenOK
    <3>1. 0 \in 0 .. MaxPresses /\ 0 \in 0 .. MaxTurns
      BY BoundsNat
    <3> QED BY <3>1 DEF Init, ScreenOK, NoPayment, Payment
  <2>3. NoRefunds \in [Orders -> Nat]
    BY DEF NoRefunds
  <2> QED BY <2>1, <2>2, <2>3 DEF Init, TypeOK, KeysOK, ScreenOK
<1>2. Keyed /\ OneAtATime
  BY DEF Init, Keyed, OneAtATime
<1>3. LostAttemptKeepsKeyElse
  BY DEF Init, LostAttemptKeepsKeyElse, LostAttemptKeepsKey, NoKeys
<1> QED BY <1>1, <1>2, <1>3 DEF IInv

LEMMA StepIInv == IInv /\ [Next]_vars => IInv'
<1> SUFFICES ASSUME IInv, [Next]_vars PROVE IInv'
  OBVIOUS
<1>1. ASSUME NEW o \in Orders, Open(o) PROVE IInv'
  BY <1>1, OpenStep
<1>2. CASE Reload
  BY <1>2, ReloadStep
<1>3. CASE PressRefund \/ PressPay
  BY <1>3, PressStep
<1>4. ASSUME NEW c \in wire,
             \/ \E answer \in {"done", "fault"} : Executes(c, answer)
             \/ \E answer \in {"refused", "fault"} : Refuses(c, answer)
             \/ \E status \in Statuses : Meets(c, status)
      PROVE  IInv'
  BY <1>4, ServerStep
<1>5. ASSUME NEW c \in wire, Loses(c) \/ Proves(c) \/ Dismisses(c) PROVE IInv'
  BY <1>5, NetworkStep
<1>6. ASSUME NEW c \in wire, ReadLands(c) \/ ReadFails(c) PROVE IInv'
  BY <1>6, ReadStep
<1>7. ASSUME NEW c \in wire, IntentLands(c) PROVE IInv'
  BY <1>7, IntentStep
<1>8. ASSUME NEW c \in wire, Succeeds(c) \/ Fails(c) PROVE IInv'
  BY <1>8, PressReturns
<1>9. CASE UNCHANGED vars
  <2>1. TypeOK'
    BY <1>9 DEF IInv, TypeOK, vars, screen, keys, server, budget, past
  <2>2. Keyed' /\ OneAtATime'
    BY <1>9 DEF IInv, Keyed, OneAtATime, Acts, vars, keys
  <2>3. LostAttemptKeepsKeyElse'
    BY <1>9, LostStays DEF IInv, vars, keys, past
  <2> QED BY <2>1, <2>2, <2>3 DEF IInv
<1> QED BY <1>1, <1>2, <1>3, <1>4, <1>5, <1>6, <1>7, <1>8, <1>9 DEF Next

(* The store's payment, the keys, the calls and the record keep their kinds, and no key of an   *)
(* attempt is ahead of the mint.                                                                *)
THEOREM TypeCorrect == Spec => []TypeOK
<1>1. IInv => TypeOK
  BY DEF IInv
<1> QED BY InitIInv, StepIInv, <1>1, PTL DEF Spec

(* http/idempotency.ts keeps the key of an attempt that may still be running: a press whose     *)
(* answer never came is repeated under its own key, whatever pages open, prompts close and      *)
(* reads fail meanwhile, unless the replay, the door or the intent settled it.                  *)
THEOREM LostAttemptsKeepTheirKeys == Spec => []LostAttemptKeepsKeyElse
<1>1. IInv => LostAttemptKeepsKeyElse
  BY DEF IInv
<1> QED BY InitIInv, StepIInv, <1>1, PTL DEF Spec

-----------------------------------------------------------------------------
(* No refund is blind.  Of an order's refund keys only the one held can still do anything, and   *)
(* whoever presses under a new one is looking at the refunds of all the others.                  *)

Clean == tangled \subseteq {"intent"}

(* Calls the loading flag counts, the reads of an opening page aside: one at a time. *)
Busy(c) == c.here /\ c.kind # "show"
OneBusy == \A c, d \in wire : Busy(c) /\ Busy(d) => c = d

(* A call nobody waits for is a press that is still out, and every press carries a key. *)
Away == \A c \in wire : (~c.here => c.kind \in Ops /\ c.status = "sent") /\ (c.kind \in Ops => c.key # 0)

(* The record: a key is handled once, and an outcome that is told is the one recorded. *)
Books ==
    /\ \A r \in record : r.key # 0 /\ r.key <= minted
    /\ \A r, s \in record : r.kind = s.kind /\ r.order = s.order /\ r.key = s.key => r = s
    /\ \A c \in wire : c.kind \in Ops /\ c.status \in Outcomes => \E r \in Handled(c) : r.answer = c.status

KeyOf(o) == key["refund"][o]
Holds(r, o) == r.kind = "refund" /\ r.order = o /\ r.key = KeyOf(o)
OnRecord(o) == \E r \in record : Holds(r, o)
MayHaveRun(o) == \E r \in record : Holds(r, o) /\ r.answer # "refused"
BeingRead(o) == \E d \in wire : d.here /\ d.order = o /\ d.kind \in {"totals", "again"}

(* The page does not know what became of the attempt, or is about to be told. *)
Telling(d, o) == d.here /\ d.kind = "refund" /\ d.order = o /\ d.status \in Outcomes \cup {"lost"}
InDoubt(o) == undecided["refund"][o] = KeyOf(o) \/ \E d \in wire : Telling(d, o)

HeardOrInDoubt == Clean => \A o \in Orders : OnRecord(o) => InDoubt(o)

(* A refund that may still be made is made under the key held, by a press that saw all others. *)
Afoot(c) == c.kind = "refund" /\ Handled(c) = {}
Waits(c) == /\ c.key = KeyOf(c.order) /\ refunded[c.order] <= c.saw
            /\ ~c.here => InDoubt(c.order)
AfootHasSeen == Clean => \A c \in wire : Afoot(c) => Waits(c)

(* What is shown, or is about to be, is behind only if the key held may have run or a read is due. *)
ScreenIsFresh ==
    Clean /\ payment.order # None =>
       refunded[payment.order] <= payment.refunded \/ MayHaveRun(payment.order) \/ BeingRead(payment.order)
Answered(c) == c.here /\ \/ c.kind \in {"show", "totals", "again"} /\ c.status = "read"
                         \/ c.kind = "confirm" /\ c.status = "done"
Current(c) == \/ refunded[c.order] <= c.refunded \/ MayHaveRun(c.order) \/ c.refunded < seen[c.order]
              \/ c.kind = "show" /\ BeingRead(c.order)
ReadingsAreFresh == Clean => \A c \in wire : Answered(c) => Current(c)

Fresh == HeardOrInDoubt /\ AfootHasSeen /\ ScreenIsFresh /\ ReadingsAreFresh
RInv == OneBusy /\ Away /\ Books /\ Fresh /\ NoBlindRefund

-----------------------------------------------------------------------------
(* Lemmas on the parts *)

(* The calls and the orders of a state of the right types. *)
LEMMA Kinded ==
    ASSUME TypeOK
    PROVE  /\ \A c \in wire : /\ c.order \in Orders /\ c.key \in Nat /\ c.saw \in Nat /\ c.refunded \in Nat
                              /\ c.kind \in Kinds /\ c.status \in Statuses
           /\ \A o \in Orders : refunded[o] \in Nat /\ seen[o] \in Nat
           /\ minted \in Nat /\ payment.refunded \in Nat /\ payment.order \in Orders \cup {None}
BY DEF TypeOK, Call, Payment

(* A press that is neither answered nor handled leaves the order alone. *)
LEMMA HandledTogether ==
    ASSUME NEW c, NEW d, c.kind = d.kind, c.order = d.order, c.key = d.key
    PROVE  Handled(c) = Handled(d) /\ Handled(c)' = Handled(d)'
BY DEF Handled

(* Nothing moves but calls that were not about a refund. *)
LEMMA Steady ==
    ASSUME TypeOK, Fresh, UNCHANGED <<record, refunded, payment, seen>>, tangled \subseteq tangled',
           \A o \in Orders : key'["refund"][o] = key["refund"][o] /\ undecided'["refund"][o] = undecided["refund"][o],
           \A d \in wire : d.kind \in {"refund", "totals", "again"} => d \in wire',
           \A d \in wire' : d \in wire \/ (d.here /\ d.status = "sent" /\ d.kind # "refund")
    PROVE  Fresh'
<1>1. Clean' => Clean
  BY DEF Clean
<1>2. \A o \in Orders : /\ MayHaveRun(o)' <=> MayHaveRun(o)
                        /\ OnRecord(o)' <=> OnRecord(o)
                        /\ KeyOf(o)' = KeyOf(o)
  BY DEF MayHaveRun, OnRecord, Holds, KeyOf
<1>3. \A o \in Orders : /\ InDoubt(o) => InDoubt(o)'
                        /\ BeingRead(o) => BeingRead(o)'
  BY <1>2 DEF InDoubt, Telling, BeingRead
<1>4. HeardOrInDoubt'
  BY <1>1, <1>2, <1>3 DEF Fresh, HeardOrInDoubt
<1>5. AfootHasSeen'
  <2> SUFFICES ASSUME Clean', NEW d \in wire', Afoot(d)' PROVE Waits(d)'
    BY DEF AfootHasSeen
  <2>1. d \in wire /\ Afoot(d) /\ d.order \in Orders
    BY Kinded DEF Afoot, Handled
  <2>2. Waits(d)
    BY <1>1, <2>1 DEF Fresh, AfootHasSeen
  <2> QED BY <1>2, <1>3, <2>1, <2>2 DEF Waits
<1>6. ScreenIsFresh'
  BY <1>1, <1>2, <1>3, Kinded DEF Fresh, ScreenIsFresh
<1>7. ReadingsAreFresh'
  <2> SUFFICES ASSUME Clean', NEW d \in wire', Answered(d)' PROVE Current(d)'
    BY DEF ReadingsAreFresh
  <2>1. d \in wire /\ Answered(d) /\ d.order \in Orders
    BY Kinded DEF Answered
  <2>2. Current(d)
    BY <1>1, <2>1 DEF Fresh, ReadingsAreFresh
  <2> QED BY <1>2, <1>3, <2>1, <2>2 DEF Current
<1> QED BY <1>4, <1>5, <1>6, <1>7 DEF Fresh

(* A payment that is read is shown. *)
LEMMA Landing ==
    ASSUME TypeOK, Fresh, OneBusy, NEW c \in wire, Answered(c), Shows(c), wire' = wire \ {c},
           UNCHANGED <<record, refunded>>,
           \A o \in Orders : key'["refund"][o] = key["refund"][o] /\ undecided'["refund"][o] = undecided["refund"][o]
    PROVE  Fresh'
<1>1. /\ c \in Call /\ c.order \in Orders /\ c.kind # "refund"
      /\ seen \in [Orders -> Nat]
  BY DEF TypeOK, Call, Answered
<1>2. /\ payment'.order = c.order /\ payment'.refunded = c.refunded
      /\ \A o \in Orders : seen[o] <= seen'[o] /\ seen[o] \in Nat /\ seen'[o] \in Nat
      /\ c.refunded <= seen'[c.order] /\ tangled \subseteq tangled'
      /\ c.refunded < seen[c.order] => "outrun" \in tangled'
  BY <1>1, ShownPayment
<1>3. Clean' => Clean /\ ~(c.refunded < seen[c.order])
  BY <1>2 DEF Clean
<1>4. \A o \in Orders : /\ MayHaveRun(o)' <=> MayHaveRun(o)
                        /\ OnRecord(o)' <=> OnRecord(o)
                        /\ KeyOf(o)' = KeyOf(o)
                        /\ InDoubt(o) => InDoubt(o)'
  BY <1>1 DEF MayHaveRun, OnRecord, Holds, KeyOf, InDoubt, Telling
<1>5. Clean' => Current(c)
  BY <1>3 DEF Fresh, ReadingsAreFresh
<1>6. ASSUME c.kind = "show", BeingRead(c.order) PROVE BeingRead(c.order)'
  BY <1>6 DEF BeingRead
<1>7. HeardOrInDoubt'
  BY <1>3, <1>4 DEF Fresh, HeardOrInDoubt
<1>8. AfootHasSeen'
  <2> SUFFICES ASSUME Clean', NEW d \in wire', Afoot(d)' PROVE Waits(d)'
    BY DEF AfootHasSeen
  <2>1. d \in wire /\ Afoot(d) /\ d.order \in Orders
    BY Kinded DEF Afoot, Handled
  <2>2. Waits(d)
    BY <1>3, <2>1 DEF Fresh, AfootHasSeen
  <2> QED BY <1>4, <2>1, <2>2 DEF Waits
<1>9. ScreenIsFresh'
  BY <1>1, <1>2, <1>3, <1>4, <1>5, <1>6 DEF ScreenIsFresh, Current
<1>10. ReadingsAreFresh'
  <2> SUFFICES ASSUME Clean', NEW d \in wire', Answered(d)' PROVE Current(d)'
    BY DEF ReadingsAreFresh
  <2>1. d \in wire /\ d # c /\ Answered(d) /\ d.order \in Orders /\ d.refunded \in Nat
        /\ c.refunded \in Nat /\ refunded[d.order] \in Nat
    BY Kinded DEF Answered
  <2>2. Current(d)
    BY <1>3, <2>1 DEF Fresh, ReadingsAreFresh
  <2>3. CASE refunded[d.order] <= d.refunded \/ MayHaveRun(d.order) \/ d.refunded < seen[d.order]
    BY <1>2, <1>4, <2>1, <2>3 DEF Current
  <2>4. CASE d.kind = "show" /\ BeingRead(d.order)
    <3>1. PICK x \in wire : x.here /\ x.order = d.order /\ x.kind \in {"totals", "again"}
      BY <2>4 DEF BeingRead
    <3>2. CASE x # c
      BY <2>4, <3>1, <3>2 DEF Current, BeingRead
    <3>3. CASE x = c
      <4>1. refunded[d.order] <= c.refunded \/ MayHaveRun(d.order)
        BY <1>3, <1>5, <3>1, <3>3 DEF Current
      <4>2. CASE MayHaveRun(d.order)
        BY <1>4, <2>1, <4>2 DEF Current
      <4>3. CASE refunded[d.order] <= c.refunded
        <5>1. refunded[d.order] <= d.refunded \/ d.refunded < seen'[d.order]
          BY <1>2, <2>1, <3>1, <3>3, <4>3
        <5> QED BY <5>1 DEF Current
      <4> QED BY <4>1, <4>2, <4>3
    <3> QED BY <3>2, <3>3
  <2> QED BY <2>2, <2>3, <2>4 DEF Current
<1> QED BY <1>7, <1>8, <1>9, <1>10 DEF Fresh

(* The reads that follow a call. *)
LEMMA Followers ==
    ASSUME TypeOK, NEW c \in wire, NEW kinds \in SUBSET {"totals", "again"}, FollowedBy(c, kinds)
    PROVE  /\ wire \ {c} \subseteq wire'
           /\ \A d \in wire' : \/ d \in wire \ {c}
                               \/ d.here /\ d.status = "sent" /\ d.order = c.order /\ d.kind \in kinds
           /\ \A kind \in kinds : \E d \in wire' : d.here /\ d.order = c.order /\ d.kind = kind
<1> DEFINE e(kind) == [Calling(kind, c.order, 0, c.at) EXCEPT !.saw = c.saw]
<1>1. wire' = (wire \ {c}) \cup {e(kind) : kind \in kinds}
  BY DEF FollowedBy
<1>2. \A kind \in kinds : /\ e(kind).here = TRUE /\ e(kind).status = "sent"
                          /\ e(kind).order = c.order /\ e(kind).kind = kind
  BY DEF Calling
<1> HIDE DEF e
<1> QED BY <1>1, <1>2

(* A refund comes back: if its key goes, the answer was heard, and a read follows what may have   *)
(* been done.                                                                                     *)
LEMMA RefundReturns ==
    ASSUME IInv, RInv, NEW c \in wire, c.kind = "refund", Succeeds(c) \/ Fails(c)
    PROVE  Fresh'
<1> DEFINE o == c.order
<1>1. /\ TypeOK /\ o \in Orders /\ c.kind \in Ops /\ c.here /\ Busy(c) /\ c.key = KeyOf(o) /\ c.key # 0
      /\ c.status \in Statuses \ {"sent", "parked", "read"} /\ c.key \in Nat
  BY Kinded DEF IInv, OneAtATime, Keyed, Succeeds, Fails, Lands, Busy, KeyOf, Ops
<1>2. /\ UNCHANGED <<record, refunded, payment, seen>> /\ tangled \subseteq tangled' /\ Decides(c)
      /\ UNCHANGED minted
  BY DEF Succeeds, Fails, screen, server
<1>3. PICK verdict : /\ Settle("refund", o, verdict)
                     /\ \/ Succeeds(c) /\ verdict = c.status /\ c.status = "done"
                        \/ Fails(c) /\ verdict = Verdict(c) /\ c.status # "done"
  BY DEF Succeeds, Fails
<1>4. PICK kinds \in SUBSET {"totals", "again"} :
         /\ FollowedBy(c, kinds)
         /\ c.status = "done" => kinds = {"totals"}
         /\ Fails(c) /\ Verdict(c) = "fault" => kinds = {"again"}
  BY RereadsAgain DEF Succeeds, Fails, Rereads
<1>5. /\ wire \ {c} \subseteq wire'
      /\ \A d \in wire' : d \in wire \ {c} \/ (d.here /\ d.status = "sent" /\ d.kind \in {"totals", "again"})
      /\ \A kind \in kinds : \E d \in wire' : d.here /\ d.order = o /\ d.kind = kind
  <2> HIDE DEF o
  <2> QED BY <1>1, <1>4, Followers DEF o
<1>6. Clean' => Clean /\ c.status \in {"done", "turnedAway"} \cup (IF c.proved THEN {} ELSE Statuses)
  <2>1. Clean' => Clean
    BY <1>2 DEF Clean
  <2>2. Clean' /\ c.proved /\ c.status # "done" => c.status = "turnedAway"
    BY <1>3 DEF Clean, Fails
  <2> QED BY <1>1, <2>1, <2>2
<1>7. /\ \A q \in Orders : q # o => KeyOf(q)' = KeyOf(q)
      /\ Keeps(verdict) => KeyOf(o)' = KeyOf(o)
      /\ ~Keeps(verdict) => KeyOf(o)' = 0
  <2>1. key \in [Ops -> [Orders -> 0 .. minted]] /\ "refund" \in Ops
    BY <1>1 DEF TypeOK, Ops
  <2> QED BY <1>1, <1>3, <2>1 DEF Settle, KeyOf
<1>8. /\ \A q \in Orders : q # o => undecided'["refund"][q] = undecided["refund"][q]
      /\ c.status = "lost" => undecided'["refund"][o] = c.key
      /\ c.status \in {"inFlight", "turnedAway"} => undecided' = undecided
  <2>1. undecided \in [Ops -> [Orders -> 0 .. minted]] /\ "refund" \in Ops
    BY <1>1 DEF TypeOK, Ops
  <2> QED BY <1>1, <1>2, <2>1 DEF Decides, Outcomes
<1>9. \A d \in wire : Busy(d) => d = c
  BY <1>1 DEF RInv, OneBusy
<1>10. ASSUME Clean', c.status = "turnedAway" PROVE undecided["refund"][o] = 0
  BY <1>3, <1>10 DEF Fails, Clean
<1>11. \A q \in Orders : /\ q # o => (OnRecord(q)' <=> OnRecord(q)) /\ (MayHaveRun(q)' <=> MayHaveRun(q))
                         /\ Keeps(verdict) => (OnRecord(q)' <=> OnRecord(q)) /\ (MayHaveRun(q)' <=> MayHaveRun(q))
                         /\ q = o /\ ~Keeps(verdict) => ~OnRecord(q)'
  BY <1>2, <1>7 DEF RInv, Books, OnRecord, MayHaveRun, Holds
<1>12. \A q \in Orders : q # o /\ InDoubt(q) => InDoubt(q)'
  BY <1>5, <1>7, <1>8 DEF InDoubt, Telling
\* The key is kept only when nothing was heard, and then the page is in doubt.
<1>13. ASSUME Clean', Keeps(verdict), InDoubt(o) PROVE InDoubt(o)'
  <2>1. c.status \in {"lost", "inFlight"} /\ ~c.proved
    BY <1>1, <1>3, <1>6, <1>13 DEF Keeps, Verdict
  <2>2. CASE c.status = "lost"
    BY <1>1, <1>7, <1>8, <1>13, <2>2 DEF InDoubt
  <2>3. CASE c.status = "inFlight"
    <3>1. ~\E d \in wire : Telling(d, o)
      BY <1>9, <2>3 DEF Telling, Busy, Outcomes
    <3> QED BY <1>7, <1>8, <1>13, <2>3, <3>1 DEF InDoubt
  <2> QED BY <2>1, <2>2, <2>3
\* A refusal at the door meets no doubt.
<1>14. ASSUME Clean', InDoubt(o) PROVE c.status # "turnedAway"
  <2> SUFFICES ASSUME c.status = "turnedAway" PROVE FALSE
    OBVIOUS
  <2>1. undecided["refund"][o] = 0
    BY <1>10, <1>14
  <2>2. PICK d \in wire : Telling(d, o)
    BY <1>1, <1>14, <2>1 DEF InDoubt
  <2> QED BY <1>9, <2>2 DEF Telling, Busy, Outcomes
<1>15. HeardOrInDoubt'
  <2> SUFFICES ASSUME Clean', NEW q \in Orders, OnRecord(q)' PROVE InDoubt(q)'
    BY DEF HeardOrInDoubt
  <2>1. OnRecord(q)
    BY <1>11
  <2>2. InDoubt(q)
    BY <1>6, <2>1 DEF RInv, Fresh, HeardOrInDoubt
  <2> QED BY <1>11, <1>12, <1>13, <2>2
<1>16. AfootHasSeen'
  <2> SUFFICES ASSUME Clean', NEW d \in wire', Afoot(d)' PROVE Waits(d)'
    BY DEF AfootHasSeen
  <2>1. d \in wire /\ d # c /\ d.kind = "refund" /\ Handled(d) = {} /\ d.order \in Orders
    BY <1>1, <1>2, <1>5, Kinded DEF Afoot, Handled
  <2>2. ~d.here
    BY <1>9, <2>1 DEF Busy
  <2>3. d.key = KeyOf(d.order) /\ refunded[d.order] <= d.saw /\ InDoubt(d.order)
    BY <1>6, <2>1, <2>2 DEF RInv, Fresh, AfootHasSeen, Waits, Afoot
  <2>4. CASE d.order # o
    BY <1>2, <1>7, <1>12, <2>1, <2>3, <2>4 DEF Waits
  <2>5. CASE d.order = o
    <3>1. Handled(c) = {}
      BY <1>1, <2>1, <2>3, <2>5, HandledTogether
    <3>2. c.status \notin Outcomes
      BY <1>1, <3>1 DEF RInv, Books
    <3>3. c.status \in {"lost", "inFlight"}
      BY <1>1, <1>14, <2>3, <2>5, <3>2 DEF Statuses, Outcomes
    <3>4. ~c.proved /\ verdict = c.status /\ Keeps(verdict)
      BY <1>3, <1>6, <3>3 DEF Verdict, Keeps
    <3> QED BY <1>2, <1>7, <1>13, <2>3, <2>5, <3>4 DEF Waits
  <2> QED BY <2>4, <2>5
\* What may have run is read.
<1>17. ASSUME Clean', MayHaveRun(o) PROVE MayHaveRun(o)' \/ BeingRead(o)'
  <2>1. PICK r \in record : Holds(r, o) /\ r.answer # "refused"
    BY <1>17 DEF MayHaveRun
  <2>2. r \in Handled(c)
    BY <1>1, <2>1 DEF Holds, Handled
  <2>3. InDoubt(o)
    <3>1. OnRecord(o) /\ Clean
      BY <1>6, <1>17, <2>1 DEF OnRecord
    <3> QED BY <1>1, <3>1 DEF RInv, Fresh, HeardOrInDoubt
  <2>4. c.status # "refused"
    BY <1>1, <2>1, <2>2 DEF RInv, Books, Handled, Outcomes
  <2>5. CASE Keeps(verdict)
    BY <1>1, <1>11, <1>17, <2>5
  <2>6. CASE ~Keeps(verdict)
    <3>1. c.status \in {"done", "fault"}
      BY <1>1, <1>3, <1>6, <1>14, <1>17, <2>3, <2>4, <2>6 DEF Statuses, Outcomes, Keeps, Verdict
    <3>2. kinds # {}
      BY <1>3, <1>4, <1>6, <1>17, <3>1 DEF Verdict
    <3> QED BY <1>5, <3>2 DEF BeingRead
  <2> QED BY <2>5, <2>6
<1>18. \A q \in Orders : ~BeingRead(q)
  BY <1>1, <1>9 DEF BeingRead, Busy, Ops
<1>19. \A q \in Orders : Clean' /\ MayHaveRun(q) => MayHaveRun(q)' \/ BeingRead(q)'
  BY <1>11, <1>17
<1>20. ScreenIsFresh'
  BY <1>1, <1>2, <1>6, <1>18, <1>19, Kinded DEF RInv, Fresh, ScreenIsFresh
<1>21. ReadingsAreFresh'
  <2> SUFFICES ASSUME Clean', NEW d \in wire', Answered(d)' PROVE Current(d)'
    BY DEF ReadingsAreFresh
  <2>1. d \in wire /\ d # c /\ Answered(d) /\ d.order \in Orders
    BY <1>5, Kinded, <1>1 DEF Answered
  <2>2. d.kind = "show"
    BY <1>9, <2>1 DEF Busy, Answered
  <2>3. Current(d)
    BY <1>6, <2>1 DEF RInv, Fresh, ReadingsAreFresh
  <2> QED BY <1>2, <1>18, <1>19, <2>1, <2>2, <2>3 DEF Current
<1> QED BY <1>15, <1>16, <1>20, <1>21 DEF Fresh

(* A call that may be about. *)
Fitting(d) == (~d.here => d.kind \in Ops /\ d.status = "sent") /\ (d.kind \in Ops => d.key # 0)

LEMMA OneMoves ==
    ASSUME OneBusy, Away, NEW c \in wire, NEW e, Fitting(e), Busy(e) => Busy(c),
           \A d \in wire' : d \in wire \ {c} \/ d = e \/ (~Busy(d) /\ Fitting(d))
    PROVE  OneBusy' /\ Away'
<1>1. \A d \in wire' : Fitting(d)
  BY DEF Away, Fitting
<1>2. \A d, f \in wire' : Busy(d) /\ Busy(f) => d = f
  BY DEF OneBusy
<1>3. \A d : Busy(d)' = Busy(d)
  BY DEF Busy
<1> QED BY <1>1, <1>2, <1>3 DEF OneBusy, Away, Fitting

LEMMA BooksKept ==
    ASSUME TypeOK, Books, UNCHANGED record, minted' \in {minted, minted + 1},
           \A d \in wire' : d \in wire \/ d.status \notin Outcomes \/ d.kind \notin Ops
    PROVE  Books'
<1>1. \A r \in record : r.key \in Nat /\ minted \in Nat
  BY DEF TypeOK, Outcome
<1>2. \A r \in record : r.key <= minted'
  BY <1>1 DEF Books
<1>3. \A d : Handled(d)' = Handled(d)
  BY DEF Handled
<1> QED BY <1>2, <1>3 DEF Books

(* The call as it is answered. *)
LEMMA AnswerTold ==
    ASSUME TypeOK, Away, NEW c \in wire, NEW status \in Statuses, refunded' \in [Orders -> Nat],
           Answer(c, status)
    PROVE  \E e : /\ wire' = (wire \ {c}) \cup (IF c.here THEN {e} ELSE {})
                  /\ e.kind = c.kind /\ e.order = c.order /\ e.key = c.key /\ e.saw = c.saw /\ e.here = c.here
                  /\ e.status = status /\ e.refunded = refunded'[c.order]
<1> DEFINE e == [c EXCEPT !.status = status, !.refunded = refunded'[c.order]]
<1>1. c \in Call
  BY DEF TypeOK
<1>2. /\ e.kind = c.kind /\ e.order = c.order /\ e.key = c.key /\ e.saw = c.saw /\ e.here = c.here
      /\ e.status = status /\ e.refunded = refunded'[c.order]
  BY <1>1 DEF Call
<1>3. wire' = (wire \ {c}) \cup (IF c.here THEN {e} ELSE {})
  BY DEF Answer
<1> HIDE DEF e
<1> QED BY <1>2, <1>3

(* What the server does to a call, for the parts above. *)
LEMMA ServerFresh ==
    ASSUME IInv, RInv, NEW c \in wire,
           \/ \E answer \in {"done", "fault"} : Executes(c, answer)
           \/ \E answer \in {"refused", "fault"} : Refuses(c, answer)
           \/ \E status \in Statuses : Meets(c, status)
    PROVE  RInv'
<1>1. /\ TypeOK /\ c \in Call /\ c.order \in Orders /\ refunded \in [Orders -> Nat] /\ c.status = "sent"
      /\ \A o \in Orders : refunded[o] \in Nat
      /\ OneBusy /\ Away /\ Books
  BY Kinded DEF IInv, RInv, TypeOK, Executes, Refuses, Meets, Due
<1>2. UNCHANGED <<page, payment, key, minted, undecided, seen, tangled>>
  BY DEF Executes, Refuses, Meets, screen, keys, past
<1>3. PICK status \in Statuses :
         /\ Answer(c, status)
         /\ \/ status \in {"done", "fault"} /\ Executes(c, status)
            \/ status \in {"refused", "fault"} /\ Refuses(c, status)
            \/ Meets(c, status)
  BY DEF Executes, Refuses, Meets, Statuses, Outcomes
<1>4. Outcomes \subseteq Statuses /\ "sent" \notin Outcomes
  BY DEF Outcomes, Statuses
\* Either the key is handled now, or the record and the refunds stand.
<1>5. \/ /\ c.kind \in Ops /\ Handled(c) = {} /\ status \in Outcomes /\ Records(c, status)
         /\ \/ c.kind = "refund" /\ status # "refused" /\ refunded' = [refunded EXCEPT ![c.order] = @ + 1]
            \/ UNCHANGED refunded
         /\ \/ c.kind = "refund" /\ blind' = IF c.saw < refunded[c.order] THEN blind \cup {c.order} ELSE blind
            \/ UNCHANGED blind
      \/ /\ UNCHANGED <<record, refunded, blind>>
         /\ c.kind \in Ops /\ status \in Outcomes => \E r \in Handled(c) : r.answer = status
  BY <1>3 DEF Executes, Refuses, Meets, Due, past, Outcomes, Ops
<1>6. refunded' \in [Orders -> Nat]
  BY <1>1, <1>5
<1>7. PICK e : /\ wire' = (wire \ {c}) \cup (IF c.here THEN {e} ELSE {})
               /\ e.kind = c.kind /\ e.order = c.order /\ e.key = c.key /\ e.saw = c.saw /\ e.here = c.here
               /\ e.status = status /\ e.refunded = refunded'[c.order]
  BY <1>1, <1>3, <1>6, AnswerTold
<1>8. wire \ {c} \subseteq wire' /\ \A d \in wire' : d \in wire \ {c} \/ (d = e /\ c.here /\ e \in wire')
  BY <1>7
<1>9. OneBusy' /\ Away'
  <2>1. c.here => Fitting(e) /\ (Busy(e) => Busy(c))
    BY <1>1, <1>7 DEF Away, Fitting, Busy
  <2>2. CASE c.here
    BY <1>1, <1>8, <2>1, <2>2, OneMoves
  <2>3. CASE ~c.here
    <3>1. Fitting(c) /\ \A d \in wire' : d \in wire \ {c}
      BY <1>1, <1>8, <2>3 DEF Away, Fitting
    <3> QED BY <1>1, <3>1, OneMoves
  <2> QED BY <2>2, <2>3
<1>10. /\ record \subseteq record' /\ \A d : Handled(d) \subseteq Handled(d)'
       /\ \/ /\ c.kind \in Ops /\ Handled(c) = {} /\ status \in Outcomes
             /\ \E new : /\ record' = record \cup {new} /\ new \in Handled(c)'
                         /\ new.kind = c.kind /\ new.order = c.order /\ new.key = c.key
                         /\ new.answer = status
          \/ /\ UNCHANGED <<record, refunded, blind>>
             /\ c.kind \in Ops /\ status \in Outcomes => \E r \in Handled(c) : r.answer = status
  <2>1. CASE UNCHANGED record
    <3>1. ~(Handled(c) = {} /\ Records(c, status))
      <4> DEFINE new == [kind |-> c.kind, order |-> c.order, key |-> c.key, answer |-> status]
      <4>1. new.kind = c.kind /\ new.order = c.order /\ new.key = c.key
        OBVIOUS
      <4>2. Records(c, status) => new \in record
        BY <2>1 DEF Records
      <4> HIDE DEF new
      <4> QED BY <4>1, <4>2 DEF Handled
    <3> QED BY <1>5, <2>1, <3>1 DEF Handled
  <2>2. CASE Records(c, status) /\ c.kind \in Ops /\ Handled(c) = {} /\ status \in Outcomes
    <3> DEFINE new == [kind |-> c.kind, order |-> c.order, key |-> c.key, answer |-> status]
    <3>1. record' = record \cup {new}
      BY <2>2 DEF Records
    <3>2. new.kind = c.kind /\ new.order = c.order /\ new.key = c.key /\ new.answer = status
      OBVIOUS
    <3> HIDE DEF new
    <3>3. new \in Handled(c)'
      BY <3>1, <3>2 DEF Handled
    <3>4. \A d : Handled(d) \subseteq Handled(d)'
      BY <3>1 DEF Handled
    <3> QED BY <2>2, <3>1, <3>2, <3>3, <3>4
  <2> QED BY <1>5, <2>1, <2>2
<1>11. /\ record \subseteq record' /\ \A d : Handled(d) \subseteq Handled(d)'
       /\ \A o \in Orders : KeyOf(o)' = KeyOf(o)
       /\ \A o \in Orders : MayHaveRun(o) => MayHaveRun(o)'
  <2>1. record \subseteq record' /\ \A d : Handled(d) \subseteq Handled(d)'
    BY <1>10
  <2> QED BY <1>2, <2>1 DEF MayHaveRun, Holds, KeyOf
<1>12. Books'
  <2>1. \A d \in wire \ {c} : d.kind \in Ops /\ d.status \in Outcomes => \E r \in Handled(d)' : r.answer = d.status
    BY <1>1, <1>11 DEF Books
  <2>2. c.kind \in Ops /\ status \in Outcomes => \E r \in Handled(c)' : r.answer = status
    BY <1>10
  <2>3. c.kind = e.kind /\ Handled(e)' = Handled(c)'
    BY <1>7, HandledTogether
  <2>4. \A d \in wire' : d.kind \in Ops /\ d.status \in Outcomes => \E r \in Handled(d)' : r.answer = d.status
    BY <1>7, <1>8, <2>1, <2>2, <2>3
  <2>5. \A r \in record' : r.key # 0 /\ r.key <= minted
    BY <1>1, <1>10 DEF Books, Away, IInv, Keyed
  <2>6. \A r, s \in record' : r.kind = s.kind /\ r.order = s.order /\ r.key = s.key => r = s
    BY <1>1, <1>10 DEF Books, Handled
  <2> QED BY <1>2, <2>4, <2>5, <2>6 DEF Books
\* Nobody is told less.
<1>13. \A o \in Orders : InDoubt(o) => InDoubt(o)'
  <2>1. \A d \in wire : d.status \in Outcomes \cup {"lost"} => d # c
    BY <1>1, <1>4
  <2> QED BY <1>2, <1>8, <1>11, <2>1 DEF InDoubt, Telling
<1>14. \A o \in Orders : BeingRead(o) => BeingRead(o)'
  <2> SUFFICES ASSUME NEW o \in Orders, NEW d \in wire, d.here, d.order = o, d.kind \in {"totals", "again"}
               PROVE  \E f \in wire' : f.here /\ f.order = o /\ f.kind \in {"totals", "again"}
    BY DEF BeingRead
  <2>1. CASE d # c
    BY <1>8, <2>1
  <2>2. CASE d = c
    BY <1>7, <2>2
  <2> QED BY <2>1, <2>2
<1>15. Clean' <=> Clean
  BY <1>2 DEF Clean
\* The order whose refunds grew: its key may have run.
<1>16. Clean => \A o \in Orders : refunded'[o] = refunded[o] \/ MayHaveRun(o)'
  <2> SUFFICES ASSUME Clean, NEW o \in Orders, refunded'[o] # refunded[o] PROVE MayHaveRun(o)'
    OBVIOUS
  <2>1. /\ c.kind = "refund" /\ status # "refused" /\ Handled(c) = {} /\ o = c.order
    BY <1>1, <1>5
  <2>2. c.key = KeyOf(o)
    BY <1>1, <2>1 DEF RInv, Fresh, AfootHasSeen, Afoot, Waits
  <2>3. PICK new \in record' : new.kind = c.kind /\ new.order = c.order /\ new.key = c.key /\ new.answer = status
    BY <1>5, <1>10, <2>1
  <2> QED BY <1>11, <2>1, <2>2, <2>3 DEF MayHaveRun, Holds
<1>17. HeardOrInDoubt'
  <2> SUFFICES ASSUME Clean, NEW o \in Orders, OnRecord(o)' PROVE InDoubt(o)'
    BY <1>15 DEF HeardOrInDoubt
  <2>1. CASE OnRecord(o)
    BY <1>13, <2>1 DEF RInv, Fresh, HeardOrInDoubt
  <2>2. CASE ~OnRecord(o)
    <3>1. c.kind = "refund" /\ c.order = o /\ Handled(c) = {} /\ status \in Outcomes
      BY <1>10, <1>11, <2>2 DEF OnRecord, Holds
    <3>2. CASE c.here
      <4>1. Telling(e, o) /\ e \in wire'
        BY <1>7, <3>1, <3>2 DEF Telling
      <4>2. Telling(e, o)'
        BY <4>1 DEF Telling
      <4> QED BY <4>1, <4>2 DEF InDoubt
    <3>3. CASE ~c.here
      BY <1>13, <3>1, <3>3 DEF RInv, Fresh, AfootHasSeen, Afoot, Waits
    <3> QED BY <3>2, <3>3
  <2> QED BY <2>1, <2>2
<1>18. AfootHasSeen'
  <2> SUFFICES ASSUME Clean, NEW d \in wire', Afoot(d)' PROVE Waits(d)'
    BY <1>15 DEF AfootHasSeen
  <2>1. PICK f \in wire : /\ f.kind = d.kind /\ f.order = d.order /\ f.key = d.key
                          /\ f.saw = d.saw /\ f.here = d.here
    BY <1>7, <1>8
  <2>2. d.kind = "refund" /\ Handled(d)' = {}
    BY DEF Afoot
  <2>3. Handled(f) = Handled(d) /\ Handled(f)' = Handled(d)'
    BY <2>1, HandledTogether
  <2>4. Handled(f) = {}
    BY <1>11, <2>2, <2>3
  <2>5. Afoot(f) /\ f.order \in Orders
    BY <1>1, <2>1, <2>2, <2>4, Kinded DEF Afoot
  <2>6. Waits(f)
    BY <2>5 DEF RInv, Fresh, AfootHasSeen
  <2>7. refunded'[f.order] = refunded[f.order]
    <3> SUFFICES ASSUME refunded'[f.order] # refunded[f.order] PROVE FALSE
      OBVIOUS
    <3>1. c.kind = "refund" /\ c.order = f.order /\ Handled(c) = {}
      BY <1>1, <1>5, <2>5
    <3>2. c.key = f.key
      BY <2>6, <3>1 DEF RInv, Fresh, AfootHasSeen, Afoot, Waits
    <3>3. Handled(f)' = Handled(c)'
      BY <2>1, <2>2, <3>1, <3>2, HandledTogether
    <3> QED BY <1>1, <1>5, <1>10, <2>2, <2>3, <3>3
  <2> QED BY <1>11, <1>13, <2>1, <2>5, <2>6, <2>7 DEF Waits
<1>19. ScreenIsFresh'
  <2> SUFFICES ASSUME Clean, NEW o, o = payment.order, o # None
               PROVE  refunded'[o] <= payment.refunded \/ MayHaveRun(o)' \/ BeingRead(o)'
    BY <1>2, <1>15 DEF ScreenIsFresh
  <2>1. o \in Orders
    BY <1>1, Kinded
  <2>2. refunded[o] <= payment.refunded \/ MayHaveRun(o) \/ BeingRead(o)
    BY DEF RInv, Fresh, ScreenIsFresh
  <2> QED BY <1>11, <1>14, <1>16, <2>1, <2>2
<1>20. ReadingsAreFresh'
  <2> SUFFICES ASSUME Clean, NEW d \in wire', Answered(d)' PROVE Current(d)'
    BY <1>15 DEF ReadingsAreFresh
  <2>1. CASE d \in wire
    <3>1. Current(d) /\ d.order \in Orders
      BY <1>1, <2>1, Kinded DEF RInv, Fresh, ReadingsAreFresh, Answered
    <3> QED BY <1>2, <1>11, <1>14, <1>16, <3>1 DEF Current
  <2>2. CASE d \notin wire
    <3>1. d.refunded = refunded'[d.order] /\ refunded'[d.order] \in Nat
      BY <1>1, <1>6, <1>7, <1>8, <2>2
    <3> QED BY <3>1 DEF Current
  <2> QED BY <2>1, <2>2
<1>21. NoBlindRefund'
  <2> SUFFICES ASSUME Clean PROVE blind' = {}
    BY <1>15 DEF NoBlindRefund, Clean
  <2>1. blind = {}
    BY DEF RInv, NoBlindRefund, Clean
  <2>2. c.kind = "refund" /\ Handled(c) = {} => ~(c.saw < refunded[c.order])
    <3>1. c.saw \in Nat /\ refunded[c.order] \in Nat
      BY <1>1, Kinded
    <3>2. c.kind = "refund" /\ Handled(c) = {} => refunded[c.order] <= c.saw
      BY DEF RInv, Fresh, AfootHasSeen, Afoot, Waits
    <3> QED BY <3>1, <3>2
  <2> QED BY <1>5, <2>1, <2>2
<1> QED BY <1>9, <1>12, <1>17, <1>18, <1>19, <1>20, <1>21 DEF RInv, Fresh

(* A loss, a proof and a dismissal move one call, and may leave its press out without its page. *)
LEMMA NetworkFresh ==
    ASSUME IInv, RInv, NEW c \in wire, Loses(c) \/ Proves(c) \/ Dismisses(c)
    PROVE  RInv'
<1>1. /\ TypeOK /\ c \in Call /\ OneBusy /\ Away /\ Books /\ c.order \in Orders
      /\ c.here = TRUE /\ c.status # "lost" /\ Fitting(c)
  BY Kinded DEF IInv, RInv, TypeOK, Away, Fitting, Loses, Proves, Dismisses, Call
<1>2. UNCHANGED <<payment, key, minted, record, refunded, undecided, seen, blind, tangled>>
  BY DEF Loses, Proves, Dismisses, screen, keys, server, past
<1>3. \E e : /\ e.kind = c.kind /\ e.order = c.order /\ e.key = c.key /\ e.saw = c.saw /\ e.here = TRUE
             /\ e.status \in {"lost", "sent", "turnedAway"}
             /\ e \in wire' /\ wire \ {c} \subseteq wire'
             /\ \A d \in wire' : \/ d \in wire \ {c} \/ d = e
                                 \/ /\ d.kind = c.kind /\ d.order = c.order /\ d.key = c.key /\ d.saw = c.saw
                                    /\ d.here = FALSE /\ d.status = "sent" /\ d.kind \in Ops
                                    /\ e.status = "lost"
  <2>1. CASE Loses(c)
    <3> DEFINE e == [c EXCEPT !.status = "lost"]
               o == [c EXCEPT !.here = FALSE]
    <3>1. /\ e.kind = c.kind /\ e.order = c.order /\ e.key = c.key /\ e.saw = c.saw /\ e.here = TRUE
          /\ e.status = "lost"
          /\ o.kind = c.kind /\ o.order = c.order /\ o.key = c.key /\ o.saw = c.saw
          /\ o.here = FALSE /\ o.status = c.status
      BY <1>1 DEF Call
    <3>2. wire' = (wire \ {c}) \cup {e} \cup Orphans({c})
      BY <2>1 DEF Loses
    <3>3. \A d \in Orphans({c}) : d = o /\ c.kind \in Ops /\ c.status = "sent"
      BY DEF Orphans
    <3> HIDE DEF e, o
    <3> QED BY <3>1, <3>2, <3>3
  <2>2. CASE Proves(c)
    <3> DEFINE e == [c EXCEPT !.status = "sent", !.proved = TRUE]
    <3>1. /\ e.kind = c.kind /\ e.order = c.order /\ e.key = c.key /\ e.saw = c.saw /\ e.here = TRUE
          /\ e.status = "sent"
      BY <1>1 DEF Call
    <3>2. wire' = (wire \ {c}) \cup {e}
      BY <2>2 DEF Proves
    <3> HIDE DEF e
    <3> QED BY <3>1, <3>2
  <2>3. CASE Dismisses(c)
    <3> DEFINE e == [c EXCEPT !.status = "turnedAway"]
    <3>1. /\ e.kind = c.kind /\ e.order = c.order /\ e.key = c.key /\ e.saw = c.saw /\ e.here = TRUE
          /\ e.status = "turnedAway"
      BY <1>1 DEF Call
    <3>2. wire' = (wire \ {c}) \cup {e}
      BY <2>3 DEF Dismisses
    <3> HIDE DEF e
    <3> QED BY <3>1, <3>2
  <2> QED BY <2>1, <2>2, <2>3
<1>4. PICK e : /\ e.kind = c.kind /\ e.order = c.order /\ e.key = c.key /\ e.saw = c.saw /\ e.here = TRUE
               /\ e.status \in {"lost", "sent", "turnedAway"}
               /\ e \in wire' /\ wire \ {c} \subseteq wire'
               /\ \A d \in wire' : \/ d \in wire \ {c} \/ d = e
                                   \/ /\ d.kind = c.kind /\ d.order = c.order /\ d.key = c.key /\ d.saw = c.saw
                                      /\ d.here = FALSE /\ d.status = "sent" /\ d.kind \in Ops
                                      /\ e.status = "lost"
  BY <1>3
<1>5. OneBusy' /\ Away'
  <2>1. Fitting(e) /\ (Busy(e) => Busy(c))
    BY <1>1, <1>4 DEF Fitting, Busy
  <2>2. \A d \in wire' : d \in wire \ {c} \/ d = e \/ (~Busy(d) /\ Fitting(d))
    BY <1>1, <1>4 DEF Fitting, Busy
  <2> QED BY <1>1, <2>1, <2>2, OneMoves
<1>6. Books'
  <2>1. \A d \in wire' : d \in wire \/ d.status \notin Outcomes \/ d.kind \notin Ops
    BY <1>4 DEF Outcomes
  <2> QED BY <1>1, <1>2, <2>1, BooksKept
<1>7. Clean' <=> Clean
  BY <1>2 DEF Clean
<1>8. \A o \in Orders : /\ KeyOf(o)' = KeyOf(o) /\ (OnRecord(o)' <=> OnRecord(o))
                        /\ (MayHaveRun(o)' <=> MayHaveRun(o))
  BY <1>2 DEF KeyOf, OnRecord, MayHaveRun, Holds
<1>9. \A o \in Orders : BeingRead(o) => BeingRead(o)'
  <2> SUFFICES ASSUME NEW o \in Orders, NEW d \in wire, d.here, d.order = o, d.kind \in {"totals", "again"}
               PROVE  \E f \in wire' : f.here /\ f.order = o /\ f.kind \in {"totals", "again"}
    BY DEF BeingRead
  <2> QED BY <1>4
<1>10. \A o \in Orders : InDoubt(o) => InDoubt(o)'
  <2> SUFFICES ASSUME NEW o \in Orders, NEW d \in wire, Telling(d, o)
               PROVE  \E f \in wire' : Telling(f, o)
    BY <1>2, <1>8 DEF InDoubt, Telling
  <2>1. CASE d # c
    BY <1>4, <2>1
  <2>2. CASE d = c
    <3>1. Loses(c)
      BY <2>2 DEF Telling, Proves, Dismisses, Outcomes
    <3>2. \E f \in wire' : f.here /\ f.kind = c.kind /\ f.order = c.order /\ f.status = "lost"
      <4> DEFINE f == [c EXCEPT !.status = "lost"]
      <4>1. f.here /\ f.kind = c.kind /\ f.order = c.order /\ f.status = "lost"
        BY <1>1 DEF Call
      <4>2. f \in wire'
        BY <3>1 DEF Loses
      <4> HIDE DEF f
      <4> QED BY <4>1, <4>2
    <3> QED BY <2>2, <3>2 DEF Telling
  <2> QED BY <2>1, <2>2
<1>11. HeardOrInDoubt'
  BY <1>7, <1>8, <1>10 DEF RInv, Fresh, HeardOrInDoubt
<1>12. AfootHasSeen'
  <2> SUFFICES ASSUME Clean, NEW d \in wire', Afoot(d)' PROVE Waits(d)'
    BY <1>7 DEF AfootHasSeen
  <2>1. d.kind = "refund" /\ Handled(d) = {}
    BY <1>2 DEF Afoot, Handled
  <2>2. CASE d \in wire \ {c}
    <3>1. Waits(d) /\ d.order \in Orders
      BY <1>1, <2>1, <2>2, Kinded DEF RInv, Fresh, AfootHasSeen, Afoot
    <3> QED BY <1>2, <1>8, <1>10, <3>1 DEF Waits
  <2>3. CASE d \notin wire \ {c}
    <3>1. d.kind = c.kind /\ d.order = c.order /\ d.key = c.key /\ d.saw = c.saw
      BY <1>4, <2>3
    <3>2. Waits(c)
      <4>1. Handled(c) = {}
        BY <2>1, <3>1, HandledTogether
      <4> QED BY <2>1, <3>1, <4>1 DEF RInv, Fresh, AfootHasSeen, Afoot
    <3>3. ~d.here => InDoubt(d.order)'
      <4> SUFFICES ASSUME ~d.here PROVE InDoubt(d.order)'
        OBVIOUS
      <4>1. Telling(e, d.order)
        BY <1>4, <2>1, <2>3, <3>1 DEF Telling
      <4>2. Telling(e, d.order)'
        BY <4>1 DEF Telling
      <4> QED BY <1>4, <4>2 DEF InDoubt
    <3> QED BY <1>1, <1>2, <1>8, <3>1, <3>2, <3>3 DEF Waits
  <2> QED BY <2>2, <2>3
<1>13. ScreenIsFresh'
  BY <1>1, <1>2, <1>7, <1>8, <1>9, Kinded DEF RInv, Fresh, ScreenIsFresh
<1>14. ReadingsAreFresh'
  <2> SUFFICES ASSUME Clean, NEW d \in wire', Answered(d)' PROVE Current(d)'
    BY <1>7 DEF ReadingsAreFresh
  <2>1. d \in wire /\ Answered(d) /\ d.order \in Orders
    BY <1>1, <1>4, Kinded DEF Answered
  <2>2. Current(d)
    BY <2>1 DEF RInv, Fresh, ReadingsAreFresh
  <2> QED BY <1>2, <1>8, <1>9, <2>1, <2>2 DEF Current
<1> QED BY <1>2, <1>5, <1>6, <1>11, <1>12, <1>13, <1>14 DEF RInv, Fresh, NoBlindRefund

(* A page opens, or loads again. *)
LEMMA PagesFresh ==
    ASSUME IInv, RInv, Reload \/ \E o \in Orders : Open(o)
    PROVE  RInv'
<1>1. TypeOK /\ OneBusy /\ Away /\ Books /\ Fresh /\ wire \subseteq Call
  BY DEF IInv, RInv, TypeOK
<1>2. \A o : \E d : Calling("show", o, 0, turns + 1) = d /\ d.kind = "show" /\ d.here = TRUE /\ d.status = "sent"
  <2> SUFFICES ASSUME NEW o
               PROVE  LET d == Calling("show", o, 0, turns + 1)
                      IN  d.kind = "show" /\ d.here = TRUE /\ d.status = "sent"
    OBVIOUS
  <2> QED BY DEF Calling
<1>3. ASSUME NEW o \in Orders, Open(o) PROVE RInv'
  <2>1. PICK d : wire' = wire \cup {d} /\ d.kind = "show" /\ d.here = TRUE /\ d.status = "sent"
    BY <1>2, <1>3 DEF Open
  <2>2. UNCHANGED <<payment, key, minted, record, refunded, undecided, seen, blind, tangled>>
    BY <1>3 DEF Open, keys, server, past
  <2>3. OneBusy' /\ Away'
    BY <1>1, <2>1 DEF OneBusy, Away, Busy, Ops
  <2>4. Books'
    BY <1>1, <2>1, <2>2, BooksKept DEF Outcomes
  <2>5. Fresh'
    BY <1>1, <2>1, <2>2, Steady
  <2> QED BY <2>2, <2>3, <2>4, <2>5 DEF RInv, NoBlindRefund
<1>4. ASSUME Reload PROVE RInv'
  <2>1. PICK d : wire' = Orphans(wire) \cup {d} /\ d.kind = "show" /\ d.here = TRUE /\ d.status = "sent"
    BY <1>2, <1>4 DEF Reload
  <2>2. UNCHANGED <<minted, record>> /\ "reloaded" \in tangled'
    BY <1>4 DEF Reload, server
  <2>3. \A f \in Orphans(wire) : /\ f.here = FALSE /\ f.status = "sent" /\ f.kind \in Ops /\ f.key # 0
    <3>1. ASSUME NEW c \in wire, c.kind \in Ops, c.status = "sent", NEW f, f = [c EXCEPT !.here = FALSE]
          PROVE  f.here = FALSE /\ f.status = "sent" /\ f.kind \in Ops /\ f.key # 0
      BY <1>1, <3>1 DEF Call, Away
    <3> QED BY <3>1 DEF Orphans
  <2>4. OneBusy' /\ Away'
    BY <2>1, <2>3 DEF OneBusy, Away, Busy, Ops
  <2>5. Books'
    BY <1>1, <2>1, <2>2, <2>3, BooksKept DEF Outcomes
  <2>6. Fresh' /\ NoBlindRefund'
    BY <2>2 DEF Fresh, HeardOrInDoubt, AfootHasSeen, ScreenIsFresh, ReadingsAreFresh, NoBlindRefund, Clean
  <2> QED BY <2>4, <2>5, <2>6 DEF RInv
<1> QED BY <1>3, <1>4

(* A press, when no read is due: whoever presses under a new key sees all there is. *)
LEMMA PressFresh ==
    ASSUME IInv, RInv, PressRefund \/ PressPay
    PROVE  RInv'
<1>1. /\ TypeOK /\ KeysOK /\ OneBusy /\ Away /\ Books /\ Fresh /\ minted \in Nat
      /\ \A c \in wire : ~c.here
  BY TypesTogether, Kinded DEF IInv, RInv, PressRefund, PressPay, Live
<1>2. UNCHANGED <<payment, record, refunded, undecided, seen, blind, tangled>>
  BY DEF PressRefund, PressPay, screen, server, past
<1>3. ASSUME NEW d, wire' = wire \cup {d}, d.here = TRUE, d.status = "sent", d.kind \in Ops => d.key # 0
      PROVE  OneBusy' /\ Away'
  <2>1. \A f \in wire : ~Busy(f)
    BY <1>1 DEF Busy
  <2>2. Away'
    BY <1>1, <1>3 DEF Away
  <2> QED BY <1>3, <2>1, <2>2 DEF OneBusy, Busy
<1>4. CASE PressPay
  <2>1. PICK d : wire' = wire \cup {d} /\ d.kind = "intent" /\ d.here = TRUE /\ d.status = "sent"
    <3> DEFINE d == Calling("intent", page, 0, turns)
    <3>1. wire' = wire \cup {d} /\ d.kind = "intent" /\ d.here = TRUE /\ d.status = "sent"
      BY <1>4 DEF PressPay, Calling
    <3> HIDE DEF d
    <3> QED BY <3>1
  <2>2. UNCHANGED <<key, minted>>
    BY <1>4 DEF PressPay, keys
  <2>3. OneBusy' /\ Away'
    BY <1>3, <2>1 DEF Ops
  <2>4. Books'
    BY <1>1, <1>2, <2>1, <2>2, BooksKept DEF Outcomes
  <2>5. Fresh'
    BY <1>1, <1>2, <2>1, <2>2, Steady
  <2> QED BY <1>2, <2>3, <2>4, <2>5 DEF RInv, NoBlindRefund
<1>5. CASE PressRefund
  <2>1. payment.order \in Orders /\ "refund" \in Ops
    BY <1>1, <1>5, Kinded DEF PressRefund, Ops
  <2>2. PICK o \in Orders : o = payment.order
    BY <2>1
  <2>3. /\ KeysOK' /\ minted' \in {minted, minted + 1}
        /\ key'["refund"][o] # 0
        /\ key' = key \/ (key["refund"][o] = 0 /\ key' = [key EXCEPT !["refund"][o] = minted + 1])
    <3>1. WithKey("refund", o) /\ UNCHANGED undecided
      BY <1>2, <1>5, <2>2 DEF PressRefund
    <3> QED BY <1>1, <2>1, <3>1, KeysMinted
  <2>4. PICK d : /\ wire' = wire \cup {d} /\ d.kind = "refund" /\ d.order = o /\ d.key = KeyOf(o)'
                 /\ d.saw = payment.refunded /\ d.here = TRUE /\ d.status = "sent"
    <3> DEFINE d == Calling("refund", o, key'["refund"][o], turns)
    <3>1. wire' = wire \cup {d}
      BY <1>5, <2>2 DEF PressRefund
    <3>2. /\ d.kind = "refund" /\ d.order = o /\ d.key = key'["refund"][o]
          /\ d.saw = payment.refunded /\ d.here = TRUE /\ d.status = "sent"
      BY DEF Calling
    <3> HIDE DEF d
    <3> QED BY <3>1, <3>2 DEF KeyOf
  <2>5. OneBusy' /\ Away'
    BY <1>3, <2>3, <2>4 DEF KeyOf
  <2>6. Books'
    BY <1>1, <1>2, <2>3, <2>4, BooksKept DEF Outcomes
  <2>7. \A q \in Orders : KeyOf(q)' = KeyOf(q) \/ (q = o /\ KeyOf(o) = 0 /\ KeyOf(o)' = minted + 1)
    BY <1>1, <2>1, <2>3 DEF KeyOf, KeysOK
  <2>8. \A r \in record : r.key # 0 /\ r.key # minted + 1
    <3>1. \A r \in record : r.key \in Nat /\ r.key # 0 /\ r.key <= minted
      BY <1>1 DEF Books, TypeOK, Outcome
    <3> QED BY <1>1, <3>1
  <2>9. \A q \in Orders : (OnRecord(q)' <=> OnRecord(q)) /\ (MayHaveRun(q)' <=> MayHaveRun(q))
    BY <1>2, <2>7, <2>8 DEF OnRecord, MayHaveRun, Holds
  <2>10. \A q \in Orders : (BeingRead(q) => BeingRead(q)') /\ ~BeingRead(q)
    BY <1>1 DEF BeingRead
  <2>11. Clean' <=> Clean
    BY <1>2 DEF Clean
  <2>12. \A q \in Orders : InDoubt(q) => KeyOf(q)' = KeyOf(q) \/ undecided["refund"][q] = 0
    BY <1>1, <2>7 DEF InDoubt, Telling
  <2>13. \A q \in Orders : InDoubt(q) /\ KeyOf(q) # 0 => InDoubt(q)'
    BY <1>2, <2>4, <2>7 DEF InDoubt, Telling
  <2>14. HeardOrInDoubt'
    <3>1. \A q \in Orders : OnRecord(q) => KeyOf(q) # 0
      BY <2>8 DEF OnRecord, Holds
    <3> QED BY <1>1, <2>9, <2>11, <2>13, <3>1 DEF Fresh, HeardOrInDoubt
  <2>15. AfootHasSeen'
    <3> SUFFICES ASSUME Clean, NEW f \in wire', Afoot(f)' PROVE Waits(f)'
      BY <2>11 DEF AfootHasSeen
    <3>1. f.kind = "refund" /\ Handled(f) = {}
      BY <1>2 DEF Afoot, Handled
    <3>2. CASE f \in wire
      <4>1. Waits(f) /\ f.order \in Orders /\ f.key # 0
        BY <1>1, <2>1, <3>1, <3>2, Kinded DEF Fresh, AfootHasSeen, Afoot, Away
      <4> QED BY <1>2, <2>7, <2>13, <4>1 DEF Waits
    <3>3. CASE f = d
      <4>1. ~MayHaveRun(o)
        <5>1. ~OnRecord(o)'
          BY <1>2, <2>4, <3>1, <3>3 DEF OnRecord, Holds, Handled
        <5> QED BY <2>9, <5>1 DEF OnRecord, MayHaveRun
      <4>2. refunded[o] <= payment.refunded
        BY <1>1, <2>2, <2>10, <4>1, NoneIsNoOrder DEF Fresh, ScreenIsFresh
      <4> QED BY <1>2, <2>4, <3>3, <4>2 DEF Waits
    <3> QED BY <2>4, <3>2, <3>3
  <2>16. ScreenIsFresh'
    BY <1>1, <1>2, <2>2, <2>9, <2>10, <2>11 DEF Fresh, ScreenIsFresh
  <2>17. ReadingsAreFresh'
    <3> SUFFICES ASSUME Clean, NEW f \in wire', Answered(f)' PROVE Current(f)'
      BY <2>11 DEF ReadingsAreFresh
    <3>1. f = d
      BY <1>1, <2>4 DEF Answered
    <3> QED BY <2>4, <3>1 DEF Answered
  <2> QED BY <1>2, <2>5, <2>6, <2>14, <2>15, <2>16, <2>17 DEF RInv, Fresh, NoBlindRefund
<1> QED BY <1>4, <1>5

(* The wire after the last of a call and the reads that follow it. *)
LEMMA FollowedFits ==
    ASSUME TypeOK, OneBusy, Away, NEW c \in wire, NEW kinds \in {{}, {"totals"}, {"again"}}, FollowedBy(c, kinds),
           kinds # {} => Busy(c)
    PROVE  OneBusy' /\ Away'
<1>1. kinds \in SUBSET {"totals", "again"}
  OBVIOUS
<1> DEFINE e(kind) == [Calling(kind, c.order, 0, c.at) EXCEPT !.saw = c.saw]
<1>2. wire' = (wire \ {c}) \cup {e(kind) : kind \in kinds}
  BY DEF FollowedBy
<1>3. \A kind : e(kind).kind = kind /\ e(kind).here = TRUE
  BY DEF Calling
<1> HIDE DEF e
<1>4. CASE kinds = {}
  BY <1>2, <1>4 DEF OneBusy, Away, Busy
<1>5. ASSUME NEW kind \in {"totals", "again"}, kinds = {kind} PROVE OneBusy' /\ Away'
  <2>1. Fitting(e(kind)) /\ (Busy(e(kind)) => Busy(c))
    BY <1>3, <1>5 DEF Fitting, Ops
  <2>2. \A d \in wire' : d \in wire \ {c} \/ d = e(kind)
    BY <1>2, <1>5
  <2> QED BY <2>1, <2>2, OneMoves
<1> QED BY <1>4, <1>5

LEMMA FollowedBooks ==
    ASSUME TypeOK, Books, NEW c \in wire, NEW kinds \in SUBSET {"totals", "again"}, FollowedBy(c, kinds),
           UNCHANGED <<record, minted>>
    PROVE  Books'
<1>1. \A d \in wire' : d \in wire \/ d.status \notin Outcomes \/ d.kind \notin Ops
  BY Followers DEF Outcomes
<1> QED BY <1>1, BooksKept

LEMMA FewReads == \A verdict : \A kinds \in Rereads(verdict) : kinds \in {{}, {"totals"}, {"again"}}
BY DEF Rereads

(* A read lands, or fails. *)
LEMMA ReadFresh ==
    ASSUME IInv, RInv, NEW c \in wire, ReadLands(c) \/ ReadFails(c)
    PROVE  RInv'
<1>1. TypeOK /\ OneBusy /\ Away /\ Books /\ Fresh
  BY DEF IInv, RInv
<1>2. UNCHANGED <<key, minted, record, refunded, undecided, blind>> /\ c.here
      /\ c.kind \in {"show", "totals", "again"}
  BY DEF ReadLands, ReadFails, keys, server, past, Lands
<1>3. PICK kinds \in {{}, {"again"}} :
         /\ FollowedBy(c, kinds)
         /\ kinds # {} => c.kind = "totals"
  BY DEF ReadLands, ReadFails
<1>4. OneBusy' /\ Away' /\ Books'
  <2>1. kinds # {} => Busy(c)
    BY <1>2, <1>3 DEF Busy
  <2>2. kinds \in SUBSET {"totals", "again"} /\ kinds \in {{}, {"totals"}, {"again"}}
    OBVIOUS
  <2> QED BY <1>1, <1>2, <1>3, <2>1, <2>2, FollowedFits, FollowedBooks
<1>5. tangled \subseteq tangled'
  <2>1. c \in Call /\ seen \in [Orders -> Nat]
    BY <1>1 DEF TypeOK
  <2> QED BY <2>1, ShownPayment DEF ReadLands, ReadFails
<1>6. Fresh'
  <2>1. CASE ReadLands(c)
    <3>1. Answered(c) /\ Shows(c) /\ wire' = wire \ {c}
      BY <1>2, <2>1 DEF ReadLands, Answered, FollowedBy
    <3> QED BY <1>1, <1>2, <3>1, Landing
  <2>2. CASE ReadFails(c)
    <3>1. CASE c.kind = "show"
      <4>1. wire' = wire \ {c} /\ UNCHANGED <<payment, seen>>
        BY <2>2, <3>1 DEF ReadFails, FollowedBy, screen, past
      <4> QED BY <1>1, <1>2, <1>5, <3>1, <4>1, Steady
    <3>2. CASE c.kind # "show"
      <4>1. ~Clean'
        BY <2>2, <3>2 DEF ReadFails, Clean
      <4> QED BY <4>1 DEF Fresh, HeardOrInDoubt, AfootHasSeen, ScreenIsFresh, ReadingsAreFresh
    <3> QED BY <3>1, <3>2
  <2> QED BY <2>1, <2>2
<1>7. NoBlindRefund'
  BY <1>2, <1>5 DEF RInv, NoBlindRefund
<1> QED BY <1>4, <1>6, <1>7 DEF RInv

(* The intent comes back. *)
LEMMA IntentFresh ==
    ASSUME IInv, RInv, NEW c \in wire, IntentLands(c)
    PROVE  RInv'
<1>1. TypeOK /\ KeysOK /\ OneBusy /\ Away /\ Books /\ Fresh /\ c.order \in Orders /\ "confirm" \in Ops
  BY TypesTogether, Kinded DEF IInv, RInv, Ops
<1>2. /\ UNCHANGED <<payment, record, refunded, undecided, seen, blind>> /\ c.here /\ c.kind = "intent"
      /\ Busy(c) /\ tangled \subseteq tangled'
  BY DEF IntentLands, Lands, screen, server, past, Busy
<1>3. CASE c.status = "read"
  <2>1. /\ KeysOK' /\ minted' \in {minted, minted + 1}
        /\ key'["confirm"][c.order] # 0
        /\ key' = key \/ (key["confirm"][c.order] = 0 /\ key' = [key EXCEPT !["confirm"][c.order] = minted + 1])
    <3>1. WithKey("confirm", c.order) /\ UNCHANGED undecided
      BY <1>2, <1>3 DEF IntentLands
    <3> QED BY <1>1, <3>1, KeysMinted
  <2>2. \E e : /\ wire' = (wire \ {c}) \cup {e} /\ e.kind = "confirm" /\ e.key = key'["confirm"][c.order]
               /\ e.here = TRUE /\ e.status = "sent"
    <3> DEFINE d == Calling("confirm", c.order, key'["confirm"][c.order], c.at)
               e == [d EXCEPT !.saw = c.saw]
    <3>1. /\ e.kind = "confirm" /\ e.key = key'["confirm"][c.order] /\ e.here = TRUE /\ e.status = "sent"
      BY DEF Calling
    <3>2. wire' = (wire \ {c}) \cup {e}
      BY <1>3 DEF IntentLands
    <3> HIDE DEF e
    <3> QED BY <3>1, <3>2
  <2>3. PICK e : /\ wire' = (wire \ {c}) \cup {e} /\ e.kind = "confirm" /\ e.key = key'["confirm"][c.order]
                 /\ e.here = TRUE /\ e.status = "sent"
    BY <2>2
  <2>4. OneBusy' /\ Away'
    <3>1. Fitting(e)
      BY <2>1, <2>3 DEF Fitting
    <3> QED BY <1>1, <1>2, <2>3, <3>1, OneMoves
  <2>5. Books'
    BY <1>1, <1>2, <2>1, <2>3, BooksKept DEF Outcomes
  <2>6. \A o \in Orders : key'["refund"][o] = key["refund"][o]
    BY <1>1, <2>1 DEF KeysOK, Ops
  <2>7. Fresh'
    BY <1>1, <1>2, <2>3, <2>6, Steady
  <2> QED BY <1>2, <2>4, <2>5, <2>7 DEF RInv, NoBlindRefund
<1>4. CASE c.status # "read"
  <2>1. Settle("confirm", c.order, c.status) /\ UNCHANGED minted
    BY <1>4 DEF IntentLands
  <2>2. PICK kinds \in {{}, {"totals"}, {"again"}} : kinds \in SUBSET {"totals", "again"} /\ FollowedBy(c, kinds)
    BY <1>4, FewReads DEF IntentLands
  <2>3. OneBusy' /\ Away' /\ Books'
    BY <1>1, <1>2, <2>1, <2>2, FollowedFits, FollowedBooks
  <2>4. \A o \in Orders : key'["refund"][o] = key["refund"][o]
    BY <1>1, <2>1, KeysSettled DEF Ops
  <2>5. Fresh'
    <3>1. \A d \in wire : d.kind \in {"refund", "totals", "again"} => d \in wire'
      BY <1>1, <1>2, <2>2, Followers
    <3>2. \A d \in wire' : d \in wire \/ (d.here /\ d.status = "sent" /\ d.kind # "refund")
      BY <1>1, <2>2, Followers
    <3> QED BY <1>1, <1>2, <2>4, <3>1, <3>2, Steady
  <2> QED BY <1>2, <2>3, <2>5 DEF RInv, NoBlindRefund
<1> QED BY <1>3, <1>4

(* A press comes back. *)
LEMMA ReturnsFresh ==
    ASSUME IInv, RInv, NEW c \in wire, Succeeds(c) \/ Fails(c)
    PROVE  RInv'
<1>1. /\ TypeOK /\ KeysOK /\ OneBusy /\ Away /\ Books /\ Fresh /\ c.order \in Orders /\ c \in Call
      /\ seen \in [Orders -> Nat]
  BY TypesTogether, Kinded DEF IInv, RInv, TypeOK
<1>2. /\ UNCHANGED <<minted, record, refunded, blind>> /\ c.here /\ c.kind \in Ops /\ Busy(c)
  BY DEF Succeeds, Fails, Lands, server, Busy, Ops
<1>3. tangled \subseteq tangled'
  BY <1>1, ShownPayment DEF Succeeds, Fails
<1>4. PICK kinds \in {{}, {"totals"}, {"again"}} : kinds \in SUBSET {"totals", "again"} /\ FollowedBy(c, kinds)
  BY FewReads DEF Succeeds, Fails
<1>5. OneBusy' /\ Away' /\ Books'
  BY <1>1, <1>2, <1>4, FollowedFits, FollowedBooks
<1>6. Fresh'
  <2>1. CASE c.kind = "refund"
    BY <2>1, RefundReturns
  <2>2. CASE c.kind = "confirm"
    <3>1. \A o \in Orders : key'["refund"][o] = key["refund"][o] /\ undecided'["refund"][o] = undecided["refund"][o]
      <4>1. PICK verdict : Settle("confirm", c.order, verdict)
        BY <2>2 DEF Succeeds, Fails
      <4>2. \A o \in Orders : key'["refund"][o] = key["refund"][o]
        BY <1>1, <1>2, <4>1, KeysSettled DEF Ops
      <4>3. \A o \in Orders : undecided'["refund"][o] = undecided["refund"][o]
        BY <1>1, <2>2 DEF Succeeds, Fails, Decides, KeysOK, Ops
      <4> QED BY <4>2, <4>3
    <3>2. CASE Succeeds(c)
      <4>1. Answered(c) /\ Shows(c) /\ wire' = wire \ {c}
        BY <1>2, <2>2, <3>2 DEF Succeeds, Answered, FollowedBy
      <4> QED BY <1>1, <1>2, <3>1, <4>1, Landing
    <3>3. CASE Fails(c)
      <4>1. UNCHANGED <<payment, seen>>
        BY <3>3 DEF Fails, screen
      <4>2. \A d \in wire : d.kind \in {"refund", "totals", "again"} => d \in wire'
        BY <1>1, <1>4, <2>2, Followers
      <4>3. \A d \in wire' : d \in wire \/ (d.here /\ d.status = "sent" /\ d.kind # "refund")
        BY <1>1, <1>4, Followers
      <4> QED BY <1>1, <1>2, <1>3, <3>1, <4>1, <4>2, <4>3, Steady
    <3> QED BY <3>2, <3>3
  <2> QED BY <1>2, <2>1, <2>2 DEF Ops
<1> QED BY <1>2, <1>3, <1>5, <1>6 DEF RInv, NoBlindRefund

LEMMA InitRInv == Init => RInv
<1> SUFFICES ASSUME Init PROVE RInv
  OBVIOUS
<1>1. wire = {} /\ record = {} /\ payment.order = None /\ blind = {}
  BY DEF Init, NoPayment
<1>2. Fresh
  BY <1>1 DEF Fresh, HeardOrInDoubt, OnRecord, AfootHasSeen, ScreenIsFresh, ReadingsAreFresh
<1> QED BY <1>1, <1>2 DEF RInv, OneBusy, Away, Books, NoBlindRefund

LEMMA StepRInv == IInv /\ RInv /\ [Next]_vars => RInv'
<1> SUFFICES ASSUME IInv, RInv, [Next]_vars PROVE RInv'
  OBVIOUS
<1>1. CASE Reload \/ \E o \in Orders : Open(o)
  BY <1>1, PagesFresh
<1>2. CASE PressRefund \/ PressPay
  BY <1>2, PressFresh
<1>3. ASSUME NEW c \in wire,
             \/ \E answer \in {"done", "fault"} : Executes(c, answer)
             \/ \E answer \in {"refused", "fault"} : Refuses(c, answer)
             \/ \E status \in Statuses : Meets(c, status)
      PROVE  RInv'
  BY <1>3, ServerFresh
<1>4. ASSUME NEW c \in wire, Loses(c) \/ Proves(c) \/ Dismisses(c) PROVE RInv'
  BY <1>4, NetworkFresh
<1>5. ASSUME NEW c \in wire, ReadLands(c) \/ ReadFails(c) PROVE RInv'
  BY <1>5, ReadFresh
<1>6. ASSUME NEW c \in wire, IntentLands(c) PROVE RInv'
  BY <1>6, IntentFresh
<1>7. ASSUME NEW c \in wire, Succeeds(c) \/ Fails(c) PROVE RInv'
  BY <1>7, ReturnsFresh
<1>8. CASE UNCHANGED vars
  <2>1. UNCHANGED <<payment, key, minted, wire, refunded, record, undecided, blind, seen, tangled>>
    BY <1>8 DEF vars, screen, keys, server, past
  <2>2. OneBusy' /\ Away'
    BY <2>1 DEF RInv, OneBusy, Busy, Away
  <2>3. Books'
    BY <2>1, BooksKept DEF RInv, IInv
  <2>4. Fresh'
    BY <2>1, Steady DEF RInv, IInv
  <2> QED BY <2>1, <2>2, <2>3, <2>4 DEF RInv, NoBlindRefund
<1> QED BY <1>1, <1>2, <1>3, <1>4, <1>5, <1>6, <1>7, <1>8 DEF Next

(* modules/payments/store.ts keeps a key while in doubt and reads the payment again after a     *)
(* refund and after a fault: no refund is made by a press that had not seen all the earlier      *)
(* ones, whatever is lost, repeated or answered late, unless one of the named mix-ups happened.  *)
THEOREM NoRefundIsBlind == Spec => []NoBlindRefund
<1>1. RInv => NoBlindRefund
  BY DEF RInv
<1> QED BY InitIInv, StepIInv, InitRInv, StepRInv, <1>1, PTL DEF Spec
=============================================================================
