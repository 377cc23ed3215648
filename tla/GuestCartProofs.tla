-------------------------- MODULE GuestCartProofs --------------------------
(***************************************************************************)
(* What GuestCart guarantees for any number of products, persons and       *)
(* visits: its values keep their kinds, a merge's key never travels with   *)
(* two lists, and no unit is lost or merged twice, but through the causes  *)
(* the properties name.                                                    *)
(***************************************************************************)
EXTENDS GuestCart, TLAPS

(* Whatever carries a key carries one list under it, and no key is ahead of the mint. *)
OneBody ==
    /\ KeyMeansOneBody
    /\ \A c \in wire \cup record : c.key <= minted
    /\ attempt # NoAttempt =>
          /\ attempt.key <= minted
          /\ \A c \in wire \cup record : c.key = attempt.key => c.lines = attempt.lines

IInv == TypeOK /\ OneBody

-----------------------------------------------------------------------------
(* Lists *)

LEMMA EmptyIsAList == Empty \in Lines /\ Empty \in [Products -> Nat]
BY BoundsNat DEF Empty, Lines

LEMMA NoAttemptIsOne == NoAttempt \in Attempts
BY EmptyIsAList DEF NoAttempt, Attempts

(* Subtracting leaves a list. *)
LEMMA Subtracted ==
    ASSUME NEW list \in Lines, NEW sent \in Lines
    PROVE  subtractGuestLines(list, sent) \in Lines
<1>1. ASSUME NEW p \in Products
      PROVE  (IF list[p] > sent[p] THEN list[p] - sent[p] ELSE 0) \in 0 .. LineCap
  <2>1. list[p] \in 0 .. LineCap /\ sent[p] \in 0 .. LineCap /\ LineCap \in Nat
    BY BoundsNat DEF Lines
  <2> QED BY <2>1
<1> QED BY <1>1 DEF subtractGuestLines, Lines

LEMMA Added ==
    ASSUME NEW a \in [Products -> Nat], NEW b \in [Products -> Nat]
    PROVE  Plus(a, b) \in [Products -> Nat]
BY DEF Plus

LEMMA ListsCount == Lines \subseteq [Products -> Nat]
BY BoundsNat DEF Lines

-----------------------------------------------------------------------------
(* What may happen to what carries a key *)

(* d carries what something carried before, or what the attempt stands for from now on. *)
Carries(d) == \/ \E c \in wire \cup record : d.key = c.key /\ d.lines = c.lines
              \/ attempt' # NoAttempt /\ d.key = attempt'.key /\ d.lines = attempt'.lines

(* The attempt stays, ends, or gets a new key. *)
AttemptMoves == \/ attempt' \in {attempt, NoAttempt} /\ minted' = minted
                \/ attempt'.key = minted + 1 /\ minted' = minted + 1

LEMMA BodiesKept ==
    ASSUME IInv, AttemptMoves, \A d \in wire' \cup record' : Carries(d)
    PROVE  OneBody'
<1>1. /\ minted \in Nat /\ attempt \in Attempts
      /\ \A c \in wire \cup record : c.key \in Nat /\ c.key <= minted
  BY DEF IInv, OneBody, TypeOK, Call, Outcome
<1>2. attempt' # NoAttempt =>
          /\ attempt'.key <= minted'
          /\ \A c \in wire \cup record : c.key = attempt'.key => c.lines = attempt'.lines
  <2>1. CASE attempt' = attempt /\ minted' = minted
    BY <2>1 DEF IInv, OneBody
  <2>2. CASE attempt'.key = minted + 1 /\ minted' = minted + 1
    <3>1. \A c \in wire \cup record : c.key # minted + 1
      BY <1>1
    <3> QED BY <1>1, <2>2, <3>1
  <2> QED BY <2>1, <2>2 DEF AttemptMoves
<1>3. \A d \in wire' \cup record' : attempt' # NoAttempt => (d.key = attempt'.key => d.lines = attempt'.lines)
  BY <1>2 DEF Carries
<1>4. \A d \in wire' \cup record' : d.key <= minted'
  <2>1. \A c \in wire \cup record : c.key <= minted'
    BY <1>1 DEF AttemptMoves
  <2> QED BY <1>2, <2>1 DEF Carries
<1>5. \A d, e \in wire' \cup record' : d.key = e.key => d.lines = e.lines
  <2> SUFFICES ASSUME NEW d \in wire' \cup record', NEW e \in wire' \cup record', d.key = e.key
               PROVE  d.lines = e.lines
    OBVIOUS
  <2>1. CASE attempt' # NoAttempt /\ d.key = attempt'.key
    BY <1>3, <2>1
  <2>2. ASSUME NEW c \in wire \cup record, d.key = c.key, d.lines = c.lines,
               NEW b \in wire \cup record, e.key = b.key, e.lines = b.lines
        PROVE  d.lines = e.lines
    BY <2>2 DEF IInv, OneBody, KeyMeansOneBody
  <2> QED BY <2>1, <2>2 DEF Carries
<1> QED BY <1>2, <1>3, <1>4, <1>5 DEF OneBody, KeyMeansOneBody

-----------------------------------------------------------------------------
(* Calls *)

LEMMA Handing ==
    ASSUME TypeOK, NEW from, NEW to \in {"current", "earlier", "gone"}
    PROVE  /\ Handed(from, to) \subseteq Call
           /\ \A d \in Handed(from, to) : \E c \in wire : d.key = c.key /\ d.lines = c.lines
<1> SUFFICES ASSUME NEW d \in Handed(from, to)
             PROVE  d \in Call /\ \E c \in wire : d.key = c.key /\ d.lines = c.lines
  OBVIOUS
<1>1. PICK c \in wire : d = IF c.caller \in from THEN [c EXCEPT !.caller = to] ELSE c
  BY DEF Handed
<1>2. c \in Call
  BY DEF TypeOK
<1>3. d \in Call /\ d.key = c.key /\ d.lines = c.lines
  BY <1>1, <1>2 DEF Call
<1> QED BY <1>3

LEMMA SentIsACall ==
    ASSUME NEW key \in Nat, NEW list \in Lines, NEW person \in Persons \cup {Nobody},
           NEW replay \in BOOLEAN, NEW caller \in {"current", "earlier", "gone"},
           NEW d, d = Sent(key, list, person, replay, caller)
    PROVE  d \in Call /\ d.key = key /\ d.lines = list
BY DEF Sent, Call

LEMMA FreshKey ==
    ASSUME TypeOK, NEW list \in Lines, FreshKeyFor(list)
    PROVE  /\ minted' = minted + 1 /\ minted' \in Nat /\ attempt' \in Attempts
           /\ attempt'.key = minted + 1 /\ attempt'.lines = list /\ attempt' # NoAttempt
<1>1. minted \in Nat /\ minted' = minted + 1 /\ attempt' = [key |-> minted + 1, lines |-> list]
  BY DEF TypeOK, FreshKeyFor
<1>2. attempt'.key = minted + 1 /\ attempt'.lines = list /\ attempt'.key # 0
  BY <1>1
<1>3. NoAttempt.key = 0
  BY DEF NoAttempt
<1> QED BY <1>1, <1>2, <1>3 DEF Attempts

(* What a session that appears sends. *)
LEMMA Seeded ==
    ASSUME IInv, NEW person \in Persons \cup {Nobody}, NEW calls \in SUBSET Call,
           \A d \in calls : \E c \in wire : d.key = c.key /\ d.lines = c.lines,
           seedAfterSignIn(person, calls)
    PROVE  /\ minted' \in Nat /\ attempt' \in Attempts /\ AttemptMoves
           /\ wire' \subseteq Call /\ tangled' \subseteq Mixups
           /\ \A d \in wire' : Carries(d)
<1>1. TypeOK /\ minted \in Nat /\ attempt \in Attempts /\ lines \in Lines /\ tangled \subseteq Mixups
  BY DEF IInv, TypeOK
<1>2. \A d \in calls : Carries(d)
  BY DEF Carries
<1>3. CASE wire' = calls /\ UNCHANGED <<attempt, minted, tangled>>
  BY <1>1, <1>2, <1>3 DEF AttemptMoves
<1>4. ASSUME NEW list \in Lines, NEW replay \in BOOLEAN, Send(list, person, replay, calls),
             attempt' # NoAttempt, attempt' \in Attempts, attempt'.lines = list,
             minted' \in Nat, AttemptMoves
      PROVE  /\ minted' \in Nat /\ attempt' \in Attempts /\ AttemptMoves
             /\ wire' \subseteq Call /\ tangled' \subseteq Mixups
             /\ \A d \in wire' : Carries(d)
  <2> DEFINE new == Sent(attempt'.key, list, person, replay, "current")
  <2>1. attempt'.key \in Nat
    BY <1>4 DEF Attempts
  <2>2. new \in Call /\ new.key = attempt'.key /\ new.lines = list
    <3>1. new = Sent(attempt'.key, list, person, replay, "current")
      OBVIOUS
    <3> HIDE DEF new
    <3>2. "current" \in {"current", "earlier", "gone"}
      OBVIOUS
    <3> QED BY <2>1, <3>1, <3>2, SentIsACall
  <2>3. wire' = calls \cup {new}
    BY <1>4 DEF Send
  <2>4. tangled' \subseteq Mixups
    BY <1>1, <1>4 DEF Send, Mixups
  <2> HIDE DEF new
  <2>5. Carries(new)
    BY <1>4, <2>2 DEF Carries
  <2> QED BY <1>2, <1>4, <2>2, <2>3, <2>4, <2>5
<1>5. CASE LostMergeToReplay /\ ReplayLost(person, calls)
  <2>1. attempt' = attempt /\ minted' = minted /\ attempt # NoAttempt /\ Send(attempt.lines, person, TRUE, calls)
    BY <1>5 DEF LostMergeToReplay, ReplayLost
  <2>2. attempt.lines \in Lines
    BY <1>1 DEF Attempts
  <2> QED BY <1>1, <1>4, <2>1, <2>2 DEF AttemptMoves
<1>6. CASE mergeKeyFor(lines) /\ Send(lines, person, FALSE, calls)
  <2>1. CASE attempt # NoAttempt /\ attempt.lines = lines /\ UNCHANGED <<attempt, minted>>
    BY <1>1, <1>4, <1>6, <2>1 DEF AttemptMoves
  <2>2. CASE FreshKeyFor(lines)
    <3>1. /\ minted' = minted + 1 /\ minted' \in Nat /\ attempt' \in Attempts
          /\ attempt'.key = minted + 1 /\ attempt'.lines = lines /\ attempt' # NoAttempt
      BY <1>1, <2>2, FreshKey
    <3> QED BY <1>1, <1>4, <1>6, <3>1 DEF AttemptMoves
  <2> QED BY <1>6, <2>1, <2>2 DEF mergeKeyFor
<1> QED BY <1>3, <1>5, <1>6 DEF seedAfterSignIn, mergeGuestCart

-----------------------------------------------------------------------------
(* The actions *)

LEMMA EditStep ==
    ASSUME IInv,
           \/ \E p \in Products : addGuestItem(p) \/ updateGuestItem(p)
           \/ \E S \in SUBSET Products : removeGuestItems(S)
    PROVE  IInv'
<1>1. TypeOK /\ lines \in Lines /\ lines \in [Products -> Nat] /\ LineCap \in Nat
      /\ added \in [Products -> Nat] /\ given \in [Products -> Nat]
  BY ListsCount, BoundsNat DEF IInv, TypeOK
<1>2. UNCHANGED <<attempt, viewer, minted, wire, record, visits, barrier, merged, tangled>>
  BY DEF addGuestItem, updateGuestItem, removeGuestItems, Edit
<1>3. lines' \in Lines /\ added' \in [Products -> Nat] /\ given' \in [Products -> Nat]
  <2>1. ASSUME NEW p \in Products, addGuestItem(p)
        PROVE  lines' \in Lines /\ added' \in [Products -> Nat] /\ given' \in [Products -> Nat]
    <3>1. lines[p] \in 0 .. LineCap /\ lines[p] + 1 \in 0 .. LineCap
      BY <1>1, <2>1 DEF addGuestItem, Lines
    <3> QED BY <1>1, <2>1, <3>1 DEF addGuestItem, Edit, Lines
  <2>2. ASSUME NEW p \in Products, updateGuestItem(p)
        PROVE  lines' \in Lines /\ added' \in [Products -> Nat] /\ given' \in [Products -> Nat]
    <3>1. lines[p] \in 0 .. LineCap /\ lines[p] - 1 \in 0 .. LineCap
      BY <1>1, <2>2 DEF updateGuestItem, Lines
    <3> QED BY <1>1, <2>2, <3>1 DEF updateGuestItem, Edit, Lines
  <2>3. ASSUME NEW S \in SUBSET Products, removeGuestItems(S)
        PROVE  lines' \in Lines /\ added' \in [Products -> Nat] /\ given' \in [Products -> Nat]
    BY <1>1, <2>3 DEF removeGuestItems, Edit, Lines
  <2> QED BY <2>1, <2>2, <2>3
<1>4. TypeOK'
  BY <1>1, <1>2, <1>3 DEF TypeOK
<1>5. OneBody'
  BY <1>2 DEF IInv, OneBody, KeyMeansOneBody
<1> QED BY <1>4, <1>5 DEF IInv

LEMMA VisitStep ==
    ASSUME IInv,
           \/ \E person \in Persons : SignIn(person)
           \/ \E next \in Persons \cup {Nobody} : SignOut(next)
           \/ \E restored \in Persons \cup {Nobody} : Reload(restored)
    PROVE  IInv'
<1>1. TypeOK /\ wire \subseteq Call
  BY DEF IInv, TypeOK
<1>2. ASSUME NEW person \in Persons \cup {Nobody}, NEW calls \in SUBSET Call,
             \A d \in calls : \E c \in wire : d.key = c.key /\ d.lines = c.lines,
             seedAfterSignIn(person, calls), Visit, viewer' = person, UNCHANGED <<lines, record, counts>>
      PROVE  IInv'
  <2>1. /\ minted' \in Nat /\ attempt' \in Attempts /\ AttemptMoves
        /\ wire' \subseteq Call /\ tangled' \subseteq Mixups
        /\ \A d \in wire' : Carries(d)
    BY <1>2, Seeded
  <2>2. TypeOK'
    BY <1>1, <1>2, <2>1 DEF TypeOK, Visit, counts
  <2>3. \A d \in record' : Carries(d)
    BY <1>2 DEF Carries
  <2> QED BY <2>1, <2>2, <2>3, BodiesKept DEF IInv
<1>3. ASSUME NEW person \in Persons, SignIn(person) PROVE IInv'
  BY <1>1, <1>2, <1>3 DEF SignIn
<1>4. ASSUME NEW restored \in Persons \cup {Nobody}, Reload(restored) PROVE IInv'
  <2>1. /\ Handed({"current", "earlier"}, "gone") \subseteq Call
        /\ \A d \in Handed({"current", "earlier"}, "gone") : \E c \in wire : d.key = c.key /\ d.lines = c.lines
    BY <1>1, Handing
  <2> QED BY <1>2, <1>4, <2>1 DEF Reload
<1>5. ASSUME NEW next \in Persons \cup {Nobody}, SignOut(next) PROVE IInv'
  <2>1. /\ Handed({"current"}, "earlier") \subseteq Call
        /\ \A d \in Handed({"current"}, "earlier") : \E c \in wire : d.key = c.key /\ d.lines = c.lines
    BY <1>1, Handing
  <2>2. wire' = Handed({"current"}, "earlier") /\ attempt' = NoAttempt
        /\ UNCHANGED <<minted, record, tangled>>
    BY <1>5 DEF SignOut
  <2>3. TypeOK'
    BY <1>1, <1>5, <2>1, <2>2, EmptyIsAList, NoAttemptIsOne DEF SignOut, Visit, TypeOK
  <2>4. AttemptMoves /\ \A d \in wire' \cup record' : Carries(d)
    BY <2>1, <2>2 DEF AttemptMoves, Carries
  <2> QED BY <2>3, <2>4, BodiesKept DEF IInv
<1> QED BY <1>3, <1>4, <1>5

LEMMA ServerStep ==
    ASSUME IInv, NEW c \in wire,
           \/ Replays(c) \/ TurnsAway(c) \/ GivesUp(c)
           \/ \E answer \in {"merged", "fault", "refused"} : Handles(c, answer)
    PROVE  IInv'
<1>1. TypeOK /\ c \in Call /\ wire \subseteq Call /\ record \subseteq Outcome
  BY DEF IInv, TypeOK
<1>2. UNCHANGED <<guest, visits>> /\ UNCHANGED <<barrier, added, given, tangled>>
  BY DEF Replays, TurnsAway, GivesUp, Handles, history, counts
<1>3. AttemptMoves
  BY <1>2 DEF AttemptMoves, guest
<1>4. ASSUME NEW d \in Call, d.key = c.key, d.lines = c.lines, wire' = (wire \ {c}) \cup {d}
      PROVE  wire' \subseteq Call /\ \A e \in wire' : Carries(e)
  BY <1>1, <1>4 DEF Carries
<1>5. ASSUME NEW answer \in {"merged", "fault", "refused", "turnedAway"}, Answer(c, answer)
      PROVE  wire' \subseteq Call /\ \A e \in wire' : Carries(e)
  <2> DEFINE told == [c EXCEPT !.answer = answer]
  <2>1. told \in Call /\ told.key = c.key /\ told.lines = c.lines
    BY <1>1 DEF Call
  <2>2. wire' = (wire \ {c}) \cup {told}
    BY <1>5 DEF Answer
  <2> HIDE DEF told
  <2> QED BY <1>4, <2>1, <2>2
<1>6. ASSUME UNCHANGED <<record, merged>>, wire' \subseteq Call, \A e \in wire' : Carries(e)
      PROVE  IInv'
  <2>1. TypeOK'
    BY <1>1, <1>2, <1>6 DEF TypeOK, guest
  <2>2. \A e \in record' : Carries(e)
    BY <1>6 DEF Carries
  <2> QED BY <1>3, <1>6, <2>1, <2>2, BodiesKept DEF IInv
<1>7. CASE Replays(c)
  <2>1. PICK r \in record : Answer(c, r.answer)
    BY <1>7 DEF Replays, Handled
  <2>2. r.answer \in {"merged", "fault", "refused", "turnedAway"} /\ UNCHANGED <<record, merged>>
    BY <1>1, <1>7 DEF Replays, Outcome, history, counts
  <2> QED BY <1>5, <1>6, <2>1, <2>2
<1>8. CASE TurnsAway(c)
  <2>1. Answer(c, "turnedAway") /\ UNCHANGED <<record, merged>>
    BY <1>8 DEF TurnsAway, history, counts
  <2> QED BY <1>5, <1>6, <2>1
<1>9. CASE GivesUp(c)
  <2> DEFINE left == [c EXCEPT !.caller = "gone"]
  <2>1. left \in Call /\ left.key = c.key /\ left.lines = c.lines
    BY <1>1 DEF Call
  <2>2. wire' = (wire \ {c}) \cup {left} /\ UNCHANGED <<record, merged>>
    BY <1>9 DEF GivesUp, history, counts
  <2> HIDE DEF left
  <2> QED BY <1>4, <1>6, <2>1, <2>2
<1>10. ASSUME NEW answer \in {"merged", "fault", "refused"}, Handles(c, answer) PROVE IInv'
  <2> DEFINE new == [key |-> c.key, lines |-> c.lines, person |-> c.person, answer |-> answer]
  <2>1. /\ Answer(c, answer) /\ record' = record \cup {new} /\ c.person \in Persons
        /\ merged' \in {merged, Plus(merged, c.lines)}
    BY <1>1, <1>10 DEF Handles, Call
  <2>2. c.key \in Nat /\ c.lines \in Lines
    BY <1>1 DEF Call
  <2>3. new \in Outcome /\ new.key = c.key /\ new.lines = c.lines
    BY <2>1, <2>2 DEF Outcome
  <2> HIDE DEF new
  <2>4. wire' \subseteq Call /\ \A e \in wire' : Carries(e)
    BY <1>5, <2>1
  <2>5. merged' \in [Products -> Nat]
    BY <1>1, <2>1, <2>2, Added, ListsCount DEF TypeOK
  <2>6. TypeOK'
    BY <1>1, <1>2, <2>1, <2>3, <2>4, <2>5 DEF TypeOK, guest
  <2>7. \A e \in record' : Carries(e)
    BY <2>1, <2>3 DEF Carries
  <2> QED BY <1>3, <2>4, <2>6, <2>7, BodiesKept DEF IInv
<1> QED BY <1>7, <1>8, <1>9, <1>10

LEMMA LandStep ==
    ASSUME IInv, NEW c \in wire,
           MergeLands(c) \/ RefusalLands(c) \/ TurnedAwayLands(c) \/ FaultLands(c)
    PROVE  IInv'
<1>1. TypeOK /\ c \in Call /\ wire \subseteq Call /\ c.lines \in Lines /\ lines \in Lines
      /\ c.caller \in {"current", "earlier", "gone"} /\ viewer \in Persons \cup {Nobody}
      /\ minted \in Nat
  BY DEF IInv, TypeOK, Call
<1>2. Mixed(c) \subseteq Mixups
  BY DEF Mixed, Mixups
<1>3. TakenBy(c.lines) \in Lines
  BY <1>1, Subtracted DEF TakenBy
<1>4. UNCHANGED <<viewer, record, visits, barrier, added, merged>>
  BY DEF MergeLands, RefusalLands, TurnedAwayLands, FaultLands, guest, history, counts
<1>5. tangled' \subseteq Mixups
  BY <1>1, <1>2 DEF MergeLands, RefusalLands, TurnedAwayLands, FaultLands, history, TypeOK
<1>6. lines' \in Lines
  BY <1>1, <1>3 DEF MergeLands, RefusalLands, TurnedAwayLands, FaultLands, guest
<1>7. given' \in [Products -> Nat]
  <2>1. CASE RefusalLands(c)
    <3>1. ASSUME NEW p \in Products PROVE lines[p] - lines'[p] \in Nat
      <4>1. lines'[p] = IF lines[p] > c.lines[p] THEN lines[p] - c.lines[p] ELSE 0
        BY <2>1 DEF RefusalLands, TakenBy, subtractGuestLines
      <4>2. lines[p] \in Nat /\ c.lines[p] \in Nat
        BY <1>1, ListsCount
      <4> QED BY <4>1, <4>2
    <3>2. [p \in Products |-> lines[p] - lines'[p]] \in [Products -> Nat]
      BY <3>1
    <3>3. given' = Plus(given, [p \in Products |-> lines[p] - lines'[p]])
      BY <2>1 DEF RefusalLands
    <3> QED BY <1>1, <3>2, <3>3, Added DEF TypeOK
  <2>2. CASE MergeLands(c) \/ TurnedAwayLands(c) \/ FaultLands(c)
    BY <1>1, <2>2 DEF MergeLands, TurnedAwayLands, FaultLands, history, counts, TypeOK
  <2> QED BY <2>1, <2>2
<1>8. ASSUME wire' \subseteq Call, \A d \in wire' : Carries(d), AttemptMoves,
             attempt' \in Attempts, minted' \in Nat
      PROVE  IInv'
  <2>1. TypeOK'
    BY <1>1, <1>4, <1>5, <1>6, <1>7, <1>8 DEF TypeOK
  <2>2. \A d \in record' : Carries(d)
    BY <1>4 DEF Carries
  <2> QED BY <1>8, <2>1, <2>2, BodiesKept DEF IInv
<1>9. \A d \in wire \ {c} : Carries(d)
  BY DEF Carries
<1>10. CASE wire' = wire \ {c} /\ attempt' \in {attempt, NoAttempt} /\ minted' = minted
  BY <1>1, <1>8, <1>9, <1>10, NoAttemptIsOne DEF AttemptMoves, TypeOK
<1>11. CASE /\ FreshKeyFor(lines')
            /\ wire' = (wire \ {c}) \cup {Sent(attempt'.key, lines', viewer, FALSE, c.caller)}
  <2> DEFINE new == Sent(attempt'.key, lines', viewer, FALSE, c.caller)
  <2>1. /\ minted' = minted + 1 /\ minted' \in Nat /\ attempt' \in Attempts
        /\ attempt'.key = minted + 1 /\ attempt'.lines = lines' /\ attempt' # NoAttempt
    BY <1>1, <1>6, <1>11, FreshKey
  <2>2. new \in Call /\ new.key = attempt'.key /\ new.lines = lines'
    <3>1. attempt'.key \in Nat
      BY <2>1 DEF Attempts
    <3>2. /\ lines' \in Lines /\ viewer \in Persons \cup {Nobody}
          /\ c.caller \in {"current", "earlier", "gone"}
      BY <1>1, <1>6
    <3> QED BY <3>1, <3>2 DEF Sent, Call
  <2>3. wire' = (wire \ {c}) \cup {new}
    BY <1>11
  <2> HIDE DEF new
  <2>4. Carries(new)
    BY <2>1, <2>2 DEF Carries
  <2> QED BY <1>1, <1>8, <1>9, <2>1, <2>2, <2>3, <2>4 DEF AttemptMoves
<1> QED BY <1>10, <1>11 DEF MergeLands, RefusalLands, TurnedAwayLands, FaultLands, guest

-----------------------------------------------------------------------------
(* The invariant *)

LEMMA InitIInv == Init => IInv
<1> SUFFICES ASSUME Init PROVE IInv
  OBVIOUS
<1>1. TypeOK
  BY EmptyIsAList, NoAttemptIsOne DEF Init, TypeOK
<1>2. OneBody
  BY DEF Init, OneBody, KeyMeansOneBody
<1> QED BY <1>1, <1>2 DEF IInv

LEMMA StepIInv == IInv /\ [Next]_vars => IInv'
<1> SUFFICES ASSUME IInv, [Next]_vars PROVE IInv'
  OBVIOUS
<1>1. CASE \/ \E p \in Products : addGuestItem(p) \/ updateGuestItem(p)
           \/ \E S \in SUBSET Products : removeGuestItems(S)
  BY <1>1, EditStep
<1>2. CASE \/ \E person \in Persons : SignIn(person)
           \/ \E next \in Persons \cup {Nobody} : SignOut(next)
           \/ \E restored \in Persons \cup {Nobody} : Reload(restored)
  BY <1>2, VisitStep
<1>3. ASSUME NEW c \in wire,
             \/ Replays(c) \/ TurnsAway(c) \/ GivesUp(c)
             \/ \E answer \in {"merged", "fault", "refused"} : Handles(c, answer)
      PROVE  IInv'
  BY <1>3, ServerStep
<1>4. ASSUME NEW c \in wire, MergeLands(c) \/ RefusalLands(c) \/ TurnedAwayLands(c) \/ FaultLands(c)
      PROVE  IInv'
  BY <1>4, LandStep
<1>5. CASE UNCHANGED vars
  <2>1. TypeOK'
    BY <1>5 DEF IInv, TypeOK, vars, guest, history, counts
  <2>2. OneBody'
    BY <1>5 DEF IInv, OneBody, KeyMeansOneBody, vars, guest
  <2> QED BY <2>1, <2>2 DEF IInv
<1> QED BY <1>1, <1>2, <1>3, <1>4, <1>5 DEF Next

(* The list, the attempt, the calls and what they are counted by keep their kinds: whatever is  *)
(* taken off the list by a late answer, no line goes below nothing or over its cap.             *)
THEOREM TypeCorrect == Spec => []TypeOK
<1>1. IInv => TypeOK
  BY DEF IInv
<1> QED BY InitIInv, StepIInv, <1>1, PTL DEF Spec

(* sendMerge and mergeKeyFor never let a key travel with two lists, which the server would      *)
(* refuse and the store would answer by dropping the lines: not by replays, edits made while a  *)
(* call is out, page loads, or persons taking over.                                             *)
THEOREM KeyIsOneLists == Spec => []KeyMeansOneBody
<1>1. IInv => KeyMeansOneBody
  BY DEF IInv, OneBody
<1> QED BY InitIInv, StepIInv, <1>1, PTL DEF Spec
-----------------------------------------------------------------------------
(* The units: where each is, and how often it may still reach a cart *)

(* The saved attempt's call was taken by the server, whether or not the page heard of it. *)
Applied == attempt # NoAttempt /\ \E r \in record : r.key = attempt.key /\ r.answer = "merged"

(* Keys of an earlier person's stay are at or below the barrier, the saved attempt's is above. *)
Era == barrier <= minted /\ (attempt # NoAttempt => attempt.key > barrier)

(* The page waits for one call of its present person at most, and signed out for none. *)
Callers ==
    /\ \A c, d \in wire : c.caller = "current" /\ d.caller = "current" => c = d
    /\ viewer = Nobody => \A c \in wire : c.caller # "current"

(* An answer about the lines was recorded before it was given. *)
Recorded ==
    \A c \in wire : c.answer \in {"merged", "fault", "refused"} =>
        \E r \in record : r.key = c.key /\ r.person = c.person /\ r.answer = c.answer

(* The call the page waits for is the one it saved, unless an earlier person's answer meddled. *)
CurrentIsTheAttempt ==
    "lateAnswer" \notin tangled =>
        \A c \in wire : c.caller = "current" =>
            attempt # NoAttempt /\ c.key = attempt.key /\ c.lines = attempt.lines

(* A key is one person's, unless it was passed on. *)
OnePerson ==
    "inherited" \notin tangled =>
        \A c, d \in wire \cup record : c.key = d.key => c.person = d.person

(* Without a mix-up, a call of this stay that could still be worked on is the saved one's. *)
NoStray ==
    tangled = {} =>
        \A c \in wire : c.answer = "none" /\ c.key > barrier =>
            \/ attempt # NoAttempt /\ c.key = attempt.key
            \/ \E r \in record : r.key = c.key /\ r.person = c.person

(* NothingLost with what it owes: once the attempt is applied, its lines are still to be taken   *)
(* off the list, however the list was edited since.                                              *)
NoneLost ==
    "lateAnswer" \notin tangled =>
        \A p \in Products :
            /\ added[p] <= lines[p] + merged[p] + given[p]
            /\ Applied => added[p] + attempt.lines[p] <= lines[p] + merged[p] + given[p]

(* MergedOnce with what may still be merged: the attempt's lines, and what the list holds beyond *)
(* them.                                                                                         *)
NoneTwice ==
    tangled = {} =>
        \A p \in Products :
            IF Applied THEN merged[p] + subtractGuestLines(lines, attempt.lines)[p] <= added[p]
            ELSE merged[p] + lines[p] <= added[p] /\ merged[p] + attempt.lines[p] <= added[p]

Ledger == /\ Era /\ Callers /\ Recorded /\ CurrentIsTheAttempt /\ OnePerson /\ NoStray
          /\ NoneLost /\ NoneTwice

LEMMA Naturals ==
    ASSUME TypeOK, NEW p \in Products
    PROVE  /\ lines[p] \in Nat /\ attempt.lines[p] \in Nat /\ added[p] \in Nat
           /\ given[p] \in Nat /\ merged[p] \in Nat
BY ListsCount DEF TypeOK, Attempts

LEMMA Remains ==
    ASSUME NEW list, NEW sent, NEW p \in Products
    PROVE  subtractGuestLines(list, sent)[p] = IF list[p] > sent[p] THEN list[p] - sent[p] ELSE 0
BY DEF subtractGuestLines

(* d stands for a call that was out: it differs in who waits for it only. *)
Stands(d) == \E c \in wire : /\ d.key = c.key /\ d.lines = c.lines
                             /\ d.person = c.person /\ d.answer = c.answer

LEMMA HandedStands ==
    ASSUME TypeOK, NEW from, NEW to \in {"current", "earlier", "gone"}, NEW d \in Handed(from, to)
    PROVE  Stands(d) /\ (d.caller = to \/ d.caller \notin from)
<1>1. PICK c \in wire : d = IF c.caller \in from THEN [c EXCEPT !.caller = to] ELSE c
  BY DEF Handed
<1>2. c \in Call
  BY DEF TypeOK
<1>3. /\ d.key = c.key /\ d.lines = c.lines /\ d.person = c.person /\ d.answer = c.answer
      /\ d.caller = IF c.caller \in from THEN to ELSE c.caller
  BY <1>1, <1>2 DEF Call
<1> QED BY <1>3 DEF Stands

LEMMA EditLedger ==
    ASSUME IInv, Ledger,
           \/ \E p \in Products : addGuestItem(p) \/ updateGuestItem(p)
           \/ \E S \in SUBSET Products : removeGuestItems(S)
    PROVE  Ledger'
<1>1. TypeOK
  BY DEF IInv
<1>2. UNCHANGED <<attempt, viewer, minted, wire, record, barrier, merged, tangled>>
  BY DEF addGuestItem, updateGuestItem, removeGuestItems, Edit
<1>3. Era' /\ Callers' /\ Recorded' /\ CurrentIsTheAttempt' /\ OnePerson' /\ NoStray'
  BY <1>2 DEF Ledger, Era, Callers, Recorded, CurrentIsTheAttempt, OnePerson, NoStray
<1>4. Applied' = Applied
  BY <1>2 DEF Applied
<1>5. ASSUME NEW p \in Products
      PROVE  /\ lines'[p] \in Nat /\ added'[p] \in Nat /\ given'[p] \in Nat
             /\ added'[p] + lines[p] + given[p] = added[p] + lines'[p] + given'[p]
             /\ added'[p] >= added[p] /\ lines'[p] + added[p] <= lines[p] + added'[p]
  <2> USE <1>1, <1>5, Naturals
  <2>1. lines \in [Products -> 0 .. LineCap] /\ added \in [Products -> Nat] /\ given \in [Products -> Nat]
    BY DEF TypeOK, Lines
  <2>2. ASSUME NEW q \in Products, addGuestItem(q)
        PROVE  /\ lines'[p] = (IF p = q THEN lines[p] + 1 ELSE lines[p])
               /\ added'[p] = (IF p = q THEN added[p] + 1 ELSE added[p])
               /\ given'[p] = given[p]
    BY <2>1, <2>2 DEF addGuestItem, Edit
  <2>3. ASSUME NEW q \in Products, updateGuestItem(q)
        PROVE  /\ lines'[p] = (IF p = q THEN lines[p] - 1 ELSE lines[p])
               /\ given'[p] = (IF p = q THEN given[p] + 1 ELSE given[p])
               /\ added'[p] = added[p] /\ (p = q => lines[p] > 1)
    BY <2>1, <2>3 DEF updateGuestItem, Edit
  <2>4. ASSUME NEW S \in SUBSET Products, removeGuestItems(S)
        PROVE  /\ lines'[p] = (IF p \in S THEN 0 ELSE lines[p])
               /\ given'[p] = (IF p \in S THEN given[p] + lines[p] ELSE given[p])
               /\ added'[p] = added[p]
    BY <2>1, <2>4 DEF removeGuestItems, Edit
  <2> QED BY <2>2, <2>3, <2>4
<1>6. NoneLost'
  <2> SUFFICES ASSUME "lateAnswer" \notin tangled, NEW p \in Products
               PROVE  /\ added'[p] <= lines'[p] + merged[p] + given'[p]
                      /\ Applied => added'[p] + attempt.lines[p] <= lines'[p] + merged[p] + given'[p]
    BY <1>2, <1>4 DEF NoneLost
  <2> QED BY <1>1, <1>5, Naturals DEF Ledger, NoneLost
<1>7. NoneTwice'
  <2> SUFFICES ASSUME tangled = {}, NEW p \in Products
               PROVE  IF Applied THEN merged[p] + subtractGuestLines(lines', attempt.lines)[p] <= added'[p]
                      ELSE merged[p] + lines'[p] <= added'[p] /\ merged[p] + attempt.lines[p] <= added'[p]
    BY <1>2, <1>4 DEF NoneTwice
  <2> QED BY <1>1, <1>5, Naturals, Remains DEF Ledger, NoneTwice
<1> QED BY <1>3, <1>6, <1>7 DEF Ledger

(* A session that appears sends the saved call, or one under a key nobody has. *)
LEMMA SeedLedger ==
    ASSUME IInv, Ledger, NEW person \in Persons \cup {Nobody}, NEW calls \in SUBSET Call,
           \A d \in calls : Stands(d) /\ d.caller # "current",
           seedAfterSignIn(person, calls), viewer' = person, UNCHANGED <<lines, record, counts>>
    PROVE  Ledger'
<1> DEFINE new(d) == /\ person # Nobody /\ d.key = attempt'.key /\ d.lines = attempt'.lines
                     /\ d.person = person /\ d.caller = "current" /\ d.answer = "none"
<1>1. TypeOK /\ minted \in Nat /\ barrier \in Nat /\ lines \in Lines /\ attempt \in Attempts
  BY DEF IInv, TypeOK
<1>2. UNCHANGED <<barrier, added, given, merged, record, lines>>
  BY DEF counts
<1>3. \/ attempt' = attempt /\ minted' = minted
      \/ /\ attempt = NoAttempt /\ minted' = minted + 1
         /\ attempt' # NoAttempt /\ attempt'.key = minted + 1 /\ attempt'.lines = lines
  <2>1. CASE FreshKeyFor(lines) /\ ~LostMergeToReplay /\ ~(attempt # NoAttempt /\ attempt.lines = lines)
    <3>1. minted' = minted + 1 /\ attempt'.key = minted + 1 /\ attempt'.lines = lines /\ attempt' # NoAttempt
      BY <1>1, <2>1, FreshKey
    <3> QED BY <2>1, <3>1 DEF LostMergeToReplay
  <2>2. CASE UNCHANGED <<attempt, minted>>
    BY <2>2
  <2> QED BY <2>1, <2>2 DEF seedAfterSignIn, mergeGuestCart, ReplayLost, mergeKeyFor
<1>4. \/ wire' = calls /\ tangled' = tangled
      \/ \E d : /\ wire' = calls \cup {d} /\ new(d) /\ attempt' # NoAttempt
                /\ tangled' = IF KnownFromAnother(attempt'.key, person)
                              THEN tangled \cup {"inherited"} ELSE tangled
  <2>1. ASSUME NEW list, NEW replay, Send(list, person, replay, calls), list = attempt'.lines,
               attempt' # NoAttempt, person # Nobody
        PROVE  \E d : /\ wire' = calls \cup {d} /\ new(d) /\ attempt' # NoAttempt
                      /\ tangled' = IF KnownFromAnother(attempt'.key, person)
                                    THEN tangled \cup {"inherited"} ELSE tangled
    <3>1. new(Sent(attempt'.key, list, person, replay, "current"))
      BY <2>1 DEF Sent
    <3> HIDE DEF new
    <3> QED BY <2>1, <3>1 DEF Send
  <2> HIDE DEF new
  <2>2. CASE person = Nobody \/ lines = Empty
    BY <2>2 DEF seedAfterSignIn
  <2>3. CASE person # Nobody /\ lines # Empty /\ LostMergeToReplay
    <3>1. attempt' = attempt /\ attempt # NoAttempt /\ Send(attempt.lines, person, TRUE, calls)
      BY <2>3 DEF seedAfterSignIn, mergeGuestCart, ReplayLost, LostMergeToReplay
    <3> QED BY <2>1, <2>3, <3>1
  <2>4. CASE person # Nobody /\ lines # Empty /\ ~LostMergeToReplay
    <3>1. mergeKeyFor(lines) /\ Send(lines, person, FALSE, calls)
      BY <2>4 DEF seedAfterSignIn, mergeGuestCart
    <3>2. attempt' # NoAttempt /\ attempt'.lines = lines
      BY <1>1, <3>1, FreshKey DEF mergeKeyFor
    <3> QED BY <2>1, <2>4, <3>1, <3>2
  <2> QED BY <2>2, <2>3, <2>4
<1> HIDE DEF new
<1>5. \A d \in wire' : \/ Stands(d) /\ d.caller # "current"
                       \/ new(d) /\ attempt' # NoAttempt /\ wire' = calls \cup {d}
  BY <1>4
<1>6. tangled \subseteq tangled'
  BY <1>4
<1>7. Era'
  BY <1>1, <1>2, <1>3 DEF Ledger, Era
<1>8. Callers'
  <2>1. \A c, d \in wire' : c.caller = "current" /\ d.caller = "current" => c = d
    BY <1>4
  <2>2. person = Nobody => \A c \in wire' : c.caller # "current"
    BY <1>5 DEF new
  <2> QED BY <2>1, <2>2 DEF Callers
<1>9. Recorded'
  BY <1>2, <1>5 DEF Ledger, Recorded, Stands, new
<1>10. CurrentIsTheAttempt'
  BY <1>5 DEF CurrentIsTheAttempt, new
<1>11. \A c \in wire \cup record : c.key \in Nat /\ c.key <= minted
  BY DEF IInv, OneBody, TypeOK, Call, Outcome
<1>12. OnePerson'
  <2> SUFFICES ASSUME "inherited" \notin tangled', NEW c \in wire' \cup record', NEW d \in wire' \cup record',
                      c.key = d.key
               PROVE  c.person = d.person
    BY DEF OnePerson
  <2>1. \A a, b \in wire \cup record : a.key = b.key => a.person = b.person
    BY <1>6 DEF Ledger, OnePerson
  <2>2. ASSUME NEW b \in wire \cup record, b.key = attempt'.key, ~(wire' = calls) PROVE b.person = person
    BY <1>4, <2>2 DEF KnownFromAnother
  <2>3. \A e \in wire' \cup record' : \/ \E b \in wire \cup record : e.key = b.key /\ e.person = b.person
                                      \/ new(e) /\ ~(wire' = calls)
    <3>1. \A e \in calls : ~new(e)
      BY DEF new
    <3> QED BY <1>2, <1>5, <3>1 DEF Stands
  <2> QED BY <2>1, <2>2, <2>3 DEF new
<1>13. NoStray'
  <2> SUFFICES ASSUME tangled = {}, NEW c \in wire', c.answer = "none", c.key > barrier
               PROVE  \/ attempt' # NoAttempt /\ c.key = attempt'.key
                      \/ \E r \in record : r.key = c.key /\ r.person = c.person
    BY <1>2, <1>6 DEF NoStray
  <2>1. CASE Stands(c)
    BY <1>3, <2>1 DEF Ledger, NoStray, Stands
  <2>2. CASE new(c) /\ attempt' # NoAttempt
    BY <2>2 DEF new
  <2> QED BY <1>5, <2>1, <2>2
<1>14. Applied' => Applied /\ attempt' = attempt
  BY <1>1, <1>2, <1>3, <1>11 DEF Applied
<1>15. attempt' = attempt => (Applied' = Applied)
  BY <1>2 DEF Applied
<1>16. NoneLost'
  BY <1>2, <1>6, <1>14 DEF Ledger, NoneLost
<1>17. NoneTwice'
  <2> SUFFICES ASSUME tangled = {}, NEW p \in Products
               PROVE  IF Applied' THEN merged[p] + subtractGuestLines(lines, attempt'.lines)[p] <= added[p]
                      ELSE merged[p] + lines[p] <= added[p] /\ merged[p] + attempt'.lines[p] <= added[p]
    BY <1>2, <1>6 DEF NoneTwice
  <2>1. CASE attempt' = attempt
    BY <1>15, <2>1 DEF Ledger, NoneTwice
  <2>2. CASE attempt = NoAttempt /\ attempt' # attempt
    <3>1. ~Applied /\ ~Applied' /\ attempt'.lines = lines
      BY <1>3, <1>14, <2>2 DEF Applied
    <3> QED BY <3>1 DEF Ledger, NoneTwice
  <2> QED BY <1>3, <2>1, <2>2
<1> QED BY <1>7, <1>8, <1>9, <1>10, <1>12, <1>13, <1>16, <1>17 DEF Ledger

LEMMA VisitLedger ==
    ASSUME IInv, Ledger,
           \/ \E person \in Persons : SignIn(person)
           \/ \E next \in Persons \cup {Nobody} : SignOut(next)
           \/ \E restored \in Persons \cup {Nobody} : Reload(restored)
    PROVE  Ledger'
<1>1. TypeOK /\ wire \subseteq Call /\ minted \in Nat
  BY DEF IInv, TypeOK
<1>2. ASSUME NEW person \in Persons, SignIn(person) PROVE Ledger'
  <2>1. \A d \in wire : Stands(d) /\ d.caller # "current"
    BY <1>2 DEF Ledger, Callers, SignIn, Stands
  <2> QED BY <1>1, <1>2, <2>1, SeedLedger DEF SignIn
<1>3. ASSUME NEW restored \in Persons \cup {Nobody}, Reload(restored) PROVE Ledger'
  <2> DEFINE calls == Handed({"current", "earlier"}, "gone")
  <2>1. calls \subseteq Call /\ \A d \in calls : Stands(d) /\ d.caller # "current"
    BY <1>1, Handing, HandedStands
  <2>2. seedAfterSignIn(restored, calls) /\ viewer' = restored /\ UNCHANGED <<lines, record, counts>>
    BY <1>3 DEF Reload
  <2> HIDE DEF calls
  <2> QED BY <2>1, <2>2, SeedLedger
<1>4. ASSUME NEW next \in Persons \cup {Nobody}, SignOut(next) PROVE Ledger'
  <2>1. /\ wire' = Handed({"current"}, "earlier") /\ attempt' = NoAttempt /\ barrier' = minted
        /\ lines' = Empty /\ added' = Empty /\ given' = Empty /\ merged' = Empty
        /\ UNCHANGED <<minted, record, tangled>>
    BY <1>4 DEF SignOut
  <2>2. \A d \in wire' : Stands(d) /\ d.caller # "current"
    BY <1>1, <2>1, HandedStands
  <2>3. \A c \in wire \cup record : c.key \in Nat /\ c.key <= minted
    BY DEF IInv, OneBody, TypeOK, Call, Outcome
  <2>4. Era' /\ Callers' /\ CurrentIsTheAttempt'
    BY <1>1, <2>1, <2>2 DEF Era, Callers, CurrentIsTheAttempt
  <2>5. Recorded'
    BY <2>1, <2>2 DEF Ledger, Recorded, Stands
  <2>6. OnePerson'
    BY <2>1, <2>2 DEF Ledger, OnePerson, Stands
  <2>7. NoStray'
    BY <1>1, <2>1, <2>2, <2>3 DEF NoStray, Stands
  <2>8. ~Applied'
    BY <2>1 DEF Applied
  <2>9. NoneLost' /\ NoneTwice'
    BY <2>1, <2>8 DEF NoneLost, NoneTwice, Empty, NoAttempt
  <2> QED BY <2>4, <2>5, <2>6, <2>7, <2>9 DEF Ledger
<1> QED BY <1>2, <1>3, <1>4

LEMMA ServerLedger ==
    ASSUME IInv, Ledger, NEW c \in wire,
           \/ Replays(c) \/ TurnsAway(c) \/ GivesUp(c)
           \/ \E answer \in {"merged", "fault", "refused"} : Handles(c, answer)
    PROVE  Ledger'
<1>1. /\ TypeOK /\ c \in Call /\ barrier \in Nat /\ minted \in Nat
      /\ merged \in [Products -> Nat] /\ c.key \in Nat /\ c.lines \in Lines
  BY DEF IInv, TypeOK, Call
<1>2. UNCHANGED <<guest, visits, barrier, added, given, tangled>>
  BY DEF Replays, TurnsAway, GivesUp, Handles, history, counts
<1>3. UNCHANGED <<lines, attempt, viewer, minted>>
  BY <1>2 DEF guest
<1>4. Era'
  BY <1>2, <1>3 DEF Ledger, Era
(* What becomes of the call. *)
<1>5. \E d : /\ wire' = (wire \ {c}) \cup {d}
             /\ d.key = c.key /\ d.lines = c.lines /\ d.person = c.person
             /\ d.caller = c.caller \/ d.caller = "gone"
             /\ \/ d.answer = c.answer
                \/ c.answer = "none" /\ d.answer = "turnedAway"
                \/ /\ c.answer = "none"
                   /\ \E r \in record' : r.key = c.key /\ r.person = c.person /\ r.answer = d.answer
  <2>1. ASSUME NEW answer, Answer(c, answer)
        PROVE  \E d : /\ wire' = (wire \ {c}) \cup {d}
                      /\ d.key = c.key /\ d.lines = c.lines /\ d.person = c.person
                      /\ d.caller = c.caller /\ d.answer = answer
    <3> DEFINE told == [c EXCEPT !.answer = answer]
    <3>1. /\ told.key = c.key /\ told.lines = c.lines /\ told.person = c.person
          /\ told.caller = c.caller /\ told.answer = answer
      BY <1>1 DEF Call
    <3>2. wire' = (wire \ {c}) \cup {told}
      BY <2>1 DEF Answer
    <3> HIDE DEF told
    <3> QED BY <3>1, <3>2
  <2>2. CASE Replays(c)
    <3>1. PICK r \in record : r.key = c.key /\ r.person = c.person /\ Answer(c, r.answer)
      BY <2>2 DEF Replays, Handled
    <3>2. record' = record /\ c.answer = "none"
      BY <2>2 DEF Replays
    <3> QED BY <2>1, <3>1, <3>2
  <2>3. CASE TurnsAway(c)
    <3>1. c.answer = "none" /\ Answer(c, "turnedAway")
      BY <2>3 DEF TurnsAway
    <3> QED BY <2>1, <3>1
  <2>4. CASE GivesUp(c)
    <3> DEFINE left == [c EXCEPT !.caller = "gone"]
    <3>1. /\ left.key = c.key /\ left.lines = c.lines /\ left.person = c.person
          /\ left.answer = c.answer /\ left.caller = "gone"
      BY <1>1 DEF Call
    <3>2. wire' = (wire \ {c}) \cup {left}
      BY <2>4 DEF GivesUp
    <3> HIDE DEF left
    <3> QED BY <3>1, <3>2
  <2>5. ASSUME NEW answer \in {"merged", "fault", "refused"}, Handles(c, answer)
        PROVE  /\ c.answer = "none" /\ Answer(c, answer)
               /\ \E r \in record' : r.key = c.key /\ r.person = c.person /\ r.answer = answer
    <3> DEFINE new == [key |-> c.key, lines |-> c.lines, person |-> c.person, answer |-> answer]
    <3>1. c.answer = "none" /\ Answer(c, answer) /\ record' = record \cup {new}
      BY <2>5 DEF Handles
    <3>2. new.key = c.key /\ new.person = c.person /\ new.answer = answer
      OBVIOUS
    <3> HIDE DEF new
    <3> QED BY <3>1, <3>2
  <2>6. ASSUME NEW answer \in {"merged", "fault", "refused"}, Handles(c, answer)
        PROVE  \E d : /\ wire' = (wire \ {c}) \cup {d}
                      /\ d.key = c.key /\ d.lines = c.lines /\ d.person = c.person
                      /\ d.caller = c.caller /\ c.answer = "none"
                      /\ \E r \in record' : r.key = c.key /\ r.person = c.person /\ r.answer = d.answer
    BY <2>1, <2>5, <2>6
  <2> QED BY <2>2, <2>3, <2>4, <2>6
<1>6. record \subseteq record'
  BY DEF Replays, TurnsAway, GivesUp, Handles
<1>7. Callers'
  BY <1>3, <1>5 DEF Ledger, Callers
<1>8. Recorded'
  BY <1>5, <1>6 DEF Ledger, Recorded
<1>9. CurrentIsTheAttempt'
  BY <1>2, <1>3, <1>5 DEF Ledger, CurrentIsTheAttempt
<1>10. NoStray'
  BY <1>2, <1>3, <1>5, <1>6 DEF Ledger, NoStray
<1>11. ASSUME record' = record, merged' = merged PROVE Ledger'
  <2>1. OnePerson'
    BY <1>2, <1>5, <1>11 DEF Ledger, OnePerson
  <2>2. Applied' = Applied
    BY <1>3, <1>11 DEF Applied
  <2>3. NoneLost' /\ NoneTwice'
    BY <1>2, <1>3, <1>11, <2>2 DEF Ledger, NoneLost, NoneTwice
  <2> QED BY <1>4, <1>7, <1>8, <1>9, <1>10, <2>1, <2>3 DEF Ledger
<1>12. ASSUME NEW answer \in {"merged", "fault", "refused"}, Handles(c, answer) PROVE Ledger'
  <2> DEFINE new == [key |-> c.key, lines |-> c.lines, person |-> c.person, answer |-> answer]
  <2>1. /\ record' = record \cup {new} /\ c.answer = "none"
        /\ ~\E r \in record : r.key = c.key /\ r.person = c.person
        /\ merged' = IF answer = "merged" /\ c.key > barrier THEN Plus(merged, c.lines) ELSE merged
    BY <1>12 DEF Handles, Handled
  <2>2. new.key = c.key /\ new.lines = c.lines /\ new.person = c.person /\ new.answer = answer
    OBVIOUS
  <2> HIDE DEF new
  <2>3. OnePerson'
    BY <1>2, <1>5, <2>1, <2>2 DEF Ledger, OnePerson
  <2>4. \A p \in Products : merged'[p] = IF answer = "merged" /\ c.key > barrier
                                         THEN merged[p] + c.lines[p] ELSE merged[p]
    BY <2>1 DEF Plus
  <2>5. \A p \in Products : c.lines[p] \in Nat
    BY <1>1, ListsCount
  <2>6. attempt # NoAttempt /\ c.key = attempt.key => c.lines = attempt.lines /\ c.key > barrier
    BY DEF IInv, OneBody, Ledger, Era
  <2>7. Applied' <=> Applied \/ (attempt # NoAttempt /\ c.key = attempt.key /\ answer = "merged")
    BY <1>3, <2>1, <2>2 DEF Applied
  <2>8. NoneLost'
    <3> SUFFICES ASSUME "lateAnswer" \notin tangled, NEW p \in Products
                 PROVE  /\ added[p] <= lines[p] + merged'[p] + given[p]
                        /\ Applied' => added[p] + attempt.lines[p] <= lines[p] + merged'[p] + given[p]
      BY <1>2, <1>3 DEF NoneLost
    <3>1. /\ added[p] <= lines[p] + merged[p] + given[p]
          /\ Applied => added[p] + attempt.lines[p] <= lines[p] + merged[p] + given[p]
      BY DEF Ledger, NoneLost
    <3>2. merged'[p] \in Nat /\ merged'[p] >= merged[p]
      BY <1>1, <2>4, <2>5, Naturals
    <3>3. Applied' /\ ~Applied => merged'[p] = merged[p] + attempt.lines[p]
      BY <2>4, <2>6, <2>7
    <3> HIDE DEF Applied
    <3> QED BY <1>1, <3>1, <3>2, <3>3, Naturals
  <2>9. NoneTwice'
    <3> SUFFICES ASSUME tangled = {}, NEW p \in Products
                 PROVE  IF Applied' THEN merged'[p] + subtractGuestLines(lines, attempt.lines)[p] <= added[p]
                        ELSE merged'[p] + lines[p] <= added[p] /\ merged'[p] + attempt.lines[p] <= added[p]
      BY <1>2, <1>3 DEF NoneTwice
    <3>1. IF Applied THEN merged[p] + subtractGuestLines(lines, attempt.lines)[p] <= added[p]
          ELSE merged[p] + lines[p] <= added[p] /\ merged[p] + attempt.lines[p] <= added[p]
      BY DEF Ledger, NoneTwice
    <3>2. c.key > barrier => attempt # NoAttempt /\ c.key = attempt.key
      BY <2>1 DEF Ledger, NoStray
    <3>3. c.key > barrier => ~Applied
      <4> SUFFICES ASSUME c.key > barrier, Applied PROVE FALSE
        OBVIOUS
      <4>1. PICK r \in record : r.key = c.key
        BY <3>2 DEF Applied
      <4>2. r.person = c.person
        BY <4>1 DEF Ledger, OnePerson
      <4> QED BY <2>1, <4>1, <4>2
    <3>4. CASE ~(answer = "merged" /\ c.key > barrier)
      <4>1. merged'[p] = merged[p] /\ (Applied' <=> Applied)
        BY <2>4, <2>6, <2>7, <3>4
      <4> QED BY <3>1, <4>1
    <3>5. CASE answer = "merged" /\ c.key > barrier
      <4>1. Applied' /\ ~Applied /\ merged'[p] = merged[p] + attempt.lines[p]
        BY <2>4, <2>6, <2>7, <3>2, <3>3, <3>5
      <4> QED BY <1>1, <3>1, <4>1, Naturals, Remains
    <3> QED BY <3>4, <3>5
  <2> QED BY <1>4, <1>7, <1>8, <1>9, <1>10, <2>3, <2>8, <2>9 DEF Ledger
<1> QED BY <1>11, <1>12 DEF Replays, TurnsAway, GivesUp, history, counts

LEMMA LandLedger ==
    ASSUME IInv, Ledger, NEW c \in wire,
           MergeLands(c) \/ RefusalLands(c) \/ TurnedAwayLands(c) \/ FaultLands(c)
    PROVE  Ledger'
<1>1. /\ TypeOK /\ c \in Call /\ minted \in Nat /\ barrier \in Nat /\ attempt \in Attempts
      /\ c.lines \in Lines /\ lines \in Lines /\ given \in [Products -> Nat]
  BY DEF IInv, TypeOK, Call
<1>2. UNCHANGED <<viewer, record, barrier, added, merged>>
  BY DEF MergeLands, RefusalLands, TurnedAwayLands, FaultLands, guest, history, counts
<1>3. tangled \subseteq tangled'
  BY DEF MergeLands, RefusalLands, TurnedAwayLands, FaultLands, history
<1>4. c.caller \in {"current", "earlier"}
  BY <1>1 DEF MergeLands, RefusalLands, TurnedAwayLands, FaultLands, Lands, Call
<1>5. \A d \in wire \cup record : d.key \in Nat /\ d.key <= minted
  BY DEF IInv, OneBody, TypeOK, Call, Outcome
<1>6. FreshKeyFor(lines') => /\ minted' = minted + 1 /\ attempt' # NoAttempt
                             /\ attempt'.key = minted + 1 /\ attempt'.lines = lines'
  <2>1. lines' \in Lines \/ ~FreshKeyFor(lines')
    BY <1>1, Subtracted DEF MergeLands, RefusalLands, TurnedAwayLands, FaultLands, guest, TakenBy
  <2> QED BY <1>1, <2>1, FreshKey
(* What the landing leaves. *)
<1>7. \/ /\ wire' = wire \ {c} /\ minted' = minted /\ attempt' \in {attempt, NoAttempt}
      \/ /\ c.answer = "merged" /\ lines' # Empty /\ minted' = minted + 1
         /\ attempt' # NoAttempt /\ attempt'.key = minted + 1 /\ attempt'.lines = lines'
         /\ \E d : /\ wire' = (wire \ {c}) \cup {d}
                   /\ d.key = minted + 1 /\ d.lines = lines' /\ d.person = viewer
                   /\ d.caller = c.caller /\ d.answer = "none"
  <2>1. ASSUME MergeLands(c), c.replay, lines' # Empty
        PROVE  /\ c.answer = "merged" /\ lines' # Empty /\ minted' = minted + 1
               /\ attempt' # NoAttempt /\ attempt'.key = minted + 1 /\ attempt'.lines = lines'
               /\ \E d : /\ wire' = (wire \ {c}) \cup {d}
                         /\ d.key = minted + 1 /\ d.lines = lines' /\ d.person = viewer
                         /\ d.caller = c.caller /\ d.answer = "none"
    <3>1. /\ c.answer = "merged" /\ FreshKeyFor(lines')
          /\ wire' = (wire \ {c}) \cup {Sent(attempt'.key, lines', viewer, FALSE, c.caller)}
      BY <2>1 DEF MergeLands
    <3> DEFINE new == Sent(attempt'.key, lines', viewer, FALSE, c.caller)
    <3>2. /\ new.key = attempt'.key /\ new.lines = lines' /\ new.person = viewer
          /\ new.caller = c.caller /\ new.answer = "none"
      BY DEF Sent
    <3>3. wire' = (wire \ {c}) \cup {new}
      BY <3>1
    <3> HIDE DEF new
    <3> QED BY <1>6, <2>1, <3>1, <3>2, <3>3
  <2> QED BY <2>1 DEF MergeLands, RefusalLands, TurnedAwayLands, FaultLands, guest
<1>8. \A d \in wire' : \/ d \in wire /\ d # c
                       \/ /\ attempt' # NoAttempt /\ d.key = attempt'.key /\ d.key = minted + 1
                          /\ d.lines = attempt'.lines /\ d.person = viewer
                          /\ d.caller = c.caller /\ d.answer = "none"
  BY <1>7
<1>9. Era'
  BY <1>1, <1>2, <1>7 DEF Ledger, Era
<1>10. Callers'
  BY <1>2, <1>4, <1>7 DEF Ledger, Callers
<1>11. Recorded'
  BY <1>2, <1>8 DEF Ledger, Recorded
<1>12. OnePerson'
  BY <1>1, <1>2, <1>3, <1>5, <1>7 DEF Ledger, OnePerson
<1>13. c.caller = "earlier" /\ "lateAnswer" \notin tangled' => UNCHANGED <<lines, attempt>>
  <2>1. CASE FaultLands(c)
    BY <2>1 DEF FaultLands, guest
  <2>2. CASE MergeLands(c) \/ RefusalLands(c) \/ TurnedAwayLands(c)
    <3>1. Mixed(c) \subseteq tangled'
      BY <2>2 DEF MergeLands, RefusalLands, TurnedAwayLands
    <3>2. c.caller = "earlier" /\ <<lines', attempt'>> # <<lines, attempt>> => "lateAnswer" \in Mixed(c)
      BY DEF Mixed
    <3> QED BY <3>1, <3>2
  <2> QED BY <2>1, <2>2
<1>14. c.caller = "earlier" /\ "lateAnswer" \notin tangled' => wire' = wire \ {c}
  BY <1>1, <1>5, <1>7, <1>13 DEF IInv, OneBody, Attempts
<1>15. "lateAnswer" \notin tangled' /\ c.caller = "current" =>
           attempt # NoAttempt /\ c.key = attempt.key /\ c.lines = attempt.lines
  BY <1>3 DEF Ledger, CurrentIsTheAttempt
<1>16. CurrentIsTheAttempt'
  <2> SUFFICES ASSUME "lateAnswer" \notin tangled', NEW d \in wire', d.caller = "current"
               PROVE  attempt' # NoAttempt /\ d.key = attempt'.key /\ d.lines = attempt'.lines
    BY DEF CurrentIsTheAttempt
  <2>1. CASE d \in wire /\ d # c
    <3>1. c.caller = "earlier"
      BY <1>4, <2>1 DEF Ledger, Callers
    <3> QED BY <1>3, <1>13, <2>1, <3>1 DEF Ledger, CurrentIsTheAttempt
  <2> QED BY <1>8, <2>1
<1>17. \A p \in Products : lines'[p] = lines[p] \/ lines'[p] = subtractGuestLines(lines, c.lines)[p]
  BY DEF MergeLands, RefusalLands, TurnedAwayLands, FaultLands, guest, TakenBy
<1>18. Applied' => Applied /\ attempt' = attempt
  BY <1>1, <1>2, <1>5, <1>7 DEF Applied
<1>19. attempt' = attempt => (Applied' = Applied)
  BY <1>2 DEF Applied
<1>20. CASE c.caller = "earlier" /\ "lateAnswer" \notin tangled'
  <2>1. UNCHANGED <<lines, attempt>> /\ wire' = wire \ {c} /\ Applied' = Applied
    BY <1>13, <1>14, <1>19, <1>20
  <2>2. \A p \in Products : given'[p] = given[p]
    <3>1. CASE RefusalLands(c)
      <4>1. \A p \in Products : given'[p] = given[p] + (lines[p] - lines[p])
        BY <2>1, <3>1 DEF RefusalLands, Plus
      <4> QED BY <1>1, <4>1, Naturals
    <3>2. CASE MergeLands(c) \/ TurnedAwayLands(c) \/ FaultLands(c)
      BY <3>2 DEF MergeLands, TurnedAwayLands, FaultLands, history, counts
    <3> QED BY <3>1, <3>2
  <2>3. NoStray'
    BY <1>2, <1>3, <2>1 DEF Ledger, NoStray
  <2>4. NoneLost' /\ NoneTwice'
    BY <1>2, <1>3, <2>1, <2>2 DEF Ledger, NoneLost, NoneTwice
  <2> QED BY <1>9, <1>10, <1>11, <1>12, <1>16, <2>3, <2>4 DEF Ledger
<1>21. CASE c.caller = "current" /\ "lateAnswer" \notin tangled'
  <2>1. attempt # NoAttempt /\ c.key = attempt.key /\ c.lines = attempt.lines
    BY <1>15, <1>21
  <2>2. CASE FaultLands(c)
    <3>1. UNCHANGED <<lines, attempt, given, tangled>> /\ wire' = wire \ {c} /\ Applied' = Applied
      BY <1>2, <2>2 DEF FaultLands, guest, history, counts, Applied
    <3>2. NoStray' /\ NoneLost' /\ NoneTwice'
      BY <1>2, <3>1 DEF Ledger, NoStray, NoneLost, NoneTwice
    <3> QED BY <1>9, <1>10, <1>11, <1>12, <1>16, <3>2 DEF Ledger
  <2>3. CASE MergeLands(c) \/ RefusalLands(c) \/ TurnedAwayLands(c)
    <3>1. c.answer \in {"merged", "refused", "turnedAway"}
      BY <2>3 DEF MergeLands, RefusalLands, TurnedAwayLands
    <3>2. attempt' = NoAttempt \/ (attempt' # NoAttempt /\ attempt'.key = minted + 1 /\ attempt'.lines = lines')
      BY <1>6, <2>3 DEF MergeLands, RefusalLands, TurnedAwayLands
    <3>3. ~Applied'
      BY <1>2, <1>5, <1>1, <3>2 DEF Applied
    <3>4. c.answer = "merged" => Applied
      BY <2>1 DEF Ledger, Recorded, Applied
    <3>5. NoStray'
      <4> SUFFICES ASSUME tangled' = {}, NEW d \in wire, d # c, d.answer = "none", d.key > barrier
                   PROVE  \E r \in record : r.key = d.key /\ r.person = d.person
        BY <1>2, <1>8 DEF NoStray
      <4>1. CASE d.key # attempt.key
        BY <1>3, <4>1 DEF Ledger, NoStray
      <4>2. CASE d.key = attempt.key /\ c.answer \in {"merged", "refused"}
        <5>1. PICK r \in record : r.key = c.key /\ r.person = c.person
          BY <4>2 DEF Ledger, Recorded
        <5>2. r.person = d.person
          BY <1>3, <2>1, <4>2, <5>1 DEF Ledger, OnePerson
        <5> QED BY <2>1, <4>2, <5>1, <5>2
      <4>3. CASE d.key = attempt.key /\ c.answer = "turnedAway"
        <5>1. Mixed(c) \subseteq tangled'
          BY <2>3 DEF MergeLands, RefusalLands, TurnedAwayLands
        <5>2. MayBeApplied(attempt.key, wire \ {c})
          BY <4>3 DEF MayBeApplied
        <5> QED BY <2>1, <4>3, <5>1, <5>2 DEF Mixed
      <4> QED BY <3>1, <4>1, <4>2, <4>3
    <3>6. ASSUME NEW p \in Products
          PROVE  /\ added[p] <= lines'[p] + merged[p] + given'[p]
                 /\ tangled' = {} => merged[p] + lines'[p] <= added[p]
      <4> USE <1>1, Naturals, Remains
      <4>1. /\ added[p] <= lines[p] + merged[p] + given[p]
            /\ Applied => added[p] + attempt.lines[p] <= lines[p] + merged[p] + given[p]
        BY <1>3, <1>21 DEF Ledger, NoneLost
      <4>2. tangled' = {} => IF Applied THEN merged[p] + subtractGuestLines(lines, attempt.lines)[p] <= added[p]
                             ELSE merged[p] + lines[p] <= added[p]
        BY <1>3 DEF Ledger, NoneTwice
      <4>3. CASE MergeLands(c)
        <5>1. lines'[p] = subtractGuestLines(lines, attempt.lines)[p] /\ given'[p] = given[p] /\ Applied
          BY <2>1, <3>4, <4>3 DEF MergeLands, TakenBy, counts
        <5> QED BY <4>1, <4>2, <5>1
      <4>4. CASE RefusalLands(c)
        <5>1. /\ lines'[p] = subtractGuestLines(lines, attempt.lines)[p]
              /\ given'[p] = given[p] + (lines[p] - lines'[p])
          BY <2>1, <4>4 DEF RefusalLands, TakenBy, Plus
        <5> QED BY <4>1, <4>2, <5>1
      <4>5. CASE TurnedAwayLands(c)
        <5>1. lines' = lines /\ given'[p] = given[p] /\ Mixed(c) \subseteq tangled' /\ c.answer = "turnedAway"
          BY <4>5 DEF TurnedAwayLands, counts
        <5>2. tangled' = {} => ~Applied
          BY <2>1, <5>1 DEF Applied, Mixed, MayBeApplied
        <5> QED BY <4>1, <4>2, <5>1, <5>2
      <4> QED BY <2>3, <4>3, <4>4, <4>5
    <3>7. NoneLost'
      BY <1>2, <3>3, <3>6 DEF NoneLost
    <3>8. NoneTwice'
      <4> SUFFICES ASSUME tangled' = {}, NEW p \in Products
                   PROVE  merged[p] + lines'[p] <= added[p] /\ merged[p] + attempt'.lines[p] <= added[p]
        BY <1>2, <3>3 DEF NoneTwice
      <4>1. merged[p] + lines'[p] <= added[p]
        BY <3>6
      <4>2. CASE attempt' = NoAttempt
        <5>1. attempt'.lines[p] = 0 /\ lines'[p] \in Nat
          <6>1. attempt'.lines[p] = 0
            BY <4>2 DEF NoAttempt, Empty
          <6>2. lines[p] \in Nat /\ c.lines[p] \in Nat
            BY <1>1, ListsCount
          <6> QED BY <1>17, <6>1, <6>2, Remains
        <5> QED BY <1>1, <4>1, <5>1, Naturals
      <4> QED BY <3>2, <4>1, <4>2
    <3> QED BY <1>9, <1>10, <1>11, <1>12, <1>16, <3>5, <3>7, <3>8 DEF Ledger
  <2> QED BY <2>2, <2>3
<1>22. CASE "lateAnswer" \in tangled'
  BY <1>9, <1>10, <1>11, <1>12, <1>16, <1>22 DEF Ledger, NoStray, NoneLost, NoneTwice
<1> QED BY <1>4, <1>20, <1>21, <1>22

LEMMA InitLedger == Init => Ledger
<1> SUFFICES ASSUME Init PROVE Ledger
  OBVIOUS
<1>1. ~Applied
  BY DEF Init, Applied
<1> QED BY <1>1 DEF Init, Ledger, Era, Callers, Recorded, CurrentIsTheAttempt, OnePerson, NoStray,
                   NoneLost, NoneTwice, NoAttempt, Empty

LEMMA StepLedger == IInv /\ Ledger /\ [Next]_vars => Ledger'
<1> SUFFICES ASSUME IInv, Ledger, [Next]_vars PROVE Ledger'
  OBVIOUS
<1>1. CASE \/ \E p \in Products : addGuestItem(p) \/ updateGuestItem(p)
           \/ \E S \in SUBSET Products : removeGuestItems(S)
  BY <1>1, EditLedger
<1>2. CASE \/ \E person \in Persons : SignIn(person)
           \/ \E next \in Persons \cup {Nobody} : SignOut(next)
           \/ \E restored \in Persons \cup {Nobody} : Reload(restored)
  BY <1>2, VisitLedger
<1>3. ASSUME NEW c \in wire,
             \/ Replays(c) \/ TurnsAway(c) \/ GivesUp(c)
             \/ \E answer \in {"merged", "fault", "refused"} : Handles(c, answer)
      PROVE  Ledger'
  BY <1>3, ServerLedger
<1>4. ASSUME NEW c \in wire, MergeLands(c) \/ RefusalLands(c) \/ TurnedAwayLands(c) \/ FaultLands(c)
      PROVE  Ledger'
  BY <1>4, LandLedger
<1>5. CASE UNCHANGED vars
  BY <1>5 DEF vars, guest, history, counts, Ledger, Era, Callers, Recorded, CurrentIsTheAttempt, OnePerson,
              NoStray, NoneLost, NoneTwice, Applied
<1> QED BY <1>1, <1>2, <1>3, <1>4, <1>5 DEF Next

(* No unit of a guest's list is lost, whatever calls of sendMerge are lost, replayed, refused or *)
(* left behind by a page load, unless an answer of an earlier person's session landed on it.     *)
THEOREM NothingIsLost == Spec => []NothingLost
<1>1. TypeOK /\ Ledger => NothingLost
  BY DEF Ledger, NoneLost, NothingLost
<1>2. IInv => TypeOK
  BY DEF IInv
<1> QED BY InitIInv, StepIInv, InitLedger, StepLedger, <1>1, <1>2, PTL DEF Spec

(* The server's carts never take over a unit twice, unless one of the three mix-ups happened.    *)
THEOREM MergedOnceAlways == Spec => []MergedOnce
<1>1. IInv /\ Ledger => MergedOnce
  <2> SUFFICES ASSUME IInv, Ledger, tangled = {}, NEW p \in Products PROVE merged[p] <= added[p]
    BY DEF MergedOnce
  <2>1. TypeOK /\ subtractGuestLines(lines, attempt.lines)[p] \in Nat
    BY Naturals, Remains DEF IInv
  <2>2. IF Applied THEN merged[p] + subtractGuestLines(lines, attempt.lines)[p] <= added[p]
        ELSE merged[p] + lines[p] <= added[p]
    BY DEF Ledger, NoneTwice
  <2> QED BY <2>1, <2>2, Naturals
<1> QED BY InitIInv, StepIInv, InitLedger, StepLedger, <1>1, PTL DEF Spec
=============================================================================
