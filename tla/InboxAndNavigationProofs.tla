---------------------- MODULE InboxAndNavigationProofs ----------------------
(***************************************************************************)
(* What Inbox guarantees for any persons, notifications, reads and moves:  *)
(* the four invariants its run checks, from what the frames on their way   *)
(* will tell and what each read in flight remembers.  And what Navigation  *)
(* guarantees for any languages and inputs: the four of its run, from what *)
(* each navigation under way has been checked for and has asked for.       *)
(***************************************************************************)
EXTENDS Inbox, Navigation, SequenceTheorems, TLAPS

Written(r) == server[r] # "unwritten"

\* What the stream is about to say of a row, and that everything was read.
Coming(kind, r) == \E i \in 1..Len(frames) : frames[i].kind = kind /\ r \in frames[i].rows
ReadComing == \E i \in 1..Len(frames) : frames[i].kind = "read"

\* What a read leaves of a row as it is, though its answer holds it: it went since the read left.
Kept(q, r) == r \in q.deleted \/ (q.deletedAll /\ r \notin q.pushed)

-----------------------------------------------------------------------------
(* The frames on their way, in the order the server wrote them *)

Frames == [kind : {"created", "deleted", "read"}, rows : SUBSET Rows, all : BOOLEAN]

TypesFit == /\ TypeOK /\ frames \in Seq(Frames) /\ reads \in Seq(Read)
            /\ stream # "closed" => person # None
            /\ frames # <<>> => stream = "open"

FramesTold ==
    \A i \in 1..Len(frames) : \A r \in frames[i].rows :
        /\ frames[i].kind = "created" => Written(r)
        /\ frames[i].kind = "deleted" => server[r] = "deleted"

\* A row is created once, and deleted after it was created.
CreatedOnce ==
    \A i, j \in 1..Len(frames) : \A r \in Rows :
        r \in frames[i].rows /\ r \in frames[j].rows /\ frames[j].kind = "created" =>
            /\ frames[i].kind = "created" => i = j
            /\ frames[i].kind = "deleted" => j < i

\* What is there although all was deleted was written later, and is yet to be told.
EmptiedBefore ==
    \A i \in 1..Len(frames) : frames[i].all =>
        /\ frames[i].kind = "deleted"
        /\ \A r \in Own(person) : Holds(r) =>
               \E j \in 1..Len(frames) : i < j /\ frames[j].kind = "created" /\ r \in frames[j].rows

\* What became of a row after it was created is told after it.
ToldInTurn ==
    \A i \in 1..Len(frames) : \A r \in frames[i].rows : frames[i].kind = "created" =>
        /\ server[r] = "deleted" =>
               \E j \in 1..Len(frames) : i < j /\ frames[j].kind = "deleted" /\ r \in frames[j].rows
        /\ server[r] = "read" => \E j \in 1..Len(frames) : i < j /\ frames[j].kind = "read"

FramesFit == FramesTold /\ CreatedOnce /\ EmptiedBefore /\ ToldInTurn

-----------------------------------------------------------------------------
(* What is remembered, here and by the calls in flight *)

\* A call that came back did what it says; what it names of others' rows was put back by the toolkit.
DeletesFit == \A r \in Rows : delete[r] # None => Written(r) /\ (delete[r].answer = "ok" => ~Holds(r))

ClearFits ==
    clear # None =>
        /\ clear.ids \subseteq Own(clear.for) \cup putBack
        /\ \A r \in clear.ids : Written(r)
        /\ clear.answer = "ok" => \A r \in clear.ids \cap Own(clear.for) : ~Holds(r)
        /\ clear.for # person => \A r \in clear.ids : r \notin heard /\ ~Coming("created", r)

CallsFit == DeletesFit /\ ClearFits

Remembered == /\ \A r \in Shown : Written(r)
              /\ \A r \in heard : Written(r) /\ ~Coming("created", r)
              /\ \A r \in gone : server[r] = "deleted" /\ ~Coming("created", r)

Promised == OnlyTheirOwn /\ NothingHeardIsLost /\ NothingGoneComesBack

-----------------------------------------------------------------------------
(* The reads in flight *)

\* An answer holds rows of its person.
AnswerFits(q) ==
    q.answer # None => \A r \in Rows : q.answer[r] # "no" => r \in Own(q.for) /\ Written(r)

\* What a read that may be applied knows of what was heard since it left.
Knows(q) ==
    /\ q.for = person
    /\ q.pushed \subseteq heard
    /\ \A r \in q.pushed : r \in Shown \/ r \in q.deleted
    /\ q.answer # None =>
           /\ \A r \in heard : Holds(r) /\ q.answer[r] = "no" => r \in q.pushed
           /\ \A r \in gone : q.answer[r] # "no" => Kept(q, r)

\* The read of this connection knows, or will be told, all that its answer does not say.
FollowsRow(q, r) ==
    /\ Holds(r) /\ Kept(q, r) => r \in heard \/ Coming("created", r) \/ delete[r] # None
    /\ server[r] = "deleted" /\ r \in Shown /\ (Kept(q, r) \/ r \in q.pushed) => Coming("deleted", r)
    /\ server[r] = "read" /\ r \in q.pushed => q.readAt \/ ReadComing
    /\ server[r] = "read" /\ shown[r] = "unread" /\ (Kept(q, r) \/ r \in q.pushed) => ReadComing

AnswersRow(q, r) ==
    /\ Holds(r) /\ q.answer[r] = "no" => r \in q.pushed \/ Coming("created", r)
    /\ server[r] = "deleted" /\ q.answer[r] # "no" => Kept(q, r) \/ Coming("deleted", r)
    /\ server[r] = "read" /\ q.answer[r] = "unread" => q.readAt \/ ReadComing

Follows(q) ==
    \A r \in Own(person) \ putBack : FollowsRow(q, r) /\ (q.answer # None => AnswersRow(q, r))

ReadFits(q) == /\ AnswerFits(q)
               /\ ~q.dead => Knows(q)
               /\ q.sinceOpen => ~q.dead /\ stream = "open" /\ behind /\ Follows(q)

\* What an older read remembers, and a newer one.
Older(p, q) == /\ q.pushed \subseteq p.pushed /\ q.deleted \subseteq p.deleted
               /\ q.readAt => p.readAt
               /\ \A r \in Rows : Kept(q, r) => Kept(p, r)

ReadsFit ==
    /\ \A i \in 1..Len(reads) : ReadFits(reads[i])
    /\ \A i, j \in 1..Len(reads) : i < j /\ ~reads[i].dead /\ ~reads[j].dead => Older(reads[i], reads[j])
    /\ \A i \in 1..Len(reads) : reads[i].sinceOpen => i = Len(reads)

\* What the bell shows once the read of this connection has been applied: what is not told yet is coming.
RowInStep(r) ==
    /\ Holds(r) => r \in Shown \/ Coming("created", r) \/ delete[r] # None
    /\ server[r] = "deleted" /\ r \in Shown => Coming("deleted", r)
    /\ server[r] = "read" /\ shown[r] = "unread" => ReadComing

Ahead == ~behind => /\ stream = "open"
                    /\ \A i \in 1..Len(reads) : reads[i].dead
                    /\ \A r \in Own(person) \ putBack : RowInStep(r)

InboxInv == TypesFit /\ FramesFit /\ CallsFit /\ Remembered /\ Promised /\ ReadsFit /\ Ahead

LEMMA InitInboxInv == Init => InboxInv
<1> SUFFICES ASSUME Init PROVE InboxInv
  OBVIOUS
<1>1. /\ frames = <<>> /\ reads = <<>> /\ Len(frames) = 0 /\ Len(reads) = 0
      /\ frames \in Seq(Frames) /\ reads \in Seq(Read) /\ 1..0 = {}
  BY EmptySeq DEF Init
<1>2. Shown = {}
  BY DEF Init, Shown
<1>3. TypesFit
  BY <1>1, InboxBounds DEF Init, TypesFit, TypeOK, Answers
<1>4. FramesFit
  BY <1>1 DEF FramesFit, FramesTold, CreatedOnce, EmptiedBefore, ToldInTurn
<1>5. CallsFit /\ Remembered /\ Promised
  BY <1>2 DEF Init, CallsFit, DeletesFit, ClearFits, Remembered, Promised, OnlyTheirOwn,
     NothingHeardIsLost, NothingGoneComesBack
<1>6. ReadsFit /\ Ahead
  BY <1>1 DEF Init, ReadsFit, Ahead
<1> QED BY <1>3, <1>4, <1>5, <1>6 DEF InboxInv


-----------------------------------------------------------------------------
(* Sequences of reads and of frames *)

\* One less: those behind it move up.
LEMMA OneLess ==
    ASSUME NEW S, NEW s \in Seq(S), NEW i \in 1..Len(s)
    PROVE  /\ RemoveAt(s, i) \in Seq(S) /\ Len(RemoveAt(s, i)) = Len(s) - 1
           /\ \A k \in 1..Len(s) - 1 : RemoveAt(s, i)[k] = IF k < i THEN s[k] ELSE s[k + 1]
<1> DEFINE before == SubSeq(s, 1, i-1)
           after == SubSeq(s, i+1, Len(s))
<1>1. Len(s) \in Nat
  BY LenProperties
<1>2. /\ before \in Seq(S) /\ Len(before) = i - 1
      /\ \A k \in 1..i - 1 : before[k] = s[k]
  BY <1>1, SubSeqProperties
<1>3. /\ after \in Seq(S) /\ Len(after) = Len(s) - i
      /\ \A k \in 1..Len(s) - i : after[k] = s[i + k]
  BY <1>1, SubSeqProperties
<1>4. RemoveAt(s, i) = before \o after
  BY DEF RemoveAt
<1> HIDE DEF before, after
<1> PICK r : r = before \o after
  OBVIOUS
<1>5. /\ r \in Seq(S) /\ Len(r) = Len(before) + Len(after)
      /\ \A k \in 1..Len(before) + Len(after) :
             r[k] = IF k <= Len(before) THEN before[k] ELSE after[k - Len(before)]
  BY <1>2, <1>3, ConcatProperties
<1>6. ASSUME NEW k \in 1..Len(s) - 1 PROVE r[k] = IF k < i THEN s[k] ELSE s[k + 1]
  <2>1. CASE k < i
    BY <1>1, <1>2, <1>3, <1>5, <2>1
  <2>2. CASE ~(k < i)
    <3>1. r[k] = after[k - (i - 1)]
      BY <1>1, <1>2, <1>3, <1>5, <2>2
    <3>2. k - (i - 1) \in 1..Len(s) - i /\ i + (k - (i - 1)) = k + 1
      BY <1>1, <2>2
    <3> QED BY <1>3, <3>1, <3>2, <2>2
  <2> QED BY <2>1, <2>2
<1> QED BY <1>1, <1>2, <1>3, <1>4, <1>5, <1>6

\* As many, each changed.
LEMMA EachChanged ==
    ASSUME NEW S, NEW s \in Seq(S), NEW f \in [1..Len(s) -> S]
    PROVE  f \in Seq(S) /\ Len(f) = Len(s)
<1>1. Len(s) \in Nat
  BY LenProperties
<1> QED BY <1>1, LenProperties

\* A frame more, at the end.
LEMMA FrameAdded ==
    ASSUME NEW s \in Seq(Frames), NEW f \in Frames, NEW t, t = Append(s, f)
    PROVE  /\ t \in Seq(Frames) /\ Len(s) \in Nat /\ Len(t) = Len(s) + 1 /\ t[Len(t)] = f
           /\ \A i \in 1..Len(s) : i \in 1..Len(t) /\ t[i] = s[i]
           /\ \A i \in 1..Len(t) : i \in 1..Len(s) \/ i = Len(t)
           /\ Len(t) \in 1..Len(t)
  BY AppendProperties, LenProperties

\* The first one heard.
LEMMA FrameHeard ==
    ASSUME NEW s \in Seq(Frames), s # <<>>, NEW t, t = Tail(s)
    PROVE  /\ t \in Seq(Frames) /\ Len(s) \in Nat /\ Len(t) = Len(s) - 1 /\ Len(t) \in Nat
           /\ Head(s) = s[1] /\ Head(s) \in Frames /\ 1 \in 1..Len(s)
           /\ \A i \in 1..Len(t) : i + 1 \in 1..Len(s) /\ t[i] = s[i + 1]
           /\ \A i \in 1..Len(s) : i = 1 \/ (i - 1 \in 1..Len(t) /\ t[i - 1] = s[i])
<1>1. Len(s) \in Nat \ {0}
  BY EmptySeq
<1>2. t \in Seq(Frames) /\ Len(t) = Len(s) - 1 /\ \A i \in 1..Len(t) : t[i] = s[i + 1]
  BY HeadTailProperties
<1>3. Head(s) = s[1] /\ Head(s) \in Frames
  BY <1>1, HeadTailProperties
<1>4. ASSUME NEW i \in 1..Len(s), i # 1 PROVE i - 1 \in 1..Len(t) /\ t[i - 1] = s[i]
  BY <1>1, <1>2, <1>4
<1> QED BY <1>1, <1>2, <1>3, <1>4

-----------------------------------------------------------------------------
(* The server's moves, each told at once by a stream that is open *)

Statuses == {"unwritten", "unread", "read", "deleted"}

\* A row only goes forward.
RowMoves(r) == \/ server'[r] = server[r]
               \/ server[r] = "unwritten" /\ server'[r] = "unread"
               \/ server[r] = "unread" /\ server'[r] = "read"
               \/ Holds(r) /\ server'[r] = "deleted"

\* The frame says what it tells, and tells of every row of the person's that moved.
Tells(f) ==
    /\ f.kind = "created" => ~f.all /\ \A r \in f.rows : server[r] = "unwritten" /\ server'[r] = "unread"
    /\ f.kind = "deleted" => /\ \A r \in f.rows : server'[r] = "deleted"
                             /\ f.all => \A r \in Own(person) : server'[r] \notin {"unread", "read"}
    /\ f.kind = "read" => f.rows = {} /\ ~f.all
    /\ \A r \in Own(person) : server'[r] # server[r] =>
           /\ server'[r] = "unread" => f.kind = "created" /\ r \in f.rows
           /\ server'[r] = "read" => f.kind = "read"
           /\ server'[r] = "deleted" => f.kind = "deleted" /\ r \in f.rows

Told == \/ /\ frames' = frames
           /\ stream = "open" => \A r \in Own(person) : server'[r] = server[r]
        \/ /\ stream = "open"
           /\ \E f \in Frames : f.rows \subseteq Own(person) /\ frames' = Append(frames, f) /\ Tells(f)

ServerMoves ==
    /\ UNCHANGED <<person, shown, stream, reads, history>>
    /\ server' \in [Rows -> Statuses] /\ \A r \in Rows : RowMoves(r)
    /\ \A r \in Rows : delete'[r] = None <=> delete[r] = None
    /\ Told

\* What such a move leaves of the frames: those on their way stay where they are.
LEMMA FramesStay ==
    ASSUME InboxInv, ServerMoves
    PROVE  /\ frames' \in Seq(Frames) /\ Len(frames) \in Nat /\ Len(frames') \in Nat
           /\ \A i \in 1..Len(frames) : i \in 1..Len(frames') /\ frames'[i] = frames[i]
           /\ frames' # <<>> => stream = "open"
<1> USE DEF InboxInv, TypesFit
<1>1. CASE frames' = frames
  BY <1>1, LenProperties
<1>2. CASE stream = "open" /\ \E f \in Frames : frames' = Append(frames, f)
  BY <1>2, FrameAdded, LenProperties
<1> QED BY <1>1, <1>2 DEF ServerMoves, Told

\* A new frame is the last; all the others were there.
LEMMA NewFrame ==
    ASSUME InboxInv, ServerMoves, NEW k \in 1..Len(frames'), k \notin 1..Len(frames)
    PROVE  /\ stream = "open" /\ k = Len(frames) + 1 /\ Len(frames') = Len(frames) + 1
           /\ frames'[k] \in Frames /\ frames'[k].rows \subseteq Own(person) /\ Tells(frames'[k])
<1> USE DEF InboxInv, TypesFit
<1>1. PICK f \in Frames : f.rows \subseteq Own(person) /\ frames' = Append(frames, f) /\ Tells(f)
  BY DEF ServerMoves, Told
<1>2. stream = "open"
  BY DEF ServerMoves, Told
<1> PICK t : t = frames'
  OBVIOUS
<1>3. k = Len(t) /\ t[k] = f /\ Len(t) = Len(frames) + 1
  BY <1>1, FrameAdded
<1> QED BY <1>1, <1>2, <1>3

\* What has just become of one of the person's rows is coming.
LEMMA MoveIsComing ==
    ASSUME InboxInv, ServerMoves, stream = "open", NEW r \in Own(person), server'[r] # server[r]
    PROVE  LET k == Len(frames')
           IN  /\ k \in 1..Len(frames') /\ \A i \in 1..Len(frames) : i < k
               /\ server'[r] = "unread" => frames'[k].kind = "created" /\ r \in frames'[k].rows
               /\ server'[r] = "deleted" => frames'[k].kind = "deleted" /\ r \in frames'[k].rows
               /\ server'[r] = "read" => frames'[k].kind = "read"
<1> USE DEF InboxInv, TypesFit
<1>1. PICK f \in Frames : frames' = Append(frames, f) /\ Tells(f)
  BY DEF ServerMoves, Told
<1> PICK t : t = frames'
  OBVIOUS
<1>2. t[Len(t)] = f /\ Len(t) \in 1..Len(t) /\ \A i \in 1..Len(frames) : i < Len(t)
  BY <1>1, FrameAdded
<1> QED BY <1>1, <1>2 DEF Tells

\* What was coming still is; what comes besides has just been written.
LEMMA ComingMoves ==
    ASSUME InboxInv, ServerMoves
    PROVE  /\ \A kind, r : Coming(kind, r) => Coming(kind, r)'
           /\ ReadComing => ReadComing'
           /\ \A r : Coming("created", r)' => Coming("created", r) \/ server[r] = "unwritten"
           /\ \A r \in Own(person) : stream = "open" /\ server'[r] # server[r] =>
                  /\ server'[r] = "unread" => Coming("created", r)'
                  /\ server'[r] = "deleted" => Coming("deleted", r)'
                  /\ server'[r] = "read" => ReadComing'
<1>1. \A kind, r : Coming(kind, r) => Coming(kind, r)'
  BY FramesStay DEF Coming
<1>2. ReadComing => ReadComing'
  BY FramesStay DEF ReadComing
<1>3. ASSUME NEW r, Coming("created", r)', ~Coming("created", r) PROVE server[r] = "unwritten"
  <2>1. PICK k \in 1..Len(frames') : frames'[k].kind = "created" /\ r \in frames'[k].rows
    BY <1>3 DEF Coming
  <2>2. k \notin 1..Len(frames)
    BY <1>3, <2>1, FramesStay DEF Coming
  <2> QED BY <2>1, <2>2, NewFrame DEF Tells
<1>4. ASSUME NEW r \in Own(person), stream = "open", server'[r] # server[r]
      PROVE  /\ server'[r] = "unread" => Coming("created", r)'
             /\ server'[r] = "deleted" => Coming("deleted", r)'
             /\ server'[r] = "read" => ReadComing'
  BY <1>4, MoveIsComing DEF Coming, ReadComing
<1> QED BY <1>1, <1>2, <1>3, <1>4

LEMMA MovesFrames == ASSUME InboxInv, ServerMoves PROVE FramesFit'
<1> USE DEF InboxInv, FramesFit
<1>1. person' = person /\ Own(person)' = Own(person) /\ Own(person) \subseteq Rows /\ \A r \in Rows : RowMoves(r)
  BY DEF ServerMoves, Own
<1>2. \A i \in 1..Len(frames) : i \in 1..Len(frames') /\ frames'[i] = frames[i] /\ frames[i] \in Frames
  BY FramesStay, ElementOfSeq DEF TypesFit
<1>3. \A i \in 1..Len(frames) : frames[i].rows \subseteq Own(person)
  BY DEF TypesFit, TypeOK
<1>4. FramesTold'
  <2> SUFFICES ASSUME NEW i \in 1..Len(frames'), NEW r \in frames'[i].rows
               PROVE  /\ frames'[i].kind = "created" => server'[r] # "unwritten"
                      /\ frames'[i].kind = "deleted" => server'[r] = "deleted"
    BY DEF FramesTold, Written
  <2>1. CASE i \in 1..Len(frames)
    BY <1>1, <1>2, <1>3, <2>1 DEF FramesTold, Written, RowMoves, Holds
  <2>2. CASE i \notin 1..Len(frames)
    BY <2>2, NewFrame DEF Tells
  <2> QED BY <2>1, <2>2
<1>5. CreatedOnce'
  <2> SUFFICES ASSUME NEW i \in 1..Len(frames'), NEW j \in 1..Len(frames'), NEW r \in Rows,
                      r \in frames'[i].rows, r \in frames'[j].rows, frames'[j].kind = "created"
               PROVE  /\ frames'[i].kind = "created" => i = j
                      /\ frames'[i].kind = "deleted" => j < i
    BY DEF CreatedOnce
  <2>1. CASE i \in 1..Len(frames) /\ j \in 1..Len(frames)
    BY <1>2, <2>1 DEF CreatedOnce
  <2>2. CASE j \notin 1..Len(frames)
    <3>1. server[r] = "unwritten" /\ server'[r] = "unread"
      BY <2>2, NewFrame DEF Tells
    <3>2. CASE i \in 1..Len(frames)
      BY <1>2, <3>1, <3>2 DEF FramesTold, Written
    <3>3. CASE i \notin 1..Len(frames)
      BY <2>2, <3>1, <3>3, NewFrame DEF Tells
    <3> QED BY <3>2, <3>3
  <2>3. CASE i \notin 1..Len(frames) /\ j \in 1..Len(frames)
    <3>1. j < i
      BY <2>3, NewFrame, FramesStay
    <3>2. server[r] # "unwritten"
      BY <1>2, <2>3 DEF FramesTold, Written
    <3> QED BY <2>3, <3>1, <3>2, NewFrame DEF Tells
  <2> QED BY <2>1, <2>2, <2>3
<1>6. EmptiedBefore'
  <2> SUFFICES ASSUME NEW i \in 1..Len(frames'), frames'[i].all
               PROVE  /\ frames'[i].kind = "deleted"
                      /\ \A r \in Own(person) : server'[r] \in {"unread", "read"} =>
                            \E j \in 1..Len(frames') : i < j /\ frames'[j].kind = "created" /\ r \in frames'[j].rows
    BY <1>1 DEF EmptiedBefore, Holds
  <2>1. CASE i \in 1..Len(frames)
    <3>1. frames'[i].kind = "deleted" /\ stream = "open"
      BY <1>2, <2>1, FramesStay DEF EmptiedBefore, TypesFit
    <3>2. ASSUME NEW r \in Own(person), server'[r] \in {"unread", "read"}
          PROVE  \E j \in 1..Len(frames') : i < j /\ frames'[j].kind = "created" /\ r \in frames'[j].rows
      <4>1. CASE Holds(r)
        BY <1>2, <2>1, <4>1 DEF EmptiedBefore
      <4>2. CASE ~Holds(r)
        BY <1>1, <2>1, <3>1, <3>2, <4>2, MoveIsComing DEF RowMoves, Holds
      <4> QED BY <4>1, <4>2
    <3> QED BY <3>1, <3>2
  <2>2. CASE i \notin 1..Len(frames)
    BY <2>2, NewFrame DEF Tells, Frames
  <2> QED BY <2>1, <2>2
<1>7. ToldInTurn'
  <2> SUFFICES ASSUME NEW i \in 1..Len(frames'), NEW r \in frames'[i].rows, frames'[i].kind = "created"
               PROVE  /\ server'[r] = "deleted" =>
                            \E j \in 1..Len(frames') : i < j /\ frames'[j].kind = "deleted" /\ r \in frames'[j].rows
                      /\ server'[r] = "read" => \E j \in 1..Len(frames') : i < j /\ frames'[j].kind = "read"
    BY DEF ToldInTurn
  <2>1. CASE i \in 1..Len(frames)
    <3>1. r \in Own(person) /\ stream = "open" /\ r \in frames[i].rows /\ frames[i].kind = "created"
      BY <1>2, <1>3, <2>1, FramesStay DEF TypesFit
    <3>2. CASE server'[r] = server[r]
      BY <1>2, <2>1, <3>1, <3>2 DEF ToldInTurn
    <3>3. CASE server'[r] # server[r]
      BY <2>1, <3>1, <3>3, MoveIsComing
    <3> QED BY <3>2, <3>3
  <2>2. CASE i \notin 1..Len(frames)
    BY <2>2, NewFrame DEF Tells
  <2> QED BY <2>1, <2>2
<1> QED BY <1>4, <1>5, <1>6, <1>7

LEMMA MovesRemembered == ASSUME InboxInv, ServerMoves PROVE Remembered' /\ Promised'
<1> USE DEF InboxInv
<1>1. /\ UNCHANGED <<person, shown, heard, gone, putBack>> /\ Shown' = Shown /\ Shown \subseteq Rows
      /\ Own(person)' = Own(person) /\ Own(person) \subseteq Rows
      /\ \A r \in Rows : RowMoves(r) /\ (delete'[r] = None <=> delete[r] = None)
  BY DEF ServerMoves, history, Shown, Own
<1>2. \A r : Coming("created", r)' => Coming("created", r) \/ server[r] = "unwritten"
  BY ComingMoves
<1>3. heard \subseteq Rows /\ gone \subseteq Rows
  BY <1>1 DEF TypesFit, TypeOK
<1>4. Remembered'
  BY <1>1, <1>2, <1>3 DEF Remembered, Written, RowMoves, Holds
<1>5. Promised'
  BY <1>1, <1>3 DEF Promised, OnlyTheirOwn, NothingHeardIsLost, NothingGoneComesBack, Remembered, Written,
     RowMoves, Holds
<1> QED BY <1>4, <1>5

LEMMA MovesReads == ASSUME InboxInv, ServerMoves PROVE ReadsFit' /\ Ahead'
<1> USE DEF InboxInv
<1>1. /\ UNCHANGED <<person, shown, stream, reads, heard, gone, putBack, behind>> /\ Shown' = Shown
      /\ Own(person)' = Own(person) /\ Own(person) \subseteq Rows
      /\ \A r \in Rows : RowMoves(r) /\ (delete'[r] = None <=> delete[r] = None)
  BY DEF ServerMoves, history, Shown, Own
<1>2. heard \subseteq Rows /\ gone \subseteq Rows
  BY <1>1 DEF TypesFit, TypeOK
<1>3. ASSUME NEW q \in Read, ReadFits(q) PROVE ReadFits(q)'
  <2>1. AnswerFits(q)'
    BY <1>1, <1>3 DEF ReadFits, AnswerFits, Own, Written, RowMoves, Holds
  <2>2. Knows(q) => Knows(q)'
    BY <1>1, <1>2 DEF Knows, Kept, Remembered, Written, RowMoves, Holds
  <2>3. ASSUME stream = "open", NEW r \in Own(person) \ putBack, FollowsRow(q, r) PROVE FollowsRow(q, r)'
    BY <1>1, <2>3, ComingMoves DEF FollowsRow, Kept, RowMoves, Holds, Remembered, Written
  <2>4. ASSUME stream = "open", NEW r \in Own(person) \ putBack, AnswersRow(q, r), q.answer # None
        PROVE  AnswersRow(q, r)'
    BY <1>1, <2>4, ComingMoves DEF AnswersRow, Kept, RowMoves, Holds
  <2>5. stream = "open" /\ Follows(q) => Follows(q)'
    BY <1>1, <2>3, <2>4 DEF Follows
  <2> QED BY <1>1, <1>3, <2>1, <2>2, <2>5 DEF ReadFits
<1>4. ReadsFit'
  BY <1>1, <1>3, ElementOfSeq DEF ReadsFit, TypesFit, Older, Kept
<1>5. ASSUME stream = "open", NEW r \in Own(person) \ putBack, RowInStep(r) PROVE RowInStep(r)'
  BY <1>1, <1>5, ComingMoves DEF RowInStep, RowMoves, Holds
<1>6. Ahead'
  BY <1>1, <1>5 DEF Ahead
<1> QED BY <1>4, <1>6

LEMMA ServerTypes == ASSUME InboxInv PROVE server \in [Rows -> Statuses] /\ \A p : Own(p) \subseteq Rows
  BY DEF InboxInv, TypesFit, TypeOK, Statuses, Own

\* A push reaches the page that is signed in as its person.
LEMMA PushTells ==
    ASSUME InboxInv, NEW p, NEW f \in Frames, Push(p, f), f.rows \subseteq Own(p), Tells(f),
           \A r \in Rows : server'[r] # server[r] => r \in Own(p)
    PROVE  Told
<1>1. CASE stream = "open" /\ person = p
  BY <1>1 DEF Push, Told
<1>2. CASE ~(stream = "open" /\ person = p)
  BY <1>2 DEF Push, Told, Own
<1> QED BY <1>1, <1>2

LEMMA FrameIs ==
    ASSUME NEW kind \in {"created", "deleted", "read"}, NEW rows \in SUBSET Rows, NEW all \in BOOLEAN
    PROVE  /\ Frame(kind, rows, all) \in Frames /\ Frame(kind, rows, all).kind = kind
           /\ Frame(kind, rows, all).rows = rows /\ Frame(kind, rows, all).all = all
  BY DEF Frame, Frames

\* One row written or deleted.
LEMMA RowMovesAlone ==
    ASSUME InboxInv, NEW r \in Rows, NEW kind \in {"created", "deleted"},
           kind = "created" => server[r] = "unwritten", kind = "deleted" => Holds(r),
           server' = [server EXCEPT ![r] = IF kind = "created" THEN "unread" ELSE "deleted"],
           Push(r[1], Frame(kind, {r}, FALSE)),
           UNCHANGED <<person, shown, stream, reads, history>>,
           \A s \in Rows : delete'[s] = None <=> delete[s] = None
    PROVE  ServerMoves
<1>0. PICK f : f = Frame(kind, {r}, FALSE)
  OBVIOUS
<1>1. f \in Frames /\ f.kind = kind /\ f.rows = {r} /\ ~f.all
  BY <1>0 DEF Frame, Frames
<1>2. /\ server' \in [Rows -> Statuses] /\ \A s \in Rows : s # r => server'[s] = server[s]
      /\ server'[r] = IF kind = "created" THEN "unread" ELSE "deleted"
  BY ServerTypes DEF Statuses
<1>3. Own(person) \subseteq Rows /\ r \in Own(r[1])
  BY DEF Own
<1>4. Tells(f)
  BY <1>1, <1>2, <1>3 DEF Tells
<1>5. Told
  <2>1. Push(r[1], f) /\ f.rows \subseteq Own(r[1]) /\ \A s \in Rows : server'[s] # server[s] => s \in Own(r[1])
    BY <1>0, <1>1, <1>2, <1>3
  <2> QED BY <1>1, <1>4, <2>1, PushTells
<1> QED BY <1>2, <1>5 DEF ServerMoves, RowMoves

LEMMA WriteMoves == ASSUME InboxInv, NEW r \in Rows, Write(r) PROVE ServerMoves
<1>1. Push(r[1], Frame("created", {r}, FALSE)) /\ server[r] = "unwritten"
  BY DEF Write
<1>2. server' = [server EXCEPT ![r] = "unread"]
  BY DEF Write
<1>3. UNCHANGED <<person, shown, stream, reads, history, delete>>
  BY DEF Write
<1> QED BY <1>1, <1>2, <1>3, RowMovesAlone

LEMMA DeletedElsewhereMoves == ASSUME InboxInv, NEW r \in Rows, DeletedElsewhere(r) PROVE ServerMoves
<1>1. Push(r[1], Frame("deleted", {r}, FALSE)) /\ Holds(r)
  BY DEF DeletedElsewhere
<1>2. server' = [server EXCEPT ![r] = "deleted"]
  BY DEF DeletedElsewhere
<1>3. UNCHANGED <<person, shown, stream, reads, history, delete>>
  BY DEF DeletedElsewhere
<1> QED BY <1>1, <1>2, <1>3, RowMovesAlone

\* Nothing moves, whatever became of a call.
LEMMA NothingMoves ==
    ASSUME InboxInv, UNCHANGED <<server, frames, person, shown, stream, reads, history>>,
           \A s \in Rows : delete'[s] = None <=> delete[s] = None
    PROVE  ServerMoves
  BY ServerTypes DEF ServerMoves, Told, RowMoves

\* A deletion's call is answered; no other call is touched.
LEMMA DeletionAnswered ==
    ASSUME InboxInv, NEW r \in Rows, ServerDeletes(r)
    PROVE  /\ delete' \in [Rows -> Deletion \cup {None}]
           /\ \A s \in Rows : s # r => delete'[s] = delete[s]
           /\ delete[r] # None /\ delete'[r] # None /\ delete'[r].was = delete[r].was
           /\ delete'[r].answer = "ok" => ~Holds(r)'
           /\ \A s \in Rows : delete'[s] = None <=> delete[s] = None
<1>1. delete \in [Rows -> Deletion \cup {None}] /\ delete[r] \in Deletion
  BY DEF InboxInv, TypesFit, TypeOK, ServerDeletes
<1>2. PICK reached \in BOOLEAN, a \in {"ok", "failed"} :
          /\ a = "ok" => reached
          /\ delete' = [delete EXCEPT ![r] = [was |-> @.was, answer |-> a]]
          /\ IF reached /\ Holds(r)
             THEN server' = [server EXCEPT ![r] = "deleted"]
             ELSE UNCHANGED server
  BY DEF ServerDeletes
<1>3. [was |-> delete[r].was, answer |-> a] \in Deletion
  BY <1>1 DEF Deletion
<1>4. ~(reached /\ Holds(r)) => Holds(r)' = Holds(r)
  BY <1>2 DEF Holds
<1>5. reached /\ Holds(r) => ~Holds(r)'
  BY <1>2, ServerTypes DEF Holds
<1> QED BY <1>1, <1>2, <1>3, <1>4, <1>5, NoneIsNothing

LEMMA ServerDeletesMoves == ASSUME InboxInv, NEW r \in Rows, ServerDeletes(r) PROVE ServerMoves
<1>1. \A s \in Rows : delete'[s] = None <=> delete[s] = None
  BY DeletionAnswered
<1>2. UNCHANGED <<person, shown, stream, reads, history>>
  BY DEF ServerDeletes
<1>3. \/ /\ Holds(r) /\ server' = [server EXCEPT ![r] = "deleted"]
         /\ Push(r[1], Frame("deleted", {r}, FALSE))
      \/ UNCHANGED <<server, frames>>
  BY DEF ServerDeletes
<1> QED BY <1>1, <1>2, <1>3, RowMovesAlone, NothingMoves

LEMMA ServerReadsAllMoves == ASSUME InboxInv, ServerReadsAll PROVE ServerMoves
<1>1. UNCHANGED <<person, shown, stream, reads, history, delete>>
  BY DEF ServerReadsAll
<1>2. CASE UNCHANGED <<server, frames>>
  BY <1>1, <1>2, NothingMoves
<1>3. CASE server' = AllRead(bell.for) /\ Push(bell.for, Frame("read", {}, FALSE))
  <2> PICK p : p = bell.for
    OBVIOUS
  <2> PICK f : f = Frame("read", {}, FALSE)
    OBVIOUS
  <2>1. f \in Frames /\ f.kind = "read" /\ f.rows = {} /\ ~f.all /\ Push(p, f)
    BY <1>3, FrameIs
  <2>2. /\ server' \in [Rows -> Statuses]
        /\ \A r \in Rows : server'[r] = IF r[1] = p /\ server[r] = "unread" THEN "read" ELSE server[r]
    BY <1>3, ServerTypes DEF AllRead, Statuses
  <2>3. Tells(f)
    BY <2>1, <2>2, ServerTypes DEF Tells
  <2>4. Told
    BY <2>1, <2>2, <2>3, PushTells DEF Own
  <2> QED BY <1>1, <2>2, <2>4 DEF ServerMoves, RowMoves
<1> QED BY <1>2, <1>3 DEF ServerReadsAll

LEMMA ServerClearsMoves == ASSUME InboxInv, ServerClears PROVE ServerMoves
<1>1. UNCHANGED <<person, shown, stream, reads, history, delete>>
  BY DEF ServerClears
<1>2. CASE UNCHANGED <<server, frames>>
  BY <1>1, <1>2, NothingMoves
<1>3. CASE /\ server' = AllDeleted(clear.for)
           /\ Push(clear.for, Frame("deleted", {r \in Own(clear.for) : Holds(r)}, TRUE))
  <2> PICK p : p = clear.for
    OBVIOUS
  <2> PICK rows : rows = {r \in Own(p) : Holds(r)}
    OBVIOUS
  <2>1. rows \in SUBSET Rows /\ rows \subseteq Own(p)
    BY ServerTypes
  <2> PICK f : f = Frame("deleted", rows, TRUE)
    OBVIOUS
  <2>2. f \in Frames /\ f.kind = "deleted" /\ f.rows = rows /\ Push(p, f)
    BY <1>3, <2>1, FrameIs
  <2>3. /\ server' \in [Rows -> Statuses]
        /\ \A r \in Rows : server'[r] = IF r[1] = p /\ Holds(r) THEN "deleted" ELSE server[r]
    BY <1>3, ServerTypes DEF AllDeleted, Statuses
  <2>4. CASE person = p
    <3>1. Tells(f)
      BY <2>2, <2>3, <2>4, ServerTypes DEF Tells, Own, Holds
    <3> QED BY <1>1, <2>1, <2>2, <2>3, <3>1, PushTells DEF ServerMoves, RowMoves, Own
  <2>5. CASE person # p
    <3>1. frames' = frames /\ \A r \in Own(person) : server'[r] = server[r]
      BY <2>2, <2>3, <2>5 DEF Push, Own
    <3> QED BY <1>1, <2>3, <3>1 DEF ServerMoves, RowMoves, Told
  <2> QED BY <2>4, <2>5
<1> QED BY <1>2, <1>3 DEF ServerClears

Server == \/ \E r \in Rows : Write(r) \/ DeletedElsewhere(r) \/ ServerDeletes(r)
          \/ ServerReadsAll \/ ServerClears

LEMMA ServerSteps == ASSUME InboxInv, Server PROVE ServerMoves
  BY WriteMoves, DeletedElsewhereMoves, ServerDeletesMoves, ServerReadsAllMoves, ServerClearsMoves DEF Server

LEMMA BellAnswered ==
    ASSUME InboxInv, ServerReadsAll PROVE bell' \in Call /\ UNCHANGED <<clear, delete, moves>>
<1>1. bell \in Call
  BY DEF InboxInv, TypesFit, TypeOK, ServerReadsAll
<1>2. PICK a \in {"ok", "failed"} : bell' = [bell EXCEPT !.answer = a]
  BY DEF ServerReadsAll
<1> QED BY <1>1, <1>2 DEF Call, ServerReadsAll

LEMMA ClearAnswered ==
    ASSUME InboxInv, ServerClears
    PROVE  /\ clear' \in Call /\ UNCHANGED <<bell, delete, moves>> /\ clear # None
           /\ clear'.for = clear.for /\ clear'.ids = clear.ids
           /\ clear'.answer = "ok" => \A r \in Own(clear.for) : ~Holds(r)'
<1>1. clear \in Call
  BY DEF InboxInv, TypesFit, TypeOK, ServerClears
<1>2. PICK reached \in BOOLEAN, a \in {"ok", "failed"} :
          /\ a = "ok" => reached
          /\ clear' = [clear EXCEPT !.answer = a]
          /\ reached => server' = AllDeleted(clear.for)
  BY DEF ServerClears
<1>3. clear' \in Call /\ clear'.for = clear.for /\ clear'.ids = clear.ids /\ clear'.answer = a
  BY <1>1, <1>2 DEF Call
<1>4. ASSUME reached, NEW r \in Own(clear.for) PROVE ~Holds(r)'
  <2>1. server'[r] = IF r[1] = clear.for /\ Holds(r) THEN "deleted" ELSE server[r]
    BY <1>2, <1>4 DEF AllDeleted, Own
  <2> QED BY <2>1 DEF Own, Holds
<1> QED BY <1>2, <1>3, <1>4 DEF ServerClears

LEMMA ServerCalls ==
    ASSUME InboxInv, Server
    PROVE  /\ bell' \in Call \cup {None} /\ clear' \in Call \cup {None}
           /\ delete' \in [Rows -> Deletion \cup {None}] /\ moves' \in 0..MaxMoves
<1>1. /\ bell \in Call \cup {None} /\ clear \in Call \cup {None}
      /\ delete \in [Rows -> Deletion \cup {None}] /\ moves \in 0..MaxMoves
  BY DEF InboxInv, TypesFit, TypeOK
<1>2. ASSUME NEW r \in Rows, Write(r) \/ DeletedElsewhere(r)
      PROVE  UNCHANGED <<bell, clear, delete>> /\ moves' \in 0..MaxMoves
  <2>1. UNCHANGED <<bell, clear, delete>> /\ Move
    BY <1>2 DEF Write, DeletedElsewhere
  <2> QED BY <1>1, <2>1, InboxBounds DEF Move
<1>3. ASSUME NEW r \in Rows, ServerDeletes(r)
      PROVE  delete' \in [Rows -> Deletion \cup {None}] /\ UNCHANGED <<bell, clear, moves>>
  <2>1. delete' \in [Rows -> Deletion \cup {None}]
    BY <1>3, DeletionAnswered
  <2> QED BY <1>3, <2>1 DEF ServerDeletes
<1> QED BY <1>1, <1>2, <1>3, BellAnswered, ClearAnswered DEF Server

LEMMA ServerKeepsTypes == ASSUME InboxInv, Server PROVE TypesFit'
<1> USE DEF InboxInv
<1>1. /\ UNCHANGED <<person, shown, stream, reads, heard, gone, putBack, behind>>
      /\ server' \in [Rows -> Statuses] /\ Own(person)' = Own(person)
  BY ServerSteps DEF ServerMoves, history, Own
<1>2. /\ frames' \in Seq(Frames)
      /\ frames' # <<>> => stream = "open"
      /\ \A i \in 1..Len(frames) : i \in 1..Len(frames') /\ frames'[i] = frames[i]
  BY ServerSteps, FramesStay
<1>3. \A i \in 1..Len(frames') : frames'[i] \in Frames
  <2> PICK t : t = frames'
    OBVIOUS
  <2> QED BY <1>2, ElementOfSeq
<1>4. ASSUME NEW i \in 1..Len(frames')
      PROVE  frames'[i].kind \in {"created", "deleted", "read"} /\ frames'[i].rows \subseteq Own(person)
  <2>1. CASE i \in 1..Len(frames)
    BY <1>2, <2>1 DEF TypesFit, TypeOK
  <2>2. CASE i \notin 1..Len(frames)
    BY <1>3, <2>2, ServerSteps, NewFrame DEF Frames
  <2> QED BY <2>1, <2>2
<1>5. TypeOK'
  BY <1>1, <1>4, ServerCalls DEF TypesFit, TypeOK, Statuses
<1>6. reads' = reads /\ stream' = stream /\ person' = person
  BY <1>1
<1> QED BY <1>2, <1>5, <1>6 DEF TypesFit

LEMMA ServerKeepsCalls == ASSUME InboxInv, Server PROVE CallsFit'
<1> USE DEF InboxInv
<1>1. /\ UNCHANGED <<person, heard, gone, putBack>> /\ \A r \in Rows : RowMoves(r)
      /\ \A p : Own(p) \subseteq Rows
  BY ServerSteps, ServerTypes DEF ServerMoves, history
<1>2. \A r \in Rows : (Written(r) => Written(r)') /\ (~Holds(r) /\ Written(r) => ~Holds(r)')
  BY <1>1 DEF RowMoves, Written, Holds
<1>3. DeletesFit'
  <2>1. CASE delete' = delete
    BY <1>2, <2>1 DEF CallsFit, DeletesFit
  <2>2. ASSUME NEW r \in Rows, ServerDeletes(r) PROVE DeletesFit'
    BY <1>2, <2>2, DeletionAnswered DEF CallsFit, DeletesFit
  <2>3. UNCHANGED delete \/ \E r \in Rows : ServerDeletes(r)
    BY BellAnswered, ClearAnswered DEF Server, Write, DeletedElsewhere
  <2> QED BY <2>1, <2>2, <2>3
<1>4. ClearFits'
  <2>1. UNCHANGED clear \/ ServerClears
    BY BellAnswered DEF Server, Write, DeletedElsewhere, ServerDeletes
  <2>2. clear' # None => clear # None /\ clear'.for = clear.for /\ clear'.ids = clear.ids
    BY <2>1, ClearAnswered
  <2>3. clear' # None => clear'.ids \subseteq Rows
    BY <1>1, <2>2 DEF TypesFit, TypeOK, Call
  <2>4. clear' # None /\ clear'.answer = "ok" => \A r \in clear.ids \cap Own(clear.for) : ~Holds(r)'
    <3>1. CASE UNCHANGED clear
      BY <1>2, <2>3, <3>1 DEF CallsFit, ClearFits
    <3>2. CASE ServerClears
      BY <3>2, ClearAnswered
    <3> QED BY <2>1, <3>1, <3>2
  <2>5. \A r : Coming("created", r)' => Coming("created", r) \/ server[r] = "unwritten"
    BY ServerSteps, ComingMoves
  <2>6. clear # None => \A r \in clear.ids : Written(r)' /\ Written(r)
    BY <1>2 DEF CallsFit, ClearFits, TypesFit, TypeOK, Call
  <2>7. clear # None => \A r \in clear.ids : ~Coming("created", r) => ~Coming("created", r)'
    BY <2>5, <2>6 DEF Written
  <2>8. clear' # None => Own(clear.for)' = Own(clear.for)
    BY <2>2 DEF Own
  <2> QED BY <1>1, <2>2, <2>4, <2>6, <2>7, <2>8 DEF CallsFit, ClearFits
<1> QED BY <1>3, <1>4 DEF CallsFit

LEMMA ServerKeeps == ASSUME InboxInv, Server PROVE InboxInv'
<1>1. ServerMoves
  BY ServerSteps
<1> QED BY <1>1, ServerKeepsTypes, ServerKeepsCalls, MovesFrames, MovesRemembered, MovesReads DEF InboxInv

-----------------------------------------------------------------------------
(* A frame is heard *)

\* What the first frame says, and what is still to come after it.
LEMMA FirstFrame ==
    ASSUME InboxInv, frames # <<>>, frames' = Tail(frames)
    PROVE  /\ stream = "open" /\ Head(frames) \in Frames /\ Head(frames).rows \subseteq Own(person)
           /\ \A kind, r : Coming(kind, r)' => Coming(kind, r)
           /\ \A kind, r : Coming(kind, r) =>
                  Coming(kind, r)' \/ (Head(frames).kind = kind /\ r \in Head(frames).rows)
           /\ ReadComing => ReadComing' \/ Head(frames).kind = "read"
           /\ Head(frames).kind = "created" => \A r \in Head(frames).rows :
                  /\ Written(r) /\ ~Coming("created", r)'
                  /\ server[r] = "deleted" => Coming("deleted", r)'
                  /\ server[r] = "read" => ReadComing'
           /\ Head(frames).kind = "deleted" => \A r \in Head(frames).rows :
                  server[r] = "deleted" /\ ~Coming("created", r)'
           /\ Head(frames).all => /\ Head(frames).kind = "deleted"
                                  /\ \A r \in Own(person) : Holds(r) => Coming("created", r)'
<1> USE DEF InboxInv
<1> PICK t : t = frames'
  OBVIOUS
<1> PICK f : f = Head(frames)
  OBVIOUS
<1>1. /\ frames \in Seq(Frames) /\ frames # <<>> /\ stream = "open"
  BY DEF TypesFit
<1>2. /\ t \in Seq(Frames) /\ Len(t) = Len(frames) - 1 /\ Len(frames) \in Nat
      /\ f = frames[1] /\ f \in Frames /\ 1 \in 1..Len(frames)
      /\ \A i \in 1..Len(t) : i + 1 \in 1..Len(frames) /\ t[i] = frames[i + 1]
      /\ \A i \in 1..Len(frames) : i = 1 \/ (i - 1 \in 1..Len(t) /\ t[i - 1] = frames[i])
  BY <1>1, FrameHeard
<1>3. f.rows \subseteq Own(person) /\ f.rows \subseteq Rows
  BY <1>2 DEF TypesFit, TypeOK, Own
<1>4. \A kind, r : Coming(kind, r)' => Coming(kind, r)
  BY <1>2 DEF Coming
<1>5. ASSUME NEW kind, NEW r, Coming(kind, r) PROVE Coming(kind, r)' \/ (f.kind = kind /\ r \in f.rows)
  <2>1. PICK i \in 1..Len(frames) : frames[i].kind = kind /\ r \in frames[i].rows
    BY <1>5 DEF Coming
  <2>2. i = 1 \/ (i - 1 \in 1..Len(t) /\ t[i - 1] = frames[i])
    BY <1>2
  <2> QED BY <1>2, <2>1, <2>2 DEF Coming
<1>6. ReadComing => ReadComing' \/ f.kind = "read"
  BY <1>2 DEF ReadComing
<1>7. \A kind, r : (\E j \in 1..Len(frames) : 1 < j /\ frames[j].kind = kind /\ r \in frames[j].rows)
                       <=> Coming(kind, r)'
  BY <1>2 DEF Coming
<1>8. (\E j \in 1..Len(frames) : 1 < j /\ frames[j].kind = "read") => ReadComing'
  BY <1>2 DEF ReadComing
<1>9. ASSUME f.kind = "created", NEW r \in f.rows
      PROVE  /\ Written(r) /\ ~Coming("created", r)'
             /\ server[r] = "deleted" => Coming("deleted", r)'
             /\ server[r] = "read" => ReadComing'
  <2>1. Written(r)
    BY <1>2, <1>9 DEF FramesFit, FramesTold
  <2>2. ~Coming("created", r)'
    BY <1>2, <1>3, <1>7, <1>9 DEF FramesFit, CreatedOnce
  <2>3. /\ server[r] = "deleted" => Coming("deleted", r)'
        /\ server[r] = "read" => ReadComing'
    BY <1>2, <1>7, <1>8, <1>9 DEF FramesFit, ToldInTurn
  <2> QED BY <2>1, <2>2, <2>3
<1>10. ASSUME f.kind = "deleted", NEW r \in f.rows
       PROVE  server[r] = "deleted" /\ ~Coming("created", r)'
  <2>1. server[r] = "deleted"
    BY <1>2, <1>10 DEF FramesFit, FramesTold
  <2>2. ~Coming("created", r)'
    BY <1>2, <1>3, <1>7, <1>10 DEF FramesFit, CreatedOnce
  <2> QED BY <2>1, <2>2
<1>11. f.all => /\ f.kind = "deleted"
                /\ \A r \in Own(person) : Holds(r) => Coming("created", r)'
  BY <1>2, <1>7 DEF FramesFit, EmptiedBefore
<1> QED BY <1>1, <1>2, <1>3, <1>4, <1>5, <1>6, <1>9, <1>10, <1>11

LEMMA RestFits ==
    ASSUME InboxInv, frames # <<>>, frames' = Tail(frames), UNCHANGED <<server, person>>
    PROVE  /\ FramesFit' /\ frames' \in Seq(Frames)
           /\ \A i \in 1..Len(frames') : /\ frames'[i].kind \in {"created", "deleted", "read"}
                                         /\ frames'[i].rows \subseteq Own(person)'
<1> USE DEF InboxInv
<1> PICK t : t = frames'
  OBVIOUS
<1>1. /\ t \in Seq(Frames) /\ Len(t) = Len(frames) - 1 /\ Len(frames) \in Nat
      /\ \A i \in 1..Len(t) : i + 1 \in 1..Len(frames) /\ t[i] = frames[i + 1]
      /\ \A i \in 1..Len(frames) : i = 1 \/ (i - 1 \in 1..Len(t) /\ t[i - 1] = frames[i])
  BY FrameHeard DEF TypesFit
<1>2. Own(person)' = Own(person)
  BY DEF Own
<1>3. FramesTold'
  BY <1>1 DEF FramesFit, FramesTold, Written
<1>4. CreatedOnce'
  <2> SUFFICES ASSUME NEW i \in 1..Len(t), NEW j \in 1..Len(t), NEW r \in Rows,
                      r \in t[i].rows, r \in t[j].rows, t[j].kind = "created"
               PROVE  /\ t[i].kind = "created" => i = j
                      /\ t[i].kind = "deleted" => j < i
    BY DEF CreatedOnce
  <2>1. /\ i + 1 \in 1..Len(frames) /\ j + 1 \in 1..Len(frames)
        /\ t[i] = frames[i + 1] /\ t[j] = frames[j + 1]
    BY <1>1
  <2>2. /\ t[i].kind = "created" => i + 1 = j + 1
        /\ t[i].kind = "deleted" => j + 1 < i + 1
    BY <2>1 DEF FramesFit, CreatedOnce
  <2> QED BY <2>2
<1>5. ASSUME NEW i \in 1..Len(t), NEW kind, NEW r,
             \E j \in 1..Len(frames) : i + 1 < j /\ frames[j].kind = kind /\ r \in frames[j].rows
      PROVE  \E j \in 1..Len(t) : i < j /\ t[j].kind = kind /\ r \in t[j].rows
  <2>1. PICK j \in 1..Len(frames) : i + 1 < j /\ frames[j].kind = kind /\ r \in frames[j].rows
    BY <1>5
  <2>2. j - 1 \in 1..Len(t) /\ t[j - 1] = frames[j] /\ i < j - 1
    BY <1>1, <2>1
  <2> QED BY <2>1, <2>2
<1>6. ASSUME NEW i \in 1..Len(t), \E j \in 1..Len(frames) : i + 1 < j /\ frames[j].kind = "read"
      PROVE  \E j \in 1..Len(t) : i < j /\ t[j].kind = "read"
  <2>1. PICK j \in 1..Len(frames) : i + 1 < j /\ frames[j].kind = "read"
    BY <1>6
  <2>2. j - 1 \in 1..Len(t) /\ t[j - 1] = frames[j] /\ i < j - 1
    BY <1>1, <2>1
  <2> QED BY <2>1, <2>2
<1>7. EmptiedBefore'
  <2>1. ASSUME NEW i \in 1..Len(t), t[i].all
        PROVE  /\ t[i].kind = "deleted"
               /\ \A r \in Own(person) : Holds(r) =>
                      \E j \in 1..Len(t) : i < j /\ t[j].kind = "created" /\ r \in t[j].rows
    <3>1. i + 1 \in 1..Len(frames) /\ t[i] = frames[i + 1]
      BY <1>1
    <3>2. /\ t[i].kind = "deleted"
          /\ \A r \in Own(person) : Holds(r) =>
                 \E j \in 1..Len(frames) : i + 1 < j /\ frames[j].kind = "created" /\ r \in frames[j].rows
      BY <2>1, <3>1 DEF FramesFit, EmptiedBefore
    <3> QED BY <3>2, <1>5
  <2> QED BY <1>2, <2>1 DEF EmptiedBefore, Holds
<1>8. ToldInTurn'
  <2>0. ASSUME NEW i \in 1..Len(t), NEW r \in t[i].rows, t[i].kind = "created"
        PROVE  /\ server[r] = "deleted" =>
                      \E j \in 1..Len(t) : i < j /\ t[j].kind = "deleted" /\ r \in t[j].rows
               /\ server[r] = "read" => \E j \in 1..Len(t) : i < j /\ t[j].kind = "read"
    <3>1. i + 1 \in 1..Len(frames) /\ t[i] = frames[i + 1]
      BY <1>1
    <3>2. server[r] = "deleted" =>
             \E j \in 1..Len(frames) : i + 1 < j /\ frames[j].kind = "deleted" /\ r \in frames[j].rows
      BY <2>0, <3>1 DEF FramesFit, ToldInTurn
    <3>3. server[r] = "read" => \E j \in 1..Len(frames) : i + 1 < j /\ frames[j].kind = "read"
      BY <2>0, <3>1 DEF FramesFit, ToldInTurn
    <3>4. server[r] = "deleted" => \E j \in 1..Len(t) : i < j /\ t[j].kind = "deleted" /\ r \in t[j].rows
      <4> SUFFICES ASSUME server[r] = "deleted"
                   PROVE  \E j \in 1..Len(t) : i < j /\ t[j].kind = "deleted" /\ r \in t[j].rows
        OBVIOUS
      <4>1. PICK j \in 1..Len(frames) : i + 1 < j /\ frames[j].kind = "deleted" /\ r \in frames[j].rows
        BY <3>2
      <4>2. j - 1 \in 1..Len(t) /\ t[j - 1] = frames[j] /\ i < j - 1
        BY <1>1, <4>1
      <4> QED BY <4>1, <4>2
    <3>5. server[r] = "read" => \E j \in 1..Len(t) : i < j /\ t[j].kind = "read"
      BY <1>6, <3>3
    <3> QED BY <3>4, <3>5
  <2>1. ToldInTurn' <=>
            \A i \in 1..Len(t) : \A r \in t[i].rows : t[i].kind = "created" =>
                /\ server[r] = "deleted" =>
                       \E j \in 1..Len(t) : i < j /\ t[j].kind = "deleted" /\ r \in t[j].rows
                /\ server[r] = "read" => \E j \in 1..Len(t) : i < j /\ t[j].kind = "read"
    BY DEF ToldInTurn
  <2> QED BY <2>0, <2>1, Zenon
<1>9. \A i \in 1..Len(t) : t[i].kind \in {"created", "deleted", "read"} /\ t[i].rows \subseteq Own(person)
  BY <1>1 DEF TypesFit, TypeOK
<1> QED BY <1>1, <1>2, <1>3, <1>4, <1>7, <1>8, <1>9 DEF FramesFit

\* What holds of each read, and of any two, holds of the reads.
LEMMA ReadsAsOne ==
    ASSUME NEW t \in Seq(Read), t = reads',
           \A i \in 1..Len(t) : ReadFits(t[i])',
           \A i, j \in 1..Len(t) : i < j /\ ~t[i].dead /\ ~t[j].dead => Older(t[i], t[j]),
           \A i \in 1..Len(t) : t[i].sinceOpen => i = Len(t)
    PROVE  ReadsFit'
<1>1. \A p, q : Older(p, q)' <=> Older(p, q)
  BY DEF Older, Kept
<1> QED BY <1>1 DEF ReadsFit

\* The reads, each changed and none more than another.
LEMMA ReadsChanged ==
    ASSUME ReadsFit, reads \in Seq(Read), NEW t, t = reads', t \in Seq(Read), Len(t) = Len(reads),
           \A i \in 1..Len(reads) : /\ ReadFits(t[i])'
                                    /\ t[i].sinceOpen => reads[i].sinceOpen
                                    /\ ~t[i].dead => ~reads[i].dead,
           \A i, j \in 1..Len(reads) :
               ~t[i].dead /\ ~t[j].dead /\ Older(reads[i], reads[j]) => Older(t[i], t[j])
    PROVE  ReadsFit'
<1>1. \A i, j \in 1..Len(t) : i < j /\ ~t[i].dead /\ ~t[j].dead => Older(t[i], t[j])
  BY DEF ReadsFit
<1>2. \A i \in 1..Len(t) : t[i].sinceOpen => i = Len(t)
  BY DEF ReadsFit
<1> QED BY <1>1, <1>2, ReadsAsOne

\* What hearing a frame leaves alone.
Hearing(f) == /\ frames # <<>> /\ frames' = Tail(frames) /\ f = Head(frames)
              /\ UNCHANGED <<server, person, stream, bell, clear, delete, putBack, behind, moves>>

LEMMA HearingKeeps ==
    ASSUME InboxInv, NEW f, Hearing(f)
    PROVE  /\ UNCHANGED <<server, person, stream, delete, putBack, behind>>
           /\ Own(person)' = Own(person) /\ Own(person) \subseteq Rows
           /\ f \in Frames /\ f.rows \subseteq Own(person) /\ f.rows \subseteq Rows /\ stream = "open"
           /\ \A r : Coming("created", r)' => Coming("created", r)
           /\ DeletesFit'
<1>1. f \in Frames /\ f.rows \subseteq Own(person) /\ stream = "open"
  BY FirstFrame DEF Hearing
<1>2. DeletesFit'
  BY DEF InboxInv, CallsFit, DeletesFit, Hearing, Written, Holds
<1> QED BY <1>1, <1>2, FirstFrame DEF Hearing, Own

LEMMA HearingTypes ==
    ASSUME InboxInv, NEW f, Hearing(f), shown' \in Answers, reads' \in Seq(Read),
           heard' \subseteq Own(person), gone' \subseteq Own(person)
    PROVE  TypesFit' /\ FramesFit'
<1> USE DEF InboxInv
<1>1. /\ FramesFit' /\ frames' \in Seq(Frames)
      /\ \A i \in 1..Len(frames') : /\ frames'[i].kind \in {"created", "deleted", "read"}
                                    /\ frames'[i].rows \subseteq Own(person)'
  BY RestFits DEF Hearing
<1>2. Own(person)' = Own(person) /\ stream = "open" /\ stream' = stream /\ person' = person
  BY HearingKeeps
<1>3. \A i \in 1..Len(reads') : reads'[i] \in Read
  <2> PICK t : t = reads'
    OBVIOUS
  <2>1. \A i \in 1..Len(t) : t[i] \in Read
    BY ElementOfSeq
  <2> QED BY <2>1
<1>4. TypeOK'
  BY <1>1, <1>2, <1>3 DEF TypesFit, TypeOK, Hearing
<1> QED BY <1>1, <1>2, <1>4 DEF TypesFit

\* A row pushed: every read in flight is told.
LEMMA PushedRead ==
    ASSUME InboxInv, NEW f, Hearing(f), f.kind = "created", NEW q \in Read, ReadFits(q),
           shown' = [r \in Rows |-> IF r \in f.rows THEN "unread" ELSE shown[r]],
           heard' = heard \cup f.rows, gone' = gone,
           NEW p, p = [q EXCEPT !.pushed = @ \cup f.rows]
    PROVE  p \in Read /\ ReadFits(p)'
<1>1. /\ UNCHANGED <<server, person, stream, delete, putBack, behind>>
      /\ Own(person)' = Own(person) /\ Own(person) \subseteq Rows
      /\ f.rows \subseteq Own(person) /\ f.rows \subseteq Rows /\ stream = "open"
  BY HearingKeeps
<1>2. /\ p \in Read /\ p.for = q.for /\ p.answer = q.answer /\ p.pushed = q.pushed \cup f.rows
      /\ p.deleted = q.deleted /\ p.deletedAll = q.deletedAll /\ p.readAt = q.readAt
      /\ p.dead = q.dead /\ p.sinceOpen = q.sinceOpen
  BY <1>1 DEF Read
<1>3. /\ Shown' = Shown \cup f.rows
      /\ \A r \in Rows : r \notin f.rows => shown'[r] = shown[r]
      /\ \A r \in f.rows : shown'[r] = "unread"
  BY <1>1 DEF Shown
<1>4. /\ \A kind, r : Coming(kind, r) => Coming(kind, r)' \/ (f.kind = kind /\ r \in f.rows)
      /\ ReadComing => ReadComing'
      /\ \A r \in f.rows : /\ Written(r) /\ ~Coming("created", r)' /\ Coming("created", r)
                           /\ server[r] = "deleted" => Coming("deleted", r)'
                           /\ server[r] = "read" => ReadComing'
  <2>1. \A r \in f.rows : Coming("created", r)
    BY FrameHeard DEF Hearing, Coming, InboxInv, TypesFit
  <2> QED BY <2>1, FirstFrame DEF Hearing
<1>5. AnswerFits(p)'
  BY <1>1, <1>2 DEF ReadFits, AnswerFits, Own, Written
<1>6. \A r \in f.rows : r \notin gone
  BY <1>4 DEF InboxInv, Remembered
<1>7. Knows(q) => Knows(p)'
  BY <1>1, <1>2, <1>3, <1>6 DEF Knows, Kept, Holds
<1>8. ASSUME NEW r \in Own(person) \ putBack, FollowsRow(q, r) PROVE FollowsRow(p, r)'
  <2>1. CASE r \in f.rows
    BY <1>1, <1>2, <1>3, <1>4, <2>1 DEF FollowsRow, Kept, Holds
  <2>2. CASE r \notin f.rows
    <3>1. Coming("created", r) => Coming("created", r)'
      BY <1>4, <2>2
    <3>2. Coming("deleted", r) => Coming("deleted", r)'
      BY <1>4, <2>2
    <3> QED BY <1>1, <1>2, <1>3, <1>4, <1>8, <2>2, <3>1, <3>2 DEF FollowsRow, Kept, Holds
  <2> QED BY <2>1, <2>2
<1>9. ASSUME NEW r \in Own(person) \ putBack, AnswersRow(q, r) PROVE AnswersRow(p, r)'
  <2>1. CASE r \in f.rows
    BY <1>1, <1>2, <1>4, <1>9, <2>1 DEF AnswersRow, Kept, Holds
  <2>2. CASE r \notin f.rows
    <3>1. Coming("created", r) => Coming("created", r)'
      BY <1>4, <2>2
    <3>2. Coming("deleted", r) => Coming("deleted", r)'
      BY <1>4, <2>2
    <3> QED BY <1>1, <1>2, <1>4, <1>9, <2>2, <3>1, <3>2 DEF AnswersRow, Kept, Holds
  <2> QED BY <2>1, <2>2
<1>10. Follows(q) => Follows(p)'
  BY <1>1, <1>2, <1>8, <1>9 DEF Follows
<1> QED BY <1>1, <1>2, <1>5, <1>7, <1>10 DEF ReadFits

\* A row written is heard of.
LEMMA HearCreatedKeeps ==
    ASSUME InboxInv, NEW f, Hearing(f), HearCreated(f) PROVE InboxInv'
<1> USE DEF InboxInv
<1>1. /\ UNCHANGED <<server, person, stream, delete, putBack, behind>>
      /\ Own(person)' = Own(person) /\ Own(person) \subseteq Rows
      /\ f.rows \subseteq Own(person) /\ f.rows \subseteq Rows /\ stream = "open" /\ f.kind = "created"
      /\ \A r : Coming("created", r)' => Coming("created", r)
  BY HearingKeeps DEF HearCreated
<1>2. /\ shown' = [r \in Rows |-> IF r \in f.rows THEN "unread" ELSE shown[r]]
      /\ heard' = heard \cup f.rows /\ gone' = gone
  BY DEF HearCreated
<1>3. /\ Shown' = Shown \cup f.rows /\ shown' \in Answers /\ Shown \subseteq Rows
      /\ \A r \in Rows : r \notin f.rows => shown'[r] = shown[r]
      /\ \A r \in f.rows : shown'[r] = "unread"
  BY <1>1, <1>2 DEF Shown, TypesFit, TypeOK, Answers
<1>4. /\ \A kind, r : Coming(kind, r) => Coming(kind, r)' \/ (f.kind = kind /\ r \in f.rows)
      /\ ReadComing => ReadComing'
      /\ \A r \in f.rows : /\ Written(r) /\ ~Coming("created", r)' /\ Coming("created", r)
                           /\ server[r] = "deleted" => Coming("deleted", r)'
                           /\ server[r] = "read" => ReadComing'
  <2>1. \A r \in f.rows : Coming("created", r)
    BY <1>1, FrameHeard DEF Hearing, Coming, TypesFit
  <2> QED BY <1>1, <2>1, FirstFrame DEF Hearing
<1> PICK t : t = reads'
  OBVIOUS
<1>5. /\ t = [i \in DOMAIN reads |-> t[i]]
      /\ \A i \in 1..Len(reads) : t[i] = [reads[i] EXCEPT !.pushed = @ \cup f.rows]
  BY LenProperties DEF HearCreated, NotePushed, TypesFit
<1>6. \A i \in 1..Len(reads) : t[i] \in Read /\ ReadFits(t[i])'
  BY <1>1, <1>2, <1>5, PushedRead, ElementOfSeq DEF ReadsFit, TypesFit
<1>7. t \in Seq(Read) /\ Len(t) = Len(reads)
  <2>1. t \in [1..Len(reads) -> Read]
    BY <1>5, <1>6, LenProperties DEF TypesFit
  <2> QED BY <2>1, EachChanged DEF TypesFit
<1>8. \A i \in 1..Len(reads) :
          /\ t[i].pushed = reads[i].pushed \cup f.rows /\ t[i].deleted = reads[i].deleted
          /\ t[i].deletedAll = reads[i].deletedAll /\ t[i].readAt = reads[i].readAt
          /\ t[i].dead = reads[i].dead /\ t[i].sinceOpen = reads[i].sinceOpen
  <2> SUFFICES ASSUME NEW i \in 1..Len(reads)
               PROVE  /\ t[i].pushed = reads[i].pushed \cup f.rows /\ t[i].deleted = reads[i].deleted
                      /\ t[i].deletedAll = reads[i].deletedAll /\ t[i].readAt = reads[i].readAt
                      /\ t[i].dead = reads[i].dead /\ t[i].sinceOpen = reads[i].sinceOpen
    OBVIOUS
  <2> PICK q : q = reads[i]
    OBVIOUS
  <2>1. q \in Read
    BY ElementOfSeq DEF TypesFit
  <2> QED BY <1>5, <2>1 DEF Read
<1>9. \A i, j \in 1..Len(reads) :
          ~t[i].dead /\ ~t[j].dead /\ Older(reads[i], reads[j]) => Older(t[i], t[j])
  BY <1>8 DEF Older, Kept
<1>10. ReadsFit'
  BY <1>6, <1>7, <1>8, <1>9, ReadsChanged DEF TypesFit
<1>11. TypesFit' /\ FramesFit'
  BY <1>1, <1>2, <1>3, <1>7, HearingTypes DEF TypesFit, TypeOK
<1>12. Remembered'
  BY <1>1, <1>2, <1>3, <1>4 DEF Remembered, Written
<1>13. CallsFit'
  <2>1. DeletesFit'
    BY HearingKeeps
  <2>2. \A r : r \in heard' => r \in heard \/ Coming("created", r)
    BY <1>2, <1>4
  <2>3. ClearFits'
    BY <1>1, <2>2 DEF CallsFit, ClearFits, Hearing, Own, Holds, Written
  <2> QED BY <2>1, <2>3 DEF CallsFit
<1>14. Promised'
  <2>1. \A r \in f.rows : r \notin gone
    BY <1>4 DEF Remembered
  <2> QED BY <1>1, <1>2, <1>3, <2>1 DEF Promised, OnlyTheirOwn, NothingHeardIsLost, NothingGoneComesBack, Holds
<1>15. Ahead'
  <2>1. ASSUME NEW r \in Own(person) \ putBack, RowInStep(r) PROVE RowInStep(r)'
    <3>1. CASE r \in f.rows
      BY <1>1, <1>3, <1>4, <3>1 DEF RowInStep, Holds
    <3>2. CASE r \notin f.rows
      <4>1. Coming("created", r) => Coming("created", r)'
        BY <1>4, <3>2
      <4>2. Coming("deleted", r) => Coming("deleted", r)'
        BY <1>4, <3>2
      <4> QED BY <1>1, <1>3, <1>4, <2>1, <3>2, <4>1, <4>2 DEF RowInStep, Holds
    <3> QED BY <3>1, <3>2
  <2>2. \A i \in 1..Len(t) : t[i].dead <=> reads[i].dead
    BY <1>7, <1>8
  <2> QED BY <1>1, <1>7, <2>1, <2>2 DEF Ahead
<1> QED BY <1>10, <1>11, <1>12, <1>13, <1>14, <1>15

-----------------------------------------------------------------------------
(* Rows leave the panel: told by a frame, dismissed, or cleared *)

Emptied(all) == all

\* What such a step leaves as it was, and what it may make of the rows it dooms.
Dooms(D, all) ==
    /\ UNCHANGED <<server, person, stream, heard, putBack, behind>>
    /\ reads' = NoteDeleted(reads, D, all)
    /\ shown' \in Answers /\ Shown' = Shown \ D /\ \A r \in Rows \ D : shown'[r] = shown[r]
    /\ Emptied(all) => Shown \subseteq D
    /\ \A r : Coming("created", r)' <=> Coming("created", r)
    /\ \A r \in Rows : Coming("deleted", r) => Coming("deleted", r)' \/ r \in D \/ Emptied(all)
    /\ ReadComing => ReadComing'
    /\ \A r \in Rows : delete[r] # None => delete'[r] # None
    /\ \A r \in (Own(person) \ putBack) \cup heard :
           Holds(r) /\ (r \in D \/ Emptied(all)) => Coming("created", r) \/ delete'[r] # None
    /\ \A r \in gone' : r \in gone \/ (server[r] = "deleted" /\ (r \in D \/ Emptied(all)) /\ ~Coming("created", r))

\* A read told that rows went.
ToldGone(q, D, all) == [q EXCEPT !.deleted = @ \cup D, !.deletedAll = @ \/ all]

Goes(p, q, D, all) ==
    /\ p \in Read /\ q \in Read /\ p.for = q.for /\ p.answer = q.answer /\ p.pushed = q.pushed
    /\ p.deleted = q.deleted \cup D
    /\ \A r : Kept(p, r) <=> Kept(q, r) \/ r \in D \/ (Emptied(all) /\ r \notin q.pushed)
    /\ p.readAt = q.readAt /\ p.dead = q.dead /\ p.sinceOpen = q.sinceOpen
    /\ q.pushed \subseteq Rows

LEMMA GoneIsTold ==
    ASSUME NEW q \in Read, NEW D \in SUBSET Rows, NEW all \in BOOLEAN
    PROVE  Goes(ToldGone(q, D, all), q, D, all)
  BY DEF Goes, Read, ToldGone, Emptied, Kept

LEMMA DeletedNoted ==
    ASSUME reads \in Seq(Read), NEW D \in SUBSET Rows, NEW all \in BOOLEAN,
           NEW t, t = NoteDeleted(reads, D, all)
    PROVE  /\ t \in Seq(Read) /\ Len(t) = Len(reads)
           /\ \A i \in 1..Len(reads) : t[i] = ToldGone(reads[i], D, all) /\ Goes(t[i], reads[i], D, all)
<1>1. /\ t = [i \in DOMAIN reads |-> t[i]]
      /\ \A i \in 1..Len(reads) : t[i] = ToldGone(reads[i], D, all)
  BY LenProperties DEF NoteDeleted, ToldGone
<1>2. \A i \in 1..Len(reads) : Goes(t[i], reads[i], D, all)
  <2> SUFFICES ASSUME NEW i \in 1..Len(reads) PROVE Goes(t[i], reads[i], D, all)
    OBVIOUS
  <2>1. reads[i] \in Read
    BY ElementOfSeq
  <2>2. t[i] = ToldGone(reads[i], D, all)
    BY <1>1
  <2> QED BY <2>1, <2>2, GoneIsTold
<1>3. t \in [1..Len(reads) -> Read]
  BY <1>1, <1>2, LenProperties DEF Goes
<1>4. t \in Seq(Read) /\ Len(t) = Len(reads)
  BY <1>3, EachChanged
<1> QED BY <1>1, <1>2, <1>4

LEMMA DoomedRead ==
    ASSUME InboxInv, NEW D \in SUBSET Rows, NEW all \in BOOLEAN, Dooms(D, all),
           NEW q \in Read, ReadFits(q),
           NEW p, p = ToldGone(q, D, all)
    PROVE  ReadFits(p)'
<1> USE DEF Dooms
<1>0. Goes(p, q, D, all)
  BY GoneIsTold
<1>1. /\ p.for = q.for /\ p.answer = q.answer /\ p.pushed = q.pushed
      /\ p.deleted = q.deleted \cup D
      /\ \A r : Kept(p, r) <=> Kept(q, r) \/ r \in D \/ (Emptied(all) /\ r \notin q.pushed)
      /\ p.readAt = q.readAt /\ p.dead = q.dead /\ p.sinceOpen = q.sinceOpen
      /\ q.pushed \subseteq Rows
  BY <1>0 DEF Goes
<1>2. Own(person)' = Own(person) /\ Own(person) \subseteq Rows /\ \A r : Holds(r)' <=> Holds(r)
  BY DEF Own, Holds
<1>3. AnswerFits(p)'
  BY <1>1 DEF ReadFits, AnswerFits, Own, Written
<1>4. \A r : Kept(p, r)' <=> Kept(q, r) \/ r \in D \/ (Emptied(all) /\ r \notin q.pushed)
  BY <1>1 DEF Kept
<1>5. Knows(q) => Knows(p)'
  <2> SUFFICES ASSUME Knows(q) PROVE Knows(p)'
    OBVIOUS
  <2>1. \A r \in p.pushed : r \in Shown' \/ r \in p.deleted
    BY <1>1 DEF Knows
  <2>2. \A r \in gone' : p.answer # None /\ p.answer[r] # "no" => Kept(p, r)'
    <3>1. \A r \in q.pushed : Emptied(all) => r \in D \/ r \in q.deleted
      BY DEF Knows
    <3> QED BY <1>1, <1>4, <3>1 DEF Knows, Kept
  <2> QED BY <1>1, <1>2, <2>1, <2>2 DEF Knows
<1>6. ASSUME NEW r \in Own(person) \ putBack, FollowsRow(q, r) PROVE FollowsRow(p, r)'
  <2>1. /\ Holds(r) /\ (Kept(q, r) \/ r \in D \/ Emptied(all)) =>
               r \in heard \/ Coming("created", r) \/ delete'[r] # None
    BY <1>2, <1>6 DEF FollowsRow
  <2>2. r \in Shown' => r \in Shown /\ r \notin D /\ ~Emptied(all) /\ shown'[r] = shown[r]
    BY <1>2
  <2>3. shown'[r] = "unread" => r \in Shown'
    BY <1>2 DEF Shown
  <2> QED BY <1>1, <1>2, <1>4, <1>6, <2>1, <2>2, <2>3 DEF FollowsRow
<1>7. ASSUME NEW r \in Own(person) \ putBack, AnswersRow(q, r), Knows(q) PROVE AnswersRow(p, r)'
  <2>1. r \in q.pushed /\ Emptied(all) => r \in D \/ r \in q.deleted
    BY <1>7 DEF Knows
  <2> QED BY <1>1, <1>2, <1>4, <1>7, <2>1 DEF AnswersRow, Kept
<1>8. Follows(q) /\ Knows(q) => Follows(p)'
  BY <1>1, <1>2, <1>6, <1>7 DEF Follows
<1> QED BY <1>1, <1>3, <1>5, <1>8 DEF ReadFits

LEMMA DoomsKeep ==
    ASSUME InboxInv, NEW D \in SUBSET Rows, NEW all \in BOOLEAN, Dooms(D, all)
    PROVE  reads' \in Seq(Read) /\ Remembered' /\ Promised' /\ ReadsFit' /\ Ahead'
<1> USE DEF InboxInv, Dooms
<1> PICK t : t = reads'
  OBVIOUS
<1>1. /\ t \in Seq(Read) /\ Len(t) = Len(reads)
      /\ \A i \in 1..Len(reads) : t[i] = ToldGone(reads[i], D, all) /\ Goes(t[i], reads[i], D, all)
  <2>1. reads \in Seq(Read) /\ t = NoteDeleted(reads, D, all)
    BY DEF TypesFit
  <2> QED BY <2>1, DeletedNoted
<1>2. Own(person)' = Own(person) /\ Own(person) \subseteq Rows /\ \A r : Holds(r)' <=> Holds(r)
  BY DEF Own, Holds
<1>3. heard \subseteq Own(person) /\ gone \subseteq Own(person) /\ Shown \subseteq Rows
  BY DEF TypesFit, TypeOK, Shown
<1>4. \A i \in 1..Len(reads) : ReadFits(t[i])'
  BY <1>1, DoomedRead DEF ReadsFit, Goes
<1>5. ASSUME NEW i \in 1..Len(reads), NEW j \in 1..Len(reads), ~t[i].dead, Older(reads[i], reads[j])
      PROVE  Older(t[i], t[j])
  <2>1. Goes(t[i], reads[i], D, all) /\ Goes(t[j], reads[j], D, all)
    BY <1>1
  <2>2. /\ t[j].pushed \subseteq t[i].pushed /\ t[j].deleted \subseteq t[i].deleted
        /\ t[j].readAt => t[i].readAt
    BY <1>5, <2>1 DEF Older, Goes
  <2>3. ASSUME NEW r \in Rows, Kept(t[j], r) PROVE Kept(t[i], r)
    <3>1. Kept(reads[j], r) \/ r \in D \/ (Emptied(all) /\ r \notin reads[j].pushed)
      BY <2>1, <2>3 DEF Goes
    <3>2. /\ Kept(reads[j], r) => Kept(reads[i], r)
          /\ reads[j].pushed \subseteq reads[i].pushed
      BY <1>5 DEF Older
    <3>3. Kept(reads[i], r) \/ r \in D \/ (Emptied(all) /\ r \notin reads[i].pushed)
          <=> Kept(t[i], r)
      BY <2>1 DEF Goes
    <3>4. Emptied(all) /\ r \in reads[i].pushed => r \in D \/ Kept(reads[i], r)
      <4>1. Knows(reads[i])
        BY <1>5, <2>1 DEF ReadsFit, ReadFits, Goes
      <4> QED BY <4>1 DEF Knows, Kept, Emptied
    <3> QED BY <3>1, <3>2, <3>3, <3>4
  <2> QED BY <2>2, <2>3 DEF Older
<1>6. ReadsFit'
  BY <1>1, <1>4, <1>5, ReadsChanged DEF TypesFit, Goes
<1>7. Remembered'
  BY <1>3 DEF Remembered, Written
<1>8. Promised'
  BY <1>2, <1>3 DEF Promised, OnlyTheirOwn, NothingHeardIsLost, NothingGoneComesBack, Remembered
<1>9. ASSUME NEW r \in Own(person) \ putBack, RowInStep(r) PROVE RowInStep(r)'
  <2>1. r \in Shown' => r \in Shown /\ r \notin D /\ ~Emptied(all) /\ shown'[r] = shown[r]
    BY <1>2
  <2>2. shown'[r] = "unread" => r \in Shown'
    BY <1>2 DEF Shown
  <2> QED BY <1>2, <1>9, <2>1, <2>2 DEF RowInStep
<1>10. Ahead'
  <2>1. \A i \in 1..Len(t) : t[i].dead <=> reads[i].dead
    BY <1>1 DEF Goes
  <2> QED BY <1>1, <1>2, <1>9, <2>1 DEF Ahead
<1> QED BY <1>1, <1>6, <1>7, <1>8, <1>10

\* A row deleted, or all of them, is heard of.
LEMMA HearDeletedKeeps ==
    ASSUME InboxInv, NEW f, Hearing(f), HearDeleted(f) PROVE InboxInv'
<1> USE DEF InboxInv
<1>1. /\ UNCHANGED <<server, person, stream, delete, putBack, behind, heard>>
      /\ Own(person)' = Own(person) /\ Own(person) \subseteq Rows
      /\ f \in Frames /\ f.rows \subseteq Own(person) /\ f.rows \subseteq Rows
      /\ stream = "open" /\ f.kind = "deleted" /\ heard \subseteq Own(person) /\ gone \subseteq Own(person)
  BY HearingKeeps DEF HearDeleted, TypesFit, TypeOK
<1> PICK D : D = IF f.all THEN Shown ELSE f.rows
  OBVIOUS
<1> PICK all \in BOOLEAN : all = f.all
  BY <1>1 DEF Frames
<1>2. /\ reads' = NoteDeleted(reads, D, all) /\ gone' = gone \cup f.rows
      /\ shown' = [r \in Rows |-> IF r \in D THEN "no" ELSE shown[r]]
  BY DEF HearDeleted
<1>3. D \in SUBSET Rows /\ (Emptied(all) => D = Shown) /\ (~Emptied(all) => D = f.rows)
  BY <1>1 DEF Shown, Emptied
<1>4. /\ shown' \in Answers /\ Shown' = Shown \ D
      /\ \A r \in Rows \ D : shown'[r] = shown[r]
  BY <1>2, <1>3 DEF Shown, TypesFit, TypeOK, Answers
<1>5. /\ \A kind, r : Coming(kind, r)' => Coming(kind, r)
      /\ \A kind, r : Coming(kind, r) => Coming(kind, r)' \/ (f.kind = kind /\ r \in f.rows)
      /\ ReadComing => ReadComing' \/ f.kind = "read"
      /\ \A r \in f.rows : server[r] = "deleted" /\ ~Coming("created", r)'
      /\ Emptied(all) => \A r \in Own(person) : Holds(r) => Coming("created", r)'
  BY <1>1, FirstFrame DEF Hearing, Emptied
<1>6. \A r : Coming("created", r)' <=> Coming("created", r)
  BY <1>1, <1>5
<1>7. \A r \in f.rows : r \in D \/ Emptied(all)
  BY <1>3
<1>8. Dooms(D, all)
  <2>1. \A r \in Own(person) : Holds(r) /\ (r \in D \/ Emptied(all)) => Coming("created", r)
    BY <1>3, <1>5, <1>6 DEF Holds
  <2>2. \A r \in gone' : r \in gone
            \/ (server[r] = "deleted" /\ (r \in D \/ Emptied(all)) /\ ~Coming("created", r))
    BY <1>2, <1>5, <1>6, <1>7
  <2>3. \A r \in Rows : Coming("deleted", r) => Coming("deleted", r)' \/ r \in D \/ Emptied(all)
    BY <1>5, <1>7
  <2>4. ReadComing => ReadComing'
    BY <1>1, <1>5
  <2> QED BY <1>1, <1>2, <1>3, <1>4, <1>6, <2>1, <2>2, <2>3, <2>4 DEF Dooms
<1>9. reads' \in Seq(Read) /\ Remembered' /\ Promised' /\ ReadsFit' /\ Ahead'
  BY <1>3, <1>8, DoomsKeep
<1>10. TypesFit' /\ FramesFit'
  BY <1>1, <1>2, <1>4, <1>9, HearingTypes
<1>11. CallsFit'
  <2>1. DeletesFit'
    BY HearingKeeps
  <2>2. ClearFits'
    BY <1>1, <1>5 DEF CallsFit, ClearFits, Hearing, Own, Holds, Written
  <2> QED BY <2>1, <2>2 DEF CallsFit
<1> QED BY <1>9, <1>10, <1>11

-----------------------------------------------------------------------------
(* Everything was read: told by a frame, or by the bell *)

\* What such a step leaves as it was, and what shows as unread after it.
Reading ==
    /\ UNCHANGED <<server, person, stream, heard, gone, putBack, behind, delete>>
    /\ reads' = NoteRead(reads)
    /\ shown' \in Answers /\ Shown' = Shown
    /\ \A r \in Rows : shown'[r] = "unread" => shown[r] = "unread" /\ (ReadComing => ReadComing')
    /\ \A r : Coming("created", r)' <=> Coming("created", r)
    /\ \A r : Coming("deleted", r)' <=> Coming("deleted", r)

ToldRead(q) == [q EXCEPT !.readAt = TRUE]

IsRead(p, q) ==
    /\ p \in Read /\ q \in Read /\ p.for = q.for /\ p.answer = q.answer /\ p.pushed = q.pushed
    /\ p.deleted = q.deleted /\ p.readAt
    /\ \A r : Kept(p, r) <=> Kept(q, r)
    /\ p.dead = q.dead /\ p.sinceOpen = q.sinceOpen

LEMMA ReadIsTold ==
    ASSUME NEW q \in Read
    PROVE  IsRead(ToldRead(q), q)
  BY DEF IsRead, Read, ToldRead, Kept

LEMMA ReadNoted ==
    ASSUME reads \in Seq(Read), NEW t, t = NoteRead(reads)
    PROVE  /\ t \in Seq(Read) /\ Len(t) = Len(reads)
           /\ \A i \in 1..Len(reads) : IsRead(t[i], reads[i])
<1>1. /\ t = [i \in DOMAIN reads |-> t[i]]
      /\ \A i \in 1..Len(reads) : t[i] = ToldRead(reads[i])
  BY LenProperties DEF NoteRead, ToldRead
<1>2. \A i \in 1..Len(reads) : IsRead(t[i], reads[i])
  BY <1>1, ElementOfSeq, ReadIsTold
<1>3. t \in [1..Len(reads) -> Read]
  BY <1>1, <1>2, LenProperties DEF IsRead
<1>4. t \in Seq(Read) /\ Len(t) = Len(reads)
  BY <1>3, EachChanged
<1> QED BY <1>1, <1>2, <1>4

LEMMA ReadingRead ==
    ASSUME InboxInv, Reading, NEW q \in Read, ReadFits(q), NEW p, IsRead(p, q)
    PROVE  ReadFits(p)'
<1> USE DEF Reading
<1>1. /\ p.for = q.for /\ p.answer = q.answer /\ p.pushed = q.pushed /\ p.deleted = q.deleted /\ p.readAt
      /\ \A r : Kept(p, r) <=> Kept(q, r)
      /\ p.dead = q.dead /\ p.sinceOpen = q.sinceOpen
  BY DEF IsRead
<1>2. Own(person)' = Own(person) /\ Own(person) \subseteq Rows /\ \A r : Holds(r)' <=> Holds(r)
  BY DEF Own, Holds
<1>3. AnswerFits(p)'
  BY <1>1 DEF ReadFits, AnswerFits, Own, Written
<1>4. \A r : Kept(p, r)' <=> Kept(q, r)
  BY <1>1 DEF Kept
<1>5. Knows(q) => Knows(p)'
  BY <1>1, <1>2, <1>4 DEF Knows
<1>6. ASSUME NEW r \in Own(person) \ putBack, FollowsRow(q, r) PROVE FollowsRow(p, r)'
  BY <1>1, <1>2, <1>4, <1>6 DEF FollowsRow
<1>7. ASSUME NEW r \in Own(person) \ putBack, AnswersRow(q, r) PROVE AnswersRow(p, r)'
  BY <1>1, <1>2, <1>4, <1>7 DEF AnswersRow
<1>8. Follows(q) => Follows(p)'
  BY <1>1, <1>2, <1>6, <1>7 DEF Follows
<1> QED BY <1>1, <1>3, <1>5, <1>8 DEF ReadFits

LEMMA ReadingKeeps ==
    ASSUME InboxInv, Reading
    PROVE  reads' \in Seq(Read) /\ Remembered' /\ Promised' /\ ReadsFit' /\ Ahead'
<1> USE DEF InboxInv, Reading
<1> PICK t : t = reads'
  OBVIOUS
<1>1. /\ t \in Seq(Read) /\ Len(t) = Len(reads)
      /\ \A i \in 1..Len(reads) : IsRead(t[i], reads[i])
  <2>1. reads \in Seq(Read) /\ t = NoteRead(reads)
    BY DEF TypesFit
  <2> QED BY <2>1, ReadNoted
<1>2. Own(person)' = Own(person) /\ Own(person) \subseteq Rows /\ \A r : Holds(r)' <=> Holds(r)
  BY DEF Own, Holds
<1>3. \A i \in 1..Len(reads) : ReadFits(t[i])'
  BY <1>1, ReadingRead DEF ReadsFit, IsRead
<1>4. ASSUME NEW i \in 1..Len(reads), NEW j \in 1..Len(reads), Older(reads[i], reads[j])
      PROVE  Older(t[i], t[j])
  BY <1>1, <1>4 DEF Older, IsRead
<1>5. ReadsFit'
  BY <1>1, <1>3, <1>4, ReadsChanged DEF TypesFit, IsRead
<1>6. Remembered'
  BY DEF Remembered, Written
<1>7. Promised'
  BY <1>2 DEF Promised, OnlyTheirOwn, NothingHeardIsLost, NothingGoneComesBack
<1>8. ASSUME NEW r \in Own(person) \ putBack, RowInStep(r) PROVE RowInStep(r)'
  BY <1>2, <1>8 DEF RowInStep
<1>9. Ahead'
  <2>1. \A i \in 1..Len(t) : t[i].dead <=> reads[i].dead
    BY <1>1 DEF IsRead
  <2> QED BY <1>1, <1>2, <1>8, <2>1 DEF Ahead
<1> QED BY <1>1, <1>5, <1>6, <1>7, <1>9

\* All was read elsewhere, or here a moment ago.
LEMMA HearReadKeeps ==
    ASSUME InboxInv, NEW f, Hearing(f), HearRead(f) PROVE InboxInv'
<1> USE DEF InboxInv
<1>1. /\ UNCHANGED <<server, person, stream, delete, putBack, behind, heard, gone>>
      /\ Own(person)' = Own(person) /\ stream = "open" /\ f.kind = "read"
      /\ heard \subseteq Own(person) /\ gone \subseteq Own(person)
  BY HearingKeeps DEF HearRead, TypesFit, TypeOK
<1>2. /\ reads' = NoteRead(reads)
      /\ shown' = [r \in Rows |-> IF shown[r] = "unread" THEN "read" ELSE shown[r]]
  BY DEF HearRead
<1>3. /\ shown' \in Answers /\ Shown' = Shown /\ \A r \in Rows : shown'[r] # "unread"
  BY <1>2 DEF Shown, TypesFit, TypeOK, Answers
<1>4. /\ \A kind, r : Coming(kind, r)' => Coming(kind, r)
      /\ \A kind, r : Coming(kind, r) => Coming(kind, r)' \/ (f.kind = kind /\ r \in f.rows)
  BY FirstFrame DEF Hearing
<1>5. Reading
  BY <1>1, <1>2, <1>3, <1>4 DEF Reading
<1>6. reads' \in Seq(Read) /\ Remembered' /\ Promised' /\ ReadsFit' /\ Ahead'
  BY <1>5, ReadingKeeps
<1>7. TypesFit' /\ FramesFit'
  BY <1>1, <1>3, <1>6, HearingTypes
<1>8. CallsFit'
  <2>1. DeletesFit'
    BY HearingKeeps
  <2>2. ClearFits'
    BY <1>1, <1>4 DEF CallsFit, ClearFits, Hearing, Own, Holds, Written
  <2> QED BY <2>1, <2>2 DEF CallsFit
<1> QED BY <1>6, <1>7, <1>8

LEMMA HearKeeps == ASSUME InboxInv, Hear PROVE InboxInv'
<1>1. Hearing(Head(frames))
  BY DEF Hear, Hearing
<1>2. HearCreated(Head(frames)) \/ HearDeleted(Head(frames)) \/ HearRead(Head(frames))
  BY DEF Hear
<1> QED BY <1>1, <1>2, HearCreatedKeeps, HearDeletedKeeps, HearReadKeeps

-----------------------------------------------------------------------------
(* The owner, here *)

\* Nothing moves but what the tab shows and asks.
LEMMA StillKeeps ==
    ASSUME InboxInv, UNCHANGED <<server, person, frames>>
    PROVE  /\ FramesFit' /\ Own(person)' = Own(person) /\ Own(person) \subseteq Rows
           /\ \A kind, r : Coming(kind, r)' <=> Coming(kind, r)
           /\ ReadComing' <=> ReadComing
           /\ \A r : (Holds(r)' <=> Holds(r)) /\ (Written(r)' <=> Written(r))
<1> USE DEF InboxInv
<1>1. \A kind, r : Coming(kind, r)' <=> Coming(kind, r)
  BY DEF Coming
<1>2. ReadComing' <=> ReadComing
  BY DEF ReadComing
<1>3. \A r : (Holds(r)' <=> Holds(r)) /\ (Written(r)' <=> Written(r))
  BY DEF Holds, Written
<1>4. Own(person)' = Own(person) /\ Own(person) \subseteq Rows
  BY DEF Own
<1>5. FramesTold'
  BY <1>3 DEF FramesFit, FramesTold
<1>6. CreatedOnce'
  BY DEF FramesFit, CreatedOnce
<1>7. EmptiedBefore'
  BY <1>3, <1>4 DEF FramesFit, EmptiedBefore
<1>8. ToldInTurn'
  BY DEF FramesFit, ToldInTurn
<1> QED BY <1>1, <1>2, <1>3, <1>4, <1>5, <1>6, <1>7, <1>8 DEF FramesFit

\* A step that touches neither the server nor the stream.
Here == UNCHANGED <<server, person, stream, frames, heard, gone, behind>>

LEMMA HereKeeps ==
    ASSUME InboxInv, Here
    PROVE  /\ FramesFit' /\ Own(person)' = Own(person) /\ Own(person) \subseteq Rows
           /\ \A kind, r : Coming(kind, r)' <=> Coming(kind, r)
           /\ ReadComing' <=> ReadComing
           /\ \A r : (Holds(r)' <=> Holds(r)) /\ (Written(r)' <=> Written(r))
<1>1. UNCHANGED <<server, person, frames>>
  BY DEF Here
<1> QED BY <1>1, StillKeeps

LEMMA HereTypes ==
    ASSUME InboxInv, Here, shown' \in Answers, reads' \in Seq(Read),
           bell' \in Call \cup {None}, clear' \in Call \cup {None},
           delete' \in [Rows -> Deletion \cup {None}], putBack' \subseteq Rows, moves' \in 0..MaxMoves
    PROVE  TypesFit'
<1> USE DEF InboxInv
<1>1. \A i \in 1..Len(reads') : reads'[i] \in Read
  <2> PICK t : t = reads'
    OBVIOUS
  <2>1. \A i \in 1..Len(t) : t[i] \in Read
    BY ElementOfSeq
  <2> QED BY <2>1
<1>2. Own(person)' = Own(person)
  BY HereKeeps
<1>3. TypeOK'
  BY <1>1, <1>2 DEF TypesFit, TypeOK, Here
<1> QED BY <1>3 DEF TypesFit, Here

\* Nothing but the calls in flight changes.
LEMMA OnlyCalls ==
    ASSUME InboxInv, Here, UNCHANGED <<shown, reads, delete, putBack>>
    PROVE  Remembered' /\ Promised' /\ ReadsFit' /\ Ahead' /\ DeletesFit'
<1> USE DEF InboxInv, Here
<1>1. /\ Own(person)' = Own(person) /\ Own(person) \subseteq Rows /\ Shown' = Shown
      /\ \A kind, r : Coming(kind, r)' <=> Coming(kind, r)
      /\ ReadComing' <=> ReadComing
      /\ \A r : (Holds(r)' <=> Holds(r)) /\ (Written(r)' <=> Written(r))
  BY HereKeeps DEF Shown
<1>2. ASSUME NEW q PROVE ReadFits(q) => ReadFits(q)'
  <2>1. AnswerFits(q) => AnswerFits(q)'
    BY <1>1 DEF AnswerFits, Own
  <2>2. \A r : Kept(q, r)' <=> Kept(q, r)
    BY DEF Kept
  <2>3. Knows(q) => Knows(q)'
    BY <1>1, <2>2 DEF Knows
  <2>4. \A r : FollowsRow(q, r)' <=> FollowsRow(q, r)
    BY <1>1, <2>2 DEF FollowsRow
  <2>5. \A r : AnswersRow(q, r)' <=> AnswersRow(q, r)
    BY <1>1, <2>2 DEF AnswersRow
  <2>6. Follows(q) => Follows(q)'
    BY <1>1, <2>4, <2>5 DEF Follows
  <2> QED BY <2>1, <2>3, <2>6 DEF ReadFits
<1>3. ReadsFit'
  <2>1. \A p, q : Older(p, q)' <=> Older(p, q)
    BY DEF Older, Kept
  <2> QED BY <1>2, <2>1 DEF ReadsFit
<1>4. Remembered'
  BY <1>1 DEF Remembered
<1>5. Promised'
  BY <1>1 DEF Promised, OnlyTheirOwn, NothingHeardIsLost, NothingGoneComesBack
<1>6. Ahead'
  <2>1. \A r : RowInStep(r)' <=> RowInStep(r)
    BY <1>1 DEF RowInStep
  <2> QED BY <1>1, <2>1 DEF Ahead
<1>7. DeletesFit'
  BY <1>1 DEF CallsFit, DeletesFit
<1> QED BY <1>3, <1>4, <1>5, <1>6, <1>7

\* The call to empty the inbox, still in flight.
LEMMA ClearWaits ==
    ASSUME InboxInv, Here, clear' = clear, putBack \subseteq putBack' PROVE ClearFits'
<1>1. \A p : Own(p)' = Own(p)
  BY DEF Own
<1>2. ClearFits
  BY DEF InboxInv, CallsFit
<1> QED BY <1>1, <1>2, HereKeeps DEF ClearFits, Here

LEMMA OpenBellKeeps == ASSUME InboxInv, OpenBell PROVE InboxInv'
<1>1. Here /\ UNCHANGED <<shown, reads, delete, putBack, clear>>
  BY DEF OpenBell, Here, history
<1>2. Remembered' /\ Promised' /\ ReadsFit' /\ Ahead' /\ DeletesFit' /\ FramesFit' /\ ClearFits'
  BY <1>1, OnlyCalls, HereKeeps, ClearWaits
<1>3. bell' \in Call \cup {None} /\ moves' \in 0..MaxMoves
  BY InboxBounds DEF InboxInv, TypesFit, TypeOK, OpenBell, Move, Call, Unread
<1>4. TypesFit'
  BY <1>1, <1>3, HereTypes DEF InboxInv, TypesFit, TypeOK
<1> QED BY <1>2, <1>4 DEF InboxInv, CallsFit

LEMMA BellLandsKeeps == ASSUME InboxInv, BellLands PROVE InboxInv'
<1>1. Here /\ UNCHANGED <<delete, putBack, clear, moves>> /\ bell' = None
  BY DEF BellLands, Here, history
<1>2. Remembered' /\ Promised' /\ ReadsFit' /\ Ahead' /\ reads' \in Seq(Read) /\ shown' \in Answers
  <2>1. CASE bell.answer = "ok"
    <3>1. /\ reads' = NoteRead(reads)
          /\ shown' = [r \in Rows |-> IF r \in bell.ids /\ shown[r] = "unread" THEN "read" ELSE shown[r]]
      BY <2>1 DEF BellLands
    <3>2. /\ shown' \in Answers /\ Shown' = Shown
          /\ \A r \in Rows : shown'[r] = "unread" => shown[r] = "unread"
      BY <3>1 DEF InboxInv, Shown, TypesFit, TypeOK, Answers
    <3>3. Reading
      BY <1>1, <3>1, <3>2, HereKeeps DEF Reading, Here
    <3> QED BY <3>2, <3>3, ReadingKeeps
  <2>2. CASE bell.answer # "ok"
    <3>1. UNCHANGED <<reads, shown>>
      BY <2>2 DEF BellLands
    <3> QED BY <1>1, <3>1, OnlyCalls DEF InboxInv, TypesFit, TypeOK
  <2> QED BY <2>1, <2>2
<1>3. FramesFit' /\ ClearFits'
  BY <1>1, HereKeeps, ClearWaits
<1>4. DeletesFit'
  BY <1>1, HereKeeps DEF InboxInv, CallsFit, DeletesFit
<1>5. TypesFit'
  BY <1>1, <1>2, HereTypes DEF InboxInv, TypesFit, TypeOK
<1> QED BY <1>2, <1>3, <1>4, <1>5 DEF InboxInv, CallsFit

LEMMA ClearAllKeeps == ASSUME InboxInv, ClearAll PROVE InboxInv'
<1>1. Here /\ UNCHANGED <<shown, reads, delete, putBack, bell>>
  BY DEF ClearAll, Here, history
<1>2. Remembered' /\ Promised' /\ ReadsFit' /\ Ahead' /\ DeletesFit' /\ FramesFit'
  BY <1>1, OnlyCalls, HereKeeps
<1>3. clear' \in Call \cup {None} /\ moves' \in 0..MaxMoves
  BY InboxBounds DEF InboxInv, TypesFit, TypeOK, ClearAll, Move, Call, Shown
<1>4. TypesFit'
  BY <1>1, <1>3, HereTypes DEF InboxInv, TypesFit, TypeOK
<1>5. ClearFits'
  <2>1. clear' = [for |-> person, ids |-> Shown, answer |-> None] /\ None \notin {"ok", "failed"}
    BY NoneIsNothing DEF ClearAll
  <2>2. Shown \subseteq Own(person) \cup putBack /\ \A r \in Shown : Written(r)
    BY DEF InboxInv, Promised, OnlyTheirOwn, Remembered
  <2> QED BY <1>1, <2>1, <2>2, HereKeeps DEF ClearFits, Here
<1> QED BY <1>2, <1>4, <1>5 DEF InboxInv, CallsFit

LEMMA DismissKeeps == ASSUME InboxInv, NEW r0 \in Rows, Dismiss(r0) PROVE InboxInv'
<1> USE DEF InboxInv
<1>1. Here /\ UNCHANGED <<putBack, bell, clear>>
  BY DEF Dismiss, Here, history
<1>2. /\ r0 \in Shown /\ delete[r0] = None /\ moves' \in 0..MaxMoves
      /\ reads' = NoteDeleted(reads, {r0}, FALSE)
      /\ shown' = [shown EXCEPT ![r0] = "no"]
      /\ delete' = [delete EXCEPT ![r0] = [was |-> shown[r0], answer |-> None]]
  BY InboxBounds DEF Dismiss, Move, TypesFit, TypeOK
<1>3. /\ shown' \in Answers /\ Shown' = Shown \ {r0}
      /\ \A r \in Rows \ {r0} : shown'[r] = shown[r]
  BY <1>2 DEF Shown, TypesFit, TypeOK, Answers
<1>4. /\ [was |-> shown[r0], answer |-> None] \in Deletion
      /\ delete' \in [Rows -> Deletion \cup {None}]
      /\ delete'[r0] # None /\ delete'[r0].answer = None
      /\ \A r \in Rows : r # r0 => delete'[r] = delete[r]
  <2>1. shown[r0] \in {"unread", "read"}
    BY <1>2 DEF Shown, TypesFit, TypeOK, Answers
  <2>2. [was |-> shown[r0], answer |-> None] \in Deletion
    BY <2>1 DEF Deletion
  <2> QED BY <1>2, <2>2, NoneIsNothing DEF TypesFit, TypeOK
<1>5. Dooms({r0}, FALSE)
  <2>1. ~Emptied(FALSE)
    BY DEF Emptied
  <2>2. \A r \in Rows : delete[r] # None => delete'[r] # None
    BY <1>4
  <2> QED BY <1>1, <1>2, <1>3, <1>4, <2>1, <2>2, HereKeeps DEF Dooms, Here
<1>6. reads' \in Seq(Read) /\ Remembered' /\ Promised' /\ ReadsFit' /\ Ahead'
  BY <1>5, DoomsKeep
<1>7. FramesFit' /\ ClearFits'
  BY <1>1, HereKeeps, ClearWaits
<1>8. DeletesFit'
  <2>1. Written(r0)
    BY <1>2 DEF Remembered
  <2> QED BY <1>1, <1>4, <2>1, HereKeeps, NoneIsNothing DEF CallsFit, DeletesFit
<1>9. TypesFit'
  BY <1>1, <1>2, <1>3, <1>4, <1>6, HereTypes DEF TypesFit, TypeOK
<1> QED BY <1>6, <1>7, <1>8, <1>9 DEF CallsFit

LEMMA ClearLandsKeeps == ASSUME InboxInv, ClearLands PROVE InboxInv'
<1> USE DEF InboxInv
<1>1. Here /\ UNCHANGED <<delete, putBack, bell, moves>> /\ clear' = None /\ clear # None
  BY DEF ClearLands, Here, history
<1>2. Remembered' /\ Promised' /\ ReadsFit' /\ Ahead' /\ reads' \in Seq(Read) /\ shown' \in Answers
  <2>1. CASE clear.answer = "ok"
    <3> PICK ids : ids = clear.ids
      OBVIOUS
    <3>1. /\ reads' = NoteDeleted(reads, ids, FALSE)
          /\ shown' = [r \in Rows |-> IF r \in ids THEN "no" ELSE shown[r]]
      BY <2>1 DEF ClearLands
    <3>2. /\ shown' \in Answers /\ Shown' = Shown \ ids
          /\ \A r \in Rows \ ids : shown'[r] = shown[r]
      BY <3>1 DEF Shown, TypesFit, TypeOK, Answers
    <3>3. ids \subseteq Rows
      BY <1>1 DEF TypesFit, TypeOK, Call
    <3>4. \A r \in (Own(person) \ putBack) \cup heard : r \in ids => ~Holds(r)
      <4>1. /\ ids \subseteq Own(clear.for) \cup putBack
            /\ \A r \in ids \cap Own(clear.for) : ~Holds(r)
            /\ clear.for # person => \A r \in ids : r \notin heard
        BY <1>1, <2>1 DEF CallsFit, ClearFits
      <4>2. heard \subseteq Own(person)
        BY DEF TypesFit, TypeOK
      <4> QED BY <4>1, <4>2
    <3>5. Dooms(ids, FALSE)
      <4>1. ~Emptied(FALSE)
        BY DEF Emptied
      <4> QED BY <1>1, <3>1, <3>2, <3>4, <4>1, HereKeeps DEF Dooms, Here
    <3> QED BY <3>2, <3>3, <3>5, DoomsKeep
  <2>2. CASE clear.answer # "ok"
    <3>1. UNCHANGED <<reads, shown>>
      BY <2>2 DEF ClearLands
    <3> QED BY <1>1, <3>1, OnlyCalls DEF TypesFit, TypeOK
  <2> QED BY <2>1, <2>2
<1>3. FramesFit'
  BY <1>1, HereKeeps
<1>4. CallsFit'
  BY <1>1, HereKeeps DEF CallsFit, DeletesFit, ClearFits
<1>5. TypesFit'
  BY <1>1, <1>2, HereTypes DEF TypesFit, TypeOK
<1> QED BY <1>2, <1>3, <1>4, <1>5

LEMMA DismissLandsKeeps == ASSUME InboxInv, NEW r0 \in Rows, DismissLands(r0) PROVE InboxInv'
<1> USE DEF InboxInv
<1>1. /\ Here /\ UNCHANGED <<reads, bell, clear, moves>>
      /\ delete[r0] # None /\ delete[r0] \in Deletion /\ delete[r0].answer \in {"ok", "failed"}
      /\ delete' = [delete EXCEPT ![r0] = None]
  BY DEF DismissLands, Here, TypesFit, TypeOK, Deletion
<1>2. /\ Written(r0) /\ (delete[r0].answer = "ok" => ~Holds(r0))
      /\ delete' \in [Rows -> Deletion \cup {None}] /\ delete'[r0] = None
      /\ \A r \in Rows : r # r0 => delete'[r] = delete[r]
  BY <1>1 DEF CallsFit, DeletesFit, TypesFit, TypeOK
<1>3. /\ shown' \in Answers /\ Shown \subseteq Shown' /\ Shown' \subseteq Shown \cup {r0}
      /\ putBack \subseteq putBack' /\ putBack' \subseteq putBack \cup {r0} /\ putBack' \subseteq Rows
      /\ \A r \in Rows : r \notin putBack' => shown'[r] = shown[r]
      /\ r0 \in Shown' => r0 \in Shown \/ r0 \in putBack'
      /\ Holds(r0) => r0 \in Shown' /\ r0 \in putBack'
  <2>1. CASE delete[r0].answer = "failed"
    <3>1. shown' = [shown EXCEPT ![r0] = delete[r0].was] /\ putBack' = putBack \cup {r0}
      BY <2>1 DEF DismissLands
    <3>2. delete[r0].was \in {"unread", "read"}
      BY <1>1 DEF Deletion
    <3>3. shown' \in Answers /\ shown'[r0] # "no" /\ \A r \in Rows : r # r0 => shown'[r] = shown[r]
      BY <3>1, <3>2 DEF TypesFit, TypeOK, Answers
    <3> QED BY <3>1, <3>3 DEF Shown, TypesFit, TypeOK
  <2>2. CASE delete[r0].answer # "failed"
    <3>1. UNCHANGED <<shown, putBack>>
      BY <2>2 DEF DismissLands
    <3> QED BY <1>1, <1>2, <2>2, <3>1 DEF Shown, TypesFit, TypeOK
  <2> QED BY <2>1, <2>2
<1>4. /\ Own(person)' = Own(person) /\ Own(person) \subseteq Rows
      /\ \A kind, r : Coming(kind, r)' <=> Coming(kind, r)
      /\ ReadComing' <=> ReadComing
      /\ \A r : (Holds(r)' <=> Holds(r)) /\ (Written(r)' <=> Written(r))
      /\ UNCHANGED <<person, server, stream, heard, gone, behind>>
  BY <1>1, HereKeeps DEF Here
<1>5. \A r \in Own(person) \ putBack' :
          /\ r \in Shown' <=> r \in Shown
          /\ shown'[r] = shown[r]
          /\ Holds(r) /\ delete[r] # None => delete'[r] # None
  BY <1>2, <1>3, <1>4
<1>6. ASSUME NEW q PROVE ReadFits(q) => ReadFits(q)'
  <2>1. AnswerFits(q) => AnswerFits(q)'
    BY <1>4 DEF AnswerFits, Own
  <2>2. \A r : Kept(q, r)' <=> Kept(q, r)
    BY DEF Kept
  <2>3. Knows(q) => Knows(q)'
    BY <1>3, <1>4, <2>2 DEF Knows
  <2>4. \A r \in Own(person) \ putBack' : FollowsRow(q, r) => FollowsRow(q, r)'
    BY <1>4, <1>5, <2>2 DEF FollowsRow
  <2>5. \A r : AnswersRow(q, r)' <=> AnswersRow(q, r)
    BY <1>4, <2>2 DEF AnswersRow
  <2>6. Follows(q) => Follows(q)'
    BY <1>3, <1>4, <2>4, <2>5 DEF Follows
  <2> QED BY <1>4, <2>1, <2>3, <2>6 DEF ReadFits
<1>7. ReadsFit'
  <2>1. \A p, q : Older(p, q)' <=> Older(p, q)
    BY DEF Older, Kept
  <2> QED BY <1>1, <1>6, <2>1 DEF ReadsFit
<1>8. Remembered'
  BY <1>2, <1>3, <1>4 DEF Remembered
<1>9. Promised'
  <2>1. OnlyTheirOwn'
    BY <1>3, <1>4 DEF Promised, OnlyTheirOwn
  <2>2. NothingHeardIsLost'
    <3>1. heard \subseteq Rows
      BY <1>4 DEF TypesFit, TypeOK
    <3> QED BY <1>2, <1>3, <1>4, <3>1 DEF Promised, NothingHeardIsLost
  <2>3. NothingGoneComesBack'
    BY <1>3, <1>4 DEF Promised, NothingGoneComesBack
  <2> QED BY <2>1, <2>2, <2>3 DEF Promised
<1>10. Ahead'
  <2>1. \A r \in Own(person) \ putBack' : RowInStep(r) => RowInStep(r)'
    BY <1>4, <1>5 DEF RowInStep
  <2> QED BY <1>1, <1>3, <1>4, <2>1 DEF Ahead
<1>11. FramesFit' /\ ClearFits'
  BY <1>1, <1>3, HereKeeps, ClearWaits
<1>12. DeletesFit'
  BY <1>2, <1>4 DEF CallsFit, DeletesFit
<1>13. TypesFit'
  BY <1>1, <1>2, <1>3, HereTypes DEF TypesFit, TypeOK
<1> QED BY <1>7, <1>8, <1>9, <1>10, <1>11, <1>12, <1>13 DEF CallsFit

-----------------------------------------------------------------------------
(* The reads *)

\* A read that remembers what another does, and is alive only if that one is.
Less(p, q) ==
    /\ p \in Read /\ q \in Read /\ p.for = q.for /\ p.answer = q.answer
    /\ p.pushed = q.pushed /\ p.deleted = q.deleted /\ p.deletedAll = q.deletedAll
    /\ p.readAt = q.readAt
    /\ ~p.dead => ~q.dead
    /\ p.sinceOpen => q.sinceOpen

\* A read less; of the others each remembers what it did.
LEMMA ReadTakenOut ==
    ASSUME ReadsFit, reads \in Seq(Read), NEW i0 \in 1..Len(reads),
           NEW s \in Seq(Read), Len(s) = Len(reads), NEW t, t = reads', t = RemoveAt(s, i0),
           \A j \in 1..Len(reads) : j # i0 => ReadFits(s[j])' /\ Less(s[j], reads[j])
    PROVE  /\ ReadsFit' /\ t \in Seq(Read)
           /\ \A k \in 1..Len(t) : \E j \in 1..Len(reads) : j # i0 /\ t[k] = s[j]
<1> DEFINE m(k) == IF k < i0 THEN k ELSE k + 1
<1>1. /\ t \in Seq(Read) /\ Len(t) = Len(reads) - 1 /\ Len(reads) \in Nat
      /\ \A k \in 1..Len(t) : t[k] = s[m(k)]
  <2>1. i0 \in 1..Len(s) /\ Len(s) \in Nat
    BY LenProperties
  <2>2. /\ RemoveAt(s, i0) \in Seq(Read) /\ Len(RemoveAt(s, i0)) = Len(s) - 1
        /\ \A k \in 1..Len(s) - 1 : RemoveAt(s, i0)[k] = IF k < i0 THEN s[k] ELSE s[k + 1]
    BY <2>1, OneLess
  <2> QED BY <2>1, <2>2
<1>2. \A k \in 1..Len(t) : m(k) \in 1..Len(reads) /\ m(k) # i0 /\ (m(k) = Len(reads) => k = Len(t))
  BY <1>1
<1>3. \A k, l \in 1..Len(t) : k < l => m(k) < m(l)
  BY <1>1
<1> HIDE DEF m
<1>4. \A k \in 1..Len(t) : ReadFits(t[k])' /\ Less(t[k], reads[m(k)])
  BY <1>1, <1>2
<1>5. ASSUME NEW k \in 1..Len(t), NEW l \in 1..Len(t), k < l, ~t[k].dead, ~t[l].dead
      PROVE  Older(t[k], t[l])
  <2>1. Less(t[k], reads[m(k)]) /\ Less(t[l], reads[m(l)])
    BY <1>4
  <2>2. Older(reads[m(k)], reads[m(l)])
    BY <1>2, <1>3, <1>5, <2>1 DEF ReadsFit, Less
  <2> QED BY <2>1, <2>2 DEF Older, Less, Kept
<1>6. \A k \in 1..Len(t) : t[k].sinceOpen => k = Len(t)
  BY <1>2, <1>4 DEF ReadsFit, Less
<1> QED BY <1>1, <1>2, <1>4, <1>5, <1>6, ReadsAsOne

\* What the reads remember does not change by what else the tab shows.
LEMMA ReadStays ==
    ASSUME InboxInv, UNCHANGED <<server, person, frames, stream, shown, delete, heard, gone, putBack, behind>>,
           NEW q, ReadFits(q)
    PROVE  ReadFits(q)'
<1>1. /\ Own(person)' = Own(person) /\ Own(person) \subseteq Rows /\ Shown' = Shown
      /\ \A kind, r : Coming(kind, r)' <=> Coming(kind, r)
      /\ ReadComing' <=> ReadComing
      /\ \A r : (Holds(r)' <=> Holds(r)) /\ (Written(r)' <=> Written(r))
  BY StillKeeps DEF Shown
<1>2. AnswerFits(q) => AnswerFits(q)'
  BY <1>1 DEF AnswerFits, Own
<1>3. \A r : Kept(q, r)' <=> Kept(q, r)
  BY DEF Kept
<1>4. Knows(q) => Knows(q)'
  BY <1>1, <1>3 DEF Knows
<1>5. \A r : FollowsRow(q, r)' <=> FollowsRow(q, r)
  BY <1>1, <1>3 DEF FollowsRow
<1>6. \A r : AnswersRow(q, r)' <=> AnswersRow(q, r)
  BY <1>1, <1>3 DEF AnswersRow
<1>7. Follows(q) => Follows(q)'
  BY <1>1, <1>5, <1>6 DEF Follows
<1> QED BY <1>2, <1>4, <1>7 DEF ReadFits

\* A step of the reads alone, that shows nothing.
LEMMA OnlyReads ==
    ASSUME InboxInv,
           UNCHANGED <<server, person, shown, stream, frames, bell, clear, delete, history, moves>>,
           reads' \in Seq(Read), ReadsFit',
           ~behind => \A i \in 1..Len(reads') : reads'[i].dead
    PROVE  InboxInv'
<1> USE DEF InboxInv, history
<1>1. /\ FramesFit' /\ Own(person)' = Own(person) /\ Own(person) \subseteq Rows /\ Shown' = Shown
      /\ \A kind, r : Coming(kind, r)' <=> Coming(kind, r)
      /\ ReadComing' <=> ReadComing
      /\ \A r : (Holds(r)' <=> Holds(r)) /\ (Written(r)' <=> Written(r))
      /\ \A p : Own(p)' = Own(p)
  BY StillKeeps DEF Shown, Own
<1>2. CallsFit'
  BY <1>1 DEF CallsFit, DeletesFit, ClearFits
<1>3. Remembered'
  BY <1>1 DEF Remembered
<1>4. Promised'
  BY <1>1 DEF Promised, OnlyTheirOwn, NothingHeardIsLost, NothingGoneComesBack
<1>5. Ahead'
  <2>1. \A r : RowInStep(r)' <=> RowInStep(r)
    BY <1>1 DEF RowInStep
  <2> QED BY <1>1, <2>1 DEF Ahead
<1>6. TypesFit'
  <2>1. \A i \in 1..Len(reads') : reads'[i] \in Read
    <3> PICK t : t = reads'
      OBVIOUS
    <3>1. \A i \in 1..Len(t) : t[i] \in Read
      BY ElementOfSeq
    <3> QED BY <3>1
  <2>2. TypeOK'
    BY <1>1, <2>1 DEF TypesFit, TypeOK
  <2> QED BY <2>2 DEF TypesFit
<1> QED BY <1>1, <1>2, <1>3, <1>4, <1>5, <1>6

LEMMA ReadFailsKeeps ==
    ASSUME InboxInv, NEW i0 \in 1..Len(reads), reads' = RemoveAt(reads, i0),
           UNCHANGED <<server, person, shown, stream, frames, bell, clear, delete, history, moves>>
    PROVE  InboxInv'
<1> USE DEF InboxInv
<1> PICK t : t = reads'
  OBVIOUS
<1> PICK s : s = reads
  OBVIOUS
<1>1. s \in Seq(Read) /\ \A j \in 1..Len(s) : s[j] \in Read /\ ReadFits(s[j])
  BY ElementOfSeq DEF TypesFit, ReadsFit
<1>2. \A j \in 1..Len(s) : ReadFits(s[j])' /\ Less(s[j], s[j])
  <2>1. \A q \in Read : Less(q, q)
    BY DEF Less
  <2> QED BY <1>1, <2>1, ReadStays DEF history
<1>3. /\ ReadsFit' /\ t \in Seq(Read)
      /\ \A k \in 1..Len(t) : \E j \in 1..Len(reads) : j # i0 /\ t[k] = s[j]
  BY <1>1, <1>2, ReadTakenOut
<1>4. ~behind => \A i \in 1..Len(t) : t[i].dead
  BY <1>3 DEF Ahead
<1> QED BY <1>3, <1>4, OnlyReads

\* The server answers with what it holds: all that the read's person was told of it is in there.
LEMMA AnswerIsFresh ==
    ASSUME InboxInv, NEW q \in Read, ReadFits(q), q.answer = None, NEW a,
           a = [r \in Rows |-> IF r \in Own(q.for) /\ Holds(r) THEN server[r] ELSE "no"],
           NEW p, p = [q EXCEPT !.answer = a]
    PROVE  p \in Read /\ ReadFits(p)
<1> USE DEF InboxInv
<1>1. /\ a \in Answers
      /\ \A r \in Rows : /\ Holds(r) /\ r \in Own(q.for) => a[r] = server[r] /\ a[r] # "no"
                         /\ ~(Holds(r) /\ r \in Own(q.for)) => a[r] = "no"
  BY DEF Answers, Holds
<1>2. /\ p \in Read /\ p.for = q.for /\ p.answer = a /\ p.pushed = q.pushed
      /\ p.deleted = q.deleted /\ p.deletedAll = q.deletedAll /\ p.readAt = q.readAt
      /\ p.dead = q.dead /\ p.sinceOpen = q.sinceOpen
  BY <1>1 DEF Read
<1>3. AnswerFits(p)
  BY <1>1, <1>2 DEF AnswerFits, Written, Holds
<1>4. heard \subseteq Own(person) /\ gone \subseteq Own(person) /\ Own(person) \subseteq Rows
  BY DEF TypesFit, TypeOK, Own
<1>5. Knows(q) => Knows(p)
  <2>1. \A r \in gone : ~Holds(r)
    BY DEF Remembered, Holds
  <2> QED BY <1>1, <1>2, <1>4, <2>1 DEF Knows
<1>6. Follows(q) /\ Knows(q) => Follows(p)
  <2> SUFFICES ASSUME Follows(q), Knows(q), NEW r \in Own(person) \ putBack
               PROVE  FollowsRow(p, r) /\ AnswersRow(p, r)
    BY DEF Follows
  <2>1. FollowsRow(p, r)
    BY <1>2 DEF Follows, FollowsRow, Kept
  <2>2. r \in Rows /\ r \in Own(q.for)
    BY <1>4 DEF Knows
  <2>3. AnswersRow(p, r)
    BY <1>1, <1>2, <2>2 DEF AnswersRow, Holds
  <2> QED BY <2>1, <2>3
<1> QED BY <1>2, <1>3, <1>5, <1>6 DEF ReadFits

LEMMA ServerReadsKeeps ==
    ASSUME InboxInv, NEW i0 \in 1..Len(reads), ServerReads(i0) PROVE InboxInv'
<1> USE DEF InboxInv
<1> PICK s : s = reads
  OBVIOUS
<1> PICK t : t = reads'
  OBVIOUS
<1> DEFINE q == s[i0]
           a == [r \in Rows |-> IF r \in Own(q.for) /\ Holds(r) THEN server[r] ELSE "no"]
           p == [q EXCEPT !.answer = a]
<1>1. s \in Seq(Read) /\ \A j \in 1..Len(s) : s[j] \in Read /\ ReadFits(s[j])
  BY ElementOfSeq DEF TypesFit, ReadsFit
<1>2. DOMAIN s = 1..Len(s) /\ Len(s) \in Nat
  BY <1>1, LenProperties
<1>3. q.answer = None /\ p \in Read /\ ReadFits(p)
  BY <1>1, AnswerIsFresh DEF ServerReads
<1>4. t = [s EXCEPT ![i0] = p]
  BY DEF ServerReads
<1>5. p.pushed = q.pushed /\ p.deleted = q.deleted /\ p.deletedAll = q.deletedAll
      /\ p.readAt = q.readAt /\ p.dead = q.dead /\ p.sinceOpen = q.sinceOpen
  BY <1>1 DEF Read
<1> HIDE DEF p, a
<1>6. /\ t \in [1..Len(s) -> Read] /\ \A j \in 1..Len(s) : t[j] = IF j = i0 THEN p ELSE s[j]
  BY <1>1, <1>2, <1>3, <1>4
<1>7. t \in Seq(Read) /\ Len(t) = Len(s)
  BY <1>1, <1>6, EachChanged
<1>8. \A j \in 1..Len(s) : ReadFits(t[j])'
  <2>1. \A j \in 1..Len(s) : ReadFits(t[j])
    BY <1>1, <1>3, <1>6
  <2> QED BY <2>1, ReadStays DEF ServerReads, history
<1>9. \A j \in 1..Len(s) :
          /\ t[j].pushed = s[j].pushed /\ t[j].deleted = s[j].deleted
          /\ t[j].deletedAll = s[j].deletedAll /\ t[j].readAt = s[j].readAt
          /\ t[j].dead = s[j].dead /\ t[j].sinceOpen = s[j].sinceOpen
  BY <1>5, <1>6
<1>10. \A i, j \in 1..Len(s) : Older(s[i], s[j]) => Older(t[i], t[j])
  BY <1>9 DEF Older, Kept
<1>11. ReadsFit'
  BY <1>1, <1>7, <1>8, <1>9, <1>10, ReadsChanged
<1>12. ~behind => \A j \in 1..Len(t) : t[j].dead
  BY <1>7, <1>9 DEF Ahead
<1> QED BY <1>7, <1>11, <1>12, OnlyReads DEF ServerReads

\* A read that lands although a fresher one did is dropped.
LEMMA DeadReadKeeps ==
    ASSUME InboxInv, NEW i0 \in 1..Len(reads), ReadLands(i0), reads[i0].dead PROVE InboxInv'
<1>1. reads' = RemoveAt(reads, i0) /\ UNCHANGED <<shown, behind>>
  BY DEF ReadLands
<1>2. UNCHANGED <<server, person, shown, stream, frames, bell, clear, delete, history, moves>>
  BY <1>1 DEF ReadLands, history
<1> QED BY <1>1, <1>2, ReadFailsKeeps

\* What the tab shows once a read is applied: its answer, or what it showed.
LEMMA AppliedRows ==
    ASSUME NEW q \in Read, q.answer \in Answers, shown \in Answers, shown' = Applied(q)
    PROVE  /\ shown' \in Answers /\ Shown \subseteq Rows /\ Shown' \subseteq Rows
           /\ \A r \in Rows :
                  /\ q.answer[r] = "no" => IF r \in q.pushed THEN shown'[r] = shown[r] ELSE r \notin Shown'
                  /\ q.answer[r] # "no" /\ Kept(q, r) => shown'[r] = shown[r]
                  /\ q.answer[r] # "no" /\ ~Kept(q, r) =>
                         /\ r \in Shown'
                         /\ shown'[r] = "unread" => ~q.readAt /\ q.answer[r] = "unread"
                  /\ shown'[r] = shown[r] => (r \in Shown' <=> r \in Shown)
                  /\ shown'[r] = "unread" => r \in Shown'
<1>1. /\ shown' \in Answers
      /\ \A r \in Rows : shown'[r] =
             IF q.answer[r] = "no"
             THEN IF r \in q.pushed THEN shown[r] ELSE "no"
             ELSE IF Kept(q, r) THEN shown[r]
             ELSE IF q.readAt THEN "read" ELSE q.answer[r]
  BY DEF Applied, Answers, Kept
<1>2. /\ Shown \subseteq Rows /\ Shown' \subseteq Rows
      /\ \A r \in Rows : (r \in Shown <=> shown[r] # "no") /\ (r \in Shown' <=> shown'[r] # "no")
  BY DEF Shown
<1> QED BY <1>1, <1>2

\* A newer read in flight still knows what the one applied did not.
LEMMA NewerReadKeeps ==
    ASSUME InboxInv, NEW q \in Read, ReadFits(q), ~q.dead, q.answer \in Answers, shown' = Applied(q),
           UNCHANGED <<server, person, frames, stream, delete, heard, gone, putBack>>,
           NEW p \in Read, ReadFits(p), ~p.dead, Older(q, p), p.sinceOpen => behind'
    PROVE  ReadFits(p)'
<1> USE DEF InboxInv
<1>1. /\ Own(person)' = Own(person) /\ Own(person) \subseteq Rows
      /\ \A kind, r : Coming(kind, r)' <=> Coming(kind, r)
      /\ ReadComing' <=> ReadComing
      /\ \A r : (Holds(r)' <=> Holds(r)) /\ (Written(r)' <=> Written(r))
  BY StillKeeps
<1>2. /\ Shown \subseteq Rows /\ Shown' \subseteq Rows
      /\ \A r \in Rows :
             /\ q.answer[r] = "no" => IF r \in q.pushed THEN shown'[r] = shown[r] ELSE r \notin Shown'
             /\ q.answer[r] # "no" /\ Kept(q, r) => shown'[r] = shown[r]
             /\ q.answer[r] # "no" /\ ~Kept(q, r) =>
                    /\ r \in Shown'
                    /\ shown'[r] = "unread" => ~q.readAt /\ q.answer[r] = "unread"
             /\ shown'[r] = shown[r] => (r \in Shown' <=> r \in Shown)
             /\ shown'[r] = "unread" => r \in Shown'
  BY AppliedRows DEF TypesFit, TypeOK
<1>3. p.pushed \subseteq q.pushed /\ (p.readAt => q.readAt) /\ \A r \in Rows : Kept(p, r) => Kept(q, r)
  BY DEF Older
<1>4. Knows(p)
  BY DEF ReadFits
<1>5. p.pushed \subseteq Rows
  BY DEF Read
<1>6. AnswerFits(p)'
  BY <1>1 DEF ReadFits, AnswerFits, Own
<1>7. \A r : Kept(p, r)' <=> Kept(p, r)
  BY DEF Kept
<1>8. Knows(p)'
  <2>1. ASSUME NEW r \in p.pushed PROVE r \in Shown' \/ r \in p.deleted
    <3>1. r \in Rows /\ r \in q.pushed /\ (r \in Shown \/ r \in p.deleted)
      BY <1>3, <1>4, <1>5 DEF Knows
    <3> QED BY <1>2, <3>1
  <2> QED BY <1>1, <1>4, <1>7, <2>1 DEF Knows
<1>9. ASSUME NEW r \in Own(person) \ putBack, FollowsRow(p, r) PROVE FollowsRow(p, r)'
  <2>1. r \in Rows /\ (r \in p.pushed => r \in Shown \/ Kept(p, r))
    BY <1>1, <1>4 DEF Knows, Kept
  <2>2. server[r] = "deleted" /\ r \in Shown' /\ (Kept(p, r) \/ r \in p.pushed) => Coming("deleted", r)
    BY <1>2, <1>3, <1>9, <2>1 DEF FollowsRow
  <2>3. server[r] = "read" /\ shown'[r] = "unread" /\ (Kept(p, r) \/ r \in p.pushed) => ReadComing
    BY <1>2, <1>3, <1>9, <2>1 DEF FollowsRow
  <2> QED BY <1>1, <1>7, <1>9, <2>2, <2>3 DEF FollowsRow
<1>10. \A r : AnswersRow(p, r)' <=> AnswersRow(p, r)
  BY <1>1, <1>7 DEF AnswersRow
<1>11. Follows(p) => Follows(p)'
  BY <1>1, <1>9, <1>10 DEF Follows
<1> QED BY <1>6, <1>8, <1>11 DEF ReadFits

\* With the read of this connection applied, the tab is in step but for what is coming.
LEMMA AppliedInStep ==
    ASSUME InboxInv, NEW q \in Read, ReadFits(q), q.sinceOpen, q.answer # None, q.answer \in Answers,
           shown' = Applied(q),
           UNCHANGED <<server, person, frames, stream, delete, heard, gone, putBack>>,
           NEW r \in Own(person) \ putBack
    PROVE  RowInStep(r)'
<1> USE DEF InboxInv
<1>1. /\ Coming("created", r)' <=> Coming("created", r)
      /\ Coming("deleted", r)' <=> Coming("deleted", r)
      /\ ReadComing' <=> ReadComing
      /\ (Holds(r)' <=> Holds(r)) /\ r \in Rows /\ server' = server /\ delete' = delete
  BY StillKeeps DEF Own
<1>2. \A x \in Rows :
          /\ q.answer[x] = "no" => IF x \in q.pushed THEN shown'[x] = shown[x] ELSE x \notin Shown'
          /\ q.answer[x] # "no" /\ Kept(q, x) => shown'[x] = shown[x]
          /\ q.answer[x] # "no" /\ ~Kept(q, x) =>
                 /\ x \in Shown'
                 /\ shown'[x] = "unread" => ~q.readAt /\ q.answer[x] = "unread"
          /\ shown'[x] = shown[x] => (x \in Shown' <=> x \in Shown)
          /\ shown'[x] = "unread" => x \in Shown'
  BY AppliedRows DEF TypesFit, TypeOK
<1>3. FollowsRow(q, r) /\ AnswersRow(q, r) /\ Knows(q)
  BY DEF ReadFits, Follows
<1>4. r \in q.pushed => r \in Shown \/ Kept(q, r)
  BY <1>3 DEF Knows, Kept
<1>5. Holds(r) /\ Kept(q, r) => r \in Shown \/ Coming("created", r) \/ delete[r] # None
  BY <1>3 DEF FollowsRow, Promised, NothingHeardIsLost
<1>6. Holds(r) => r \in Shown' \/ Coming("created", r) \/ delete[r] # None
  BY <1>1, <1>2, <1>3, <1>4, <1>5 DEF AnswersRow
<1>7. server[r] = "deleted" /\ r \in Shown' => Coming("deleted", r)
  BY <1>1, <1>2, <1>3, <1>4 DEF AnswersRow, FollowsRow
<1>8. server[r] = "read" /\ shown'[r] = "unread" => ReadComing
  BY <1>1, <1>2, <1>3, <1>4 DEF AnswersRow, FollowsRow
<1> QED BY <1>1, <1>6, <1>7, <1>8 DEF RowInStep

LEMMA LiveReadKeeps ==
    ASSUME InboxInv, NEW i0 \in 1..Len(reads), ReadLands(i0), ~reads[i0].dead PROVE InboxInv'
<1> USE DEF InboxInv
<1> PICK s : s = reads
  OBVIOUS
<1> PICK t : t = reads'
  OBVIOUS
<1> PICK q : q = s[i0]
  OBVIOUS
<1> PICK u : u = [j \in DOMAIN s |-> [s[j] EXCEPT !.dead = @ \/ j < i0]]
  OBVIOUS
<1>1. /\ s \in Seq(Read) /\ \A j \in 1..Len(s) : s[j] \in Read /\ ReadFits(s[j])
      /\ DOMAIN s = 1..Len(s) /\ Len(s) \in Nat /\ i0 \in 1..Len(s)
  BY ElementOfSeq, LenProperties DEF TypesFit, ReadsFit
<1>2. /\ q \in Read /\ ReadFits(q) /\ ~q.dead /\ q.answer # None /\ q.answer \in Answers
      /\ shown' = Applied(q) /\ behind' = (behind /\ ~q.sinceOpen) /\ t = RemoveAt(u, i0)
      /\ UNCHANGED <<server, person, stream, frames, bell, clear, delete, heard, gone, putBack, moves>>
  BY <1>1 DEF ReadLands, Read
<1>3. Knows(q) /\ AnswerFits(q) /\ q.for = person
  BY <1>2 DEF ReadFits, Knows
<1>4. \A j \in 1..Len(s) : u[j] = IF j < i0 THEN [s[j] EXCEPT !.dead = TRUE] ELSE s[j]
  <2> SUFFICES ASSUME NEW j \in 1..Len(s)
               PROVE  u[j] = IF j < i0 THEN [s[j] EXCEPT !.dead = TRUE] ELSE s[j]
    OBVIOUS
  <2> PICK p : p = s[j]
    OBVIOUS
  <2>1. p \in Read /\ u[j] = [p EXCEPT !.dead = @ \/ j < i0]
    BY <1>1
  <2>2. CASE j < i0
    BY <2>1, <2>2 DEF Read
  <2>3. CASE ~(j < i0)
    BY <2>1, <2>3 DEF Read
  <2> QED BY <2>2, <2>3
<1>5. ASSUME NEW p \in Read, NEW d, d = [p EXCEPT !.dead = TRUE] PROVE Less(d, p) /\ d.dead
  BY <1>5 DEF Less, Read
<1>6. \A j \in 1..Len(s) : Less(u[j], s[j]) /\ u[j] \in Read /\ (j < i0 => u[j].dead)
  <2> SUFFICES ASSUME NEW j \in 1..Len(s)
               PROVE  Less(u[j], s[j]) /\ u[j] \in Read /\ (j < i0 => u[j].dead)
    OBVIOUS
  <2>1. \A p \in Read : Less(p, p)
    BY DEF Less
  <2>2. CASE j < i0
    <3>1. u[j] = [s[j] EXCEPT !.dead = TRUE]
      BY <1>4, <2>2
    <3>2. Less(u[j], s[j]) /\ u[j].dead
      BY <1>1, <1>5, <3>1
    <3> QED BY <3>2 DEF Less
  <2>3. CASE ~(j < i0)
    BY <1>1, <1>4, <2>1, <2>3
  <2> QED BY <2>2, <2>3
<1>7. u \in Seq(Read) /\ Len(u) = Len(s)
  <2>1. u \in [1..Len(s) -> Read]
    BY <1>1, <1>6
  <2> QED BY <1>1, <2>1, EachChanged
<1>8. \A j \in 1..Len(s) : s[j].sinceOpen => j = Len(s)
  BY DEF ReadsFit
<1>9. ASSUME NEW j \in 1..Len(s), j # i0 PROVE ReadFits(u[j])'
  <2>1. CASE j < i0
    <3>0. j # Len(s)
      BY <1>1, <2>1
    <3>1. Less(u[j], s[j]) /\ u[j].dead /\ AnswerFits(s[j]) /\ ~s[j].sinceOpen
      <4>1. ~s[j].sinceOpen
        BY <1>8, <3>0
      <4>2. ReadFits(s[j])
        BY <1>1
      <4>3. Less(u[j], s[j]) /\ u[j].dead
        BY <1>6, <2>1
      <4> QED BY <4>1, <4>2, <4>3 DEF ReadFits
    <3> QED BY <1>2, <3>1 DEF ReadFits, AnswerFits, Less, Own, Written
  <2>2. CASE ~(j < i0)
    <3>1. u[j] = s[j] /\ i0 < j /\ s[j] \in Read /\ ReadFits(s[j]) /\ ~q.sinceOpen
      <4>0. i0 < j
        BY <1>1, <1>9, <2>2
      <4>1. u[j] = s[j] /\ i0 < j
        BY <1>4, <2>2, <4>0
      <4>2. i0 # Len(s)
        BY <1>1, <4>1
      <4>3. ~q.sinceOpen
        BY <1>8, <4>2, <1>1
      <4> QED BY <1>1, <4>1, <4>3
    <3>2. CASE s[j].dead
      <4>1. AnswerFits(s[j]) /\ ~s[j].sinceOpen
        BY <3>1, <3>2 DEF ReadFits
      <4> QED BY <1>2, <3>1, <3>2, <4>1 DEF ReadFits, AnswerFits, Own, Written
    <3>3. CASE ~s[j].dead
      <4> PICK p : p = s[j]
        OBVIOUS
      <4>1. Older(q, p)
        BY <1>1, <1>2, <3>1, <3>3 DEF ReadsFit
      <4>2. p.sinceOpen => behind'
        BY <1>2, <3>1 DEF ReadFits
      <4>3. ReadFits(p)'
        BY <1>2, <3>1, <3>3, <4>1, <4>2, NewerReadKeeps
      <4> QED BY <3>1, <4>3
    <3> QED BY <3>2, <3>3
  <2> QED BY <2>1, <2>2
<1>10. /\ ReadsFit' /\ t \in Seq(Read)
       /\ \A k \in 1..Len(t) : \E j \in 1..Len(s) : j # i0 /\ t[k] = u[j]
  <2>1. \A j \in 1..Len(reads) : j # i0 => ReadFits(u[j])' /\ Less(u[j], reads[j])
    BY <1>6, <1>9
  <2>2. ReadsFit /\ reads \in Seq(Read) /\ Len(u) = Len(reads) /\ t = reads' /\ s = reads
    BY <1>1, <1>7
  <2>3. i0 \in 1..Len(reads) /\ u \in Seq(Read) /\ t = RemoveAt(u, i0)
    BY <1>2, <1>7
  <2>4. /\ ReadsFit' /\ t \in Seq(Read)
        /\ \A k \in 1..Len(t) : \E j \in 1..Len(reads) : j # i0 /\ t[k] = u[j]
    BY ONLY <2>1, <2>2, <2>3, ReadTakenOut
  <2> QED BY <2>2, <2>4
<1>11. /\ FramesFit' /\ Own(person)' = Own(person) /\ Own(person) \subseteq Rows
       /\ \A kind, r : Coming(kind, r)' <=> Coming(kind, r)
       /\ \A r : (Holds(r)' <=> Holds(r)) /\ (Written(r)' <=> Written(r))
       /\ \A p : Own(p)' = Own(p)
  BY <1>2, StillKeeps DEF Own
<1>12. /\ shown' \in Answers /\ Shown \subseteq Rows /\ Shown' \subseteq Rows
       /\ \A r \in Rows :
              /\ q.answer[r] = "no" => IF r \in q.pushed THEN shown'[r] = shown[r] ELSE r \notin Shown'
              /\ q.answer[r] # "no" /\ Kept(q, r) => shown'[r] = shown[r]
              /\ q.answer[r] # "no" /\ ~Kept(q, r) => r \in Shown'
              /\ shown'[r] = shown[r] => (r \in Shown' <=> r \in Shown)
  BY <1>2, AppliedRows DEF TypesFit, TypeOK
<1>13. CallsFit'
  BY <1>2, <1>11 DEF CallsFit, DeletesFit, ClearFits
<1>14. \A r \in Shown' : r \in Rows /\ (r \in Shown \/ q.answer[r] # "no")
  BY <1>12
<1>15. Remembered'
  BY <1>2, <1>3, <1>11, <1>14 DEF Remembered, AnswerFits
<1>16. Promised'
  <2>1. heard \subseteq Rows /\ gone \subseteq Rows
    BY <1>11 DEF TypesFit, TypeOK
  <2>2. OnlyTheirOwn'
    BY <1>2, <1>3, <1>11, <1>14 DEF Promised, OnlyTheirOwn, AnswerFits
  <2>3. NothingHeardIsLost'
    <3> SUFFICES ASSUME NEW r \in heard, Holds(r), delete[r] = None PROVE r \in Shown'
      BY <1>2, <1>11 DEF NothingHeardIsLost
    <3>1. r \in Shown /\ r \in Rows
      BY <2>1 DEF Promised, NothingHeardIsLost
    <3>2. q.answer[r] = "no" => r \in q.pushed
      BY <1>2, <1>3 DEF Knows
    <3> QED BY <1>12, <3>1, <3>2
  <2>4. NothingGoneComesBack'
    <3> SUFFICES ASSUME NEW r \in gone, r \in Shown' PROVE r \in putBack
      BY <1>2, <1>11 DEF NothingGoneComesBack
    <3>1. q.answer[r] # "no" => Kept(q, r)
      BY <1>2, <1>3 DEF Knows
    <3>2. r \in Shown
      BY <1>12, <2>1, <3>1
    <3> QED BY <3>2 DEF Promised, NothingGoneComesBack
  <2> QED BY <2>2, <2>3, <2>4 DEF Promised
<1>17. Ahead'
  <2> SUFFICES ASSUME ~behind'
               PROVE  /\ stream = "open"
                      /\ \A k \in 1..Len(t) : t[k].dead
                      /\ \A r \in Own(person) \ putBack : RowInStep(r)'
    BY <1>2, <1>11 DEF Ahead
  <2>1. q.sinceOpen /\ stream = "open"
    BY <1>1, <1>2 DEF Ahead, ReadFits
  <2>2. \A k \in 1..Len(t) : t[k].dead
    <3>1. i0 = Len(s)
      BY <1>1, <1>8, <2>1
    <3>2. \A j \in 1..Len(s) : j # i0 => u[j].dead
      <4>1. \A j \in 1..Len(s) : j # i0 => j < i0
        BY <1>1, <3>1
      <4> QED BY <1>6, <4>1
    <3> QED BY <1>10, <3>2
  <2>3. \A r \in Own(person) \ putBack : RowInStep(r)'
    BY <1>2, <2>1, AppliedInStep
  <2> QED BY <2>1, <2>2, <2>3
<1>18. TypesFit'
  <2>1. \A i \in 1..Len(t) : t[i] \in Read
    BY <1>10, ElementOfSeq
  <2>2. behind' \in BOOLEAN
    BY <1>2
  <2>3. TypeOK'
    BY <1>2, <1>11, <1>12, <2>1, <2>2 DEF TypesFit, TypeOK
  <2> QED BY <1>2, <1>10, <2>3 DEF TypesFit
<1> QED BY <1>10, <1>11, <1>13, <1>15, <1>16, <1>17, <1>18

LEMMA ReadLandsKeeps ==
    ASSUME InboxInv, NEW i0 \in 1..Len(reads), ReadLands(i0) PROVE InboxInv'
  BY DeadReadKeeps, LiveReadKeeps

-----------------------------------------------------------------------------
(* The stream *)

\* With no frame on its way and no read alive, the reads and the frames promise nothing.
LEMMA NothingComes ==
    ASSUME frames' = <<>>
    PROVE  FramesFit' /\ frames' \in Seq(Frames) /\ (\A kind, r : ~Coming(kind, r)')
           /\ \A i \in 1..Len(frames') : /\ frames'[i].kind \in {"created", "deleted", "read"}
                                         /\ frames'[i].rows \subseteq Own(person)'
<1>1. Len(frames') = 0 /\ frames' \in Seq(Frames) /\ 1..0 = {}
  BY EmptySeq
<1> QED BY <1>1 DEF FramesFit, FramesTold, CreatedOnce, EmptiedBefore, ToldInTurn, Coming

\* A read more, the newest.
LEMMA ReadAdded ==
    ASSUME NEW s \in Seq(Read), NEW q \in Read, NEW t, t = Append(s, q)
    PROVE  /\ t \in Seq(Read) /\ Len(s) \in Nat /\ Len(t) = Len(s) + 1 /\ t[Len(t)] = q
           /\ \A i \in 1..Len(s) : t[i] = s[i]
           /\ \A i \in 1..Len(t) : i \in 1..Len(s) \/ i = Len(t)
           /\ Len(t) \in 1..Len(t)
  BY AppendProperties, LenProperties

LEMMA NewReadIs ==
    ASSUME NEW p \in Persons, NEW b \in BOOLEAN, NEW q, q = NewRead(p, b)
    PROVE  /\ q \in Read /\ q.for = p /\ q.answer = None /\ q.pushed = {} /\ q.deleted = {}
           /\ ~q.readAt /\ ~q.dead /\ (q.sinceOpen <=> b)
           /\ \A r : ~Kept(q, r)
  BY DEF NewRead, Read, Kept

LEMMA StreamOpensKeeps == ASSUME InboxInv, StreamOpens PROVE InboxInv'
<1> USE DEF InboxInv
<1> PICK s : s = reads
  OBVIOUS
<1> PICK t : t = reads'
  OBVIOUS
<1> PICK p \in Persons : p = person
  BY DEF StreamOpens, TypesFit, TypeOK
<1> PICK q : q = NewRead(p, TRUE)
  OBVIOUS
<1>1. /\ q \in Read /\ q.for = p /\ q.answer = None /\ q.pushed = {} /\ q.deleted = {}
      /\ ~q.readAt /\ ~q.dead /\ q.sinceOpen
      /\ \A r : ~Kept(q, r)
  BY NewReadIs
<1>2. /\ stream = "connecting" /\ stream' = "open" /\ t = Append(s, q) /\ s \in Seq(Read)
      /\ UNCHANGED <<server, person, shown, frames, bell, clear, delete, heard, gone, putBack, behind, moves>>
  BY DEF StreamOpens, history, TypesFit
<1>3. /\ t \in Seq(Read) /\ Len(s) \in Nat /\ Len(t) = Len(s) + 1 /\ t[Len(t)] = q
      /\ \A i \in 1..Len(s) : t[i] = s[i]
      /\ \A i \in 1..Len(t) : i \in 1..Len(s) \/ i = Len(t)
      /\ Len(t) \in 1..Len(t)
  <2>1. q \in Read /\ s \in Seq(Read) /\ t = Append(s, q)
    BY <1>1, <1>2
  <2> QED BY ONLY <2>1, ReadAdded
<1>4. /\ FramesFit' /\ Own(person)' = Own(person) /\ Own(person) \subseteq Rows /\ Shown' = Shown
      /\ \A kind, r : Coming(kind, r)' <=> Coming(kind, r)
      /\ ReadComing' <=> ReadComing
      /\ \A r : (Holds(r)' <=> Holds(r)) /\ (Written(r)' <=> Written(r))
      /\ \A x : Own(x)' = Own(x)
  BY <1>2, StillKeeps DEF Shown, Own
<1>5. behind /\ \A i \in 1..Len(s) : ReadFits(s[i]) /\ ~s[i].sinceOpen
  BY <1>2 DEF Ahead, ReadsFit, ReadFits, TypesFit, TypeOK
<1>6. \A i \in 1..Len(s) : ReadFits(s[i])'
  <2>1. ASSUME NEW x, ReadFits(x), ~x.sinceOpen PROVE ReadFits(x)'
    <3>1. AnswerFits(x) => AnswerFits(x)'
      BY <1>4 DEF AnswerFits, Own
    <3>2. \A r : Kept(x, r)' <=> Kept(x, r)
      BY DEF Kept
    <3>3. Knows(x) => Knows(x)'
      BY <1>2, <1>4, <3>2 DEF Knows
    <3> QED BY <2>1, <3>1, <3>3 DEF ReadFits
  <2> QED BY <1>5, <2>1
<1>7. ReadFits(q)'
  <2>1. \A r : ~Kept(q, r)'
    BY <1>1 DEF Kept
  <2>2. Follows(q)'
    BY <1>1, <2>1 DEF Follows, FollowsRow
  <2>3. Knows(q)' /\ AnswerFits(q)'
    BY <1>1, <1>2 DEF Knows, AnswerFits
  <2> QED BY <1>1, <1>2, <1>5, <2>2, <2>3 DEF ReadFits
<1>8. ReadsFit'
  <2>1. \A i \in 1..Len(t) : ReadFits(t[i])'
    BY <1>3, <1>6, <1>7
  <2>2. \A x : Older(x, q)
    BY <1>1 DEF Older
  <2>3. ASSUME NEW i \in 1..Len(t), NEW j \in 1..Len(t), i < j, ~t[i].dead, ~t[j].dead
        PROVE  Older(t[i], t[j])
    <3>1. CASE j = Len(t)
      BY <1>3, <2>2, <3>1
    <3>2. CASE j # Len(t)
      <4>1. i \in 1..Len(s) /\ j \in 1..Len(s)
        BY <1>3, <2>3, <3>2
      <4> QED BY <1>3, <2>3, <4>1 DEF ReadsFit
    <3> QED BY <3>1, <3>2
  <2>4. \A i \in 1..Len(t) : t[i].sinceOpen => i = Len(t)
    BY <1>3, <1>5
  <2> QED BY <1>3, <2>1, <2>3, <2>4, ReadsAsOne
<1>9. CallsFit'
  BY <1>2, <1>4 DEF CallsFit, DeletesFit, ClearFits
<1>10. Remembered'
  BY <1>2, <1>4 DEF Remembered
<1>11. Promised'
  BY <1>2, <1>4 DEF Promised, OnlyTheirOwn, NothingHeardIsLost, NothingGoneComesBack
<1>12. Ahead'
  BY <1>2, <1>5 DEF Ahead
<1>13. TypesFit'
  <2>1. \A i \in 1..Len(t) : t[i] \in Read
    BY <1>3, ElementOfSeq
  <2>2. TypeOK'
    BY <1>2, <1>4, <2>1 DEF TypesFit, TypeOK
  <2> QED BY <1>2, <1>3, <2>2 DEF TypesFit
<1> QED BY <1>4, <1>8, <1>9, <1>10, <1>11, <1>12, <1>13

LEMMA ReopenKeeps == ASSUME InboxInv, Reopen PROVE InboxInv'
<1> USE DEF InboxInv
<1>1. /\ stream = "waiting" /\ stream' = "connecting" /\ reads' = reads
      /\ UNCHANGED <<server, person, shown, frames, bell, clear, delete, heard, gone, putBack, behind, moves>>
  BY DEF Reopen, history
<1>2. /\ FramesFit' /\ Own(person)' = Own(person) /\ Shown' = Shown
      /\ \A kind, r : Coming(kind, r)' <=> Coming(kind, r)
      /\ \A r : (Holds(r)' <=> Holds(r)) /\ (Written(r)' <=> Written(r))
      /\ \A x : Own(x)' = Own(x)
  BY <1>1, StillKeeps DEF Shown, Own
<1>3. behind /\ \A i \in 1..Len(reads) : ~reads[i].sinceOpen
  BY <1>1 DEF Ahead, ReadsFit, ReadFits, TypesFit, TypeOK
<1>4. ASSUME NEW q, ReadFits(q), ~q.sinceOpen PROVE ReadFits(q)'
  <2>1. AnswerFits(q) => AnswerFits(q)'
    BY <1>2 DEF AnswerFits
  <2>2. \A r : Kept(q, r)' <=> Kept(q, r)
    BY DEF Kept
  <2>3. Knows(q) => Knows(q)'
    BY <1>1, <1>2, <2>2 DEF Knows
  <2> QED BY <1>4, <2>1, <2>3 DEF ReadFits
<1>5. ReadsFit'
  <2> PICK s : s = reads
    OBVIOUS
  <2>1. \A i \in 1..Len(s) : ReadFits(s[i]) /\ ~s[i].sinceOpen
    BY <1>3 DEF ReadsFit
  <2>2. s \in Seq(Read) /\ s = reads'
    BY <1>1 DEF TypesFit
  <2> QED BY <1>4, <2>1, <2>2, ReadsAsOne DEF ReadsFit
<1>6. CallsFit'
  BY <1>1, <1>2 DEF CallsFit, DeletesFit, ClearFits
<1>7. Remembered'
  BY <1>1, <1>2 DEF Remembered
<1>8. Promised'
  BY <1>1, <1>2 DEF Promised, OnlyTheirOwn, NothingHeardIsLost, NothingGoneComesBack
<1>9. Ahead'
  BY <1>1, <1>3 DEF Ahead
<1>10. TypesFit'
  <2>1. TypeOK'
    BY <1>1, <1>2 DEF TypesFit, TypeOK
  <2> QED BY <1>1, <2>1 DEF TypesFit
<1> QED BY <1>2, <1>5, <1>6, <1>7, <1>8, <1>9, <1>10

\* A read that no longer brings this connection into step.
LEMMA NoLongerThis ==
    ASSUME NEW q \in Read, NEW p, p = [q EXCEPT !.sinceOpen = FALSE]
    PROVE  Less(p, q) /\ ~p.sinceOpen /\ p.dead = q.dead
  BY DEF Less, Read

LEMMA StreamFailsKeeps == ASSUME InboxInv, StreamFails PROVE InboxInv'
<1> USE DEF InboxInv
<1> PICK s : s = reads
  OBVIOUS
<1> PICK t : t = reads'
  OBVIOUS
<1>1. /\ stream' \in {"connecting", "waiting"} /\ stream \in {"connecting", "open"} /\ frames' = <<>> /\ behind' = TRUE
      /\ t = [i \in DOMAIN s |-> [s[i] EXCEPT !.sinceOpen = FALSE]]
      /\ moves' \in 0..MaxMoves
      /\ UNCHANGED <<server, person, shown, bell, clear, delete, heard, gone, putBack>>
  BY InboxBounds DEF StreamFails, Move, TypesFit, TypeOK
<1>2. s \in Seq(Read) /\ DOMAIN s = 1..Len(s) /\ \A i \in 1..Len(s) : s[i] \in Read /\ ReadFits(s[i])
  BY ElementOfSeq, LenProperties DEF TypesFit, ReadsFit
<1>3. \A i \in 1..Len(s) : Less(t[i], s[i]) /\ ~t[i].sinceOpen /\ t[i].dead = s[i].dead
  BY <1>1, <1>2, NoLongerThis
<1>4. t \in Seq(Read) /\ Len(t) = Len(s)
  <2>1. t \in [1..Len(s) -> Read]
    BY <1>1, <1>2, <1>3 DEF Less
  <2> QED BY <1>2, <2>1, EachChanged
<1>5. /\ FramesFit' /\ frames' \in Seq(Frames) /\ (\A kind, r : ~Coming(kind, r)')
      /\ \A i \in 1..Len(frames') : /\ frames'[i].kind \in {"created", "deleted", "read"}
                                    /\ frames'[i].rows \subseteq Own(person)'
  BY <1>1, NothingComes
<1>6. /\ Own(person)' = Own(person) /\ Shown' = Shown
      /\ \A r : (Holds(r)' <=> Holds(r)) /\ (Written(r)' <=> Written(r))
      /\ \A x : Own(x)' = Own(x)
  BY <1>1 DEF Shown, Own, Holds, Written
<1>7. ASSUME NEW q \in Read, ReadFits(q), NEW p, Less(p, q), ~p.sinceOpen PROVE ReadFits(p)'
  <2>1. AnswerFits(q) => AnswerFits(p)'
    BY <1>6, <1>7 DEF AnswerFits, Less
  <2>2. \A r : Kept(p, r)' <=> Kept(q, r)
    BY <1>7 DEF Kept, Less
  <2>3. Knows(q) => Knows(p)'
    BY <1>1, <1>6, <1>7, <2>2 DEF Knows, Less
  <2> QED BY <1>7, <2>1, <2>3 DEF ReadFits, Less
<1>8. ReadsFit'
  <2>1. \A i \in 1..Len(t) : ReadFits(t[i])'
    BY <1>2, <1>3, <1>4, <1>7
  <2>2. ASSUME NEW i \in 1..Len(t), NEW j \in 1..Len(t), i < j, ~t[i].dead, ~t[j].dead
        PROVE  Older(t[i], t[j])
    <3>1. Less(t[i], s[i]) /\ Less(t[j], s[j])
      BY <1>3, <1>4
    <3>2. Older(s[i], s[j])
      BY <1>4, <2>2, <3>1 DEF ReadsFit, Less
    <3> QED BY <3>1, <3>2 DEF Older, Less, Kept
  <2> QED BY <1>3, <1>4, <2>1, <2>2, ReadsAsOne
<1>9. CallsFit'
  BY <1>1, <1>5, <1>6 DEF CallsFit, DeletesFit, ClearFits
<1>10. Remembered'
  BY <1>1, <1>5, <1>6 DEF Remembered
<1>11. Promised'
  BY <1>1, <1>6 DEF Promised, OnlyTheirOwn, NothingHeardIsLost, NothingGoneComesBack
<1>12. Ahead'
  BY <1>1 DEF Ahead
<1>13. TypesFit'
  <2>1. \A i \in 1..Len(t) : t[i] \in Read
    BY <1>4, ElementOfSeq
  <2>2. TypeOK'
    BY <1>1, <1>5, <1>6, <2>1 DEF TypesFit, TypeOK
  <2> QED BY <1>1, <1>4, <1>5, <2>2 DEF TypesFit
<1> QED BY <1>5, <1>8, <1>9, <1>10, <1>11, <1>12, <1>13

\* The person changes: no read that left before may be applied.
LEMMA SignKeeps == ASSUME InboxInv, NEW p \in Persons \cup {None}, Sign(p) PROVE InboxInv'
<1> USE DEF InboxInv
<1> PICK s : s = reads
  OBVIOUS
<1> PICK t : t = reads'
  OBVIOUS
<1> PICK k : k = Killed(s)
  OBVIOUS
<1>1. /\ person' = p /\ shown' = [r \in Rows |-> "no"] /\ frames' = <<>>
      /\ heard' = {} /\ gone' = {} /\ behind' = TRUE /\ moves' \in 0..MaxMoves
      /\ stream' \in {"closed", "connecting"} /\ (stream' # "closed" => person' # None)
      /\ p = None => t = k
      /\ p # None => t = Append(k, NewRead(p, FALSE))
      /\ UNCHANGED <<server, bell, clear, delete, putBack>>
  <2>1. moves' \in 0..MaxMoves
    BY InboxBounds DEF Sign, Move, TypesFit, TypeOK
  <2>2. CASE p = None
    BY <2>1, <2>2 DEF Sign
  <2>3. CASE p # None
    BY <2>1, <2>3 DEF Sign
  <2> QED BY <2>2, <2>3
<1>2. s \in Seq(Read) /\ DOMAIN s = 1..Len(s) /\ \A i \in 1..Len(s) : s[i] \in Read /\ AnswerFits(s[i])
  BY ElementOfSeq, LenProperties DEF TypesFit, ReadsFit, ReadFits
<1>3. /\ k = [i \in 1..Len(s) |-> k[i]]
      /\ \A i \in 1..Len(s) : k[i] = [s[i] EXCEPT !.dead = TRUE, !.sinceOpen = FALSE]
  BY <1>2 DEF Killed
<1>4. \A i \in 1..Len(s) : /\ k[i] \in Read /\ k[i].dead /\ ~k[i].sinceOpen
                           /\ k[i].answer = s[i].answer /\ k[i].for = s[i].for
  <2> SUFFICES ASSUME NEW i \in 1..Len(s)
               PROVE  /\ k[i] \in Read /\ k[i].dead /\ ~k[i].sinceOpen
                      /\ k[i].answer = s[i].answer /\ k[i].for = s[i].for
    OBVIOUS
  <2> PICK q : q = s[i]
    OBVIOUS
  <2>1. q \in Read /\ k[i] = [q EXCEPT !.dead = TRUE, !.sinceOpen = FALSE]
    BY <1>2, <1>3
  <2> QED BY <2>1 DEF Read
<1>5. k \in Seq(Read) /\ Len(k) = Len(s)
  <2>1. k \in [1..Len(s) -> Read]
    BY <1>3, <1>4
  <2> QED BY <1>2, <2>1, EachChanged
<1>6. \A i \in 1..Len(k) : ReadFits(k[i])'
  <2>1. \A i \in 1..Len(k) : AnswerFits(k[i])'
    BY <1>1, <1>2, <1>4, <1>5 DEF AnswerFits, Own, Written
  <2> QED BY <1>4, <1>5, <2>1 DEF ReadFits
<1>7. ReadsFit' /\ t \in Seq(Read)
  <2>1. CASE p = None
    BY <1>1, <1>4, <1>5, <1>6, <2>1, ReadsAsOne
  <2>2. CASE p # None
    <3> PICK q : q = NewRead(p, FALSE)
      OBVIOUS
    <3>1. p \in Persons /\ t = Append(k, q)
      BY <1>1, <2>2
    <3>2. /\ q \in Read /\ q.for = p /\ q.answer = None /\ q.pushed = {} /\ ~q.sinceOpen
      BY <3>1, NewReadIs
    <3>3. /\ t \in Seq(Read) /\ Len(k) \in Nat /\ Len(t) = Len(k) + 1 /\ t[Len(t)] = q
          /\ \A i \in 1..Len(k) : t[i] = k[i]
          /\ \A i \in 1..Len(t) : i \in 1..Len(k) \/ i = Len(t)
          /\ Len(t) \in 1..Len(t)
      BY ONLY <1>5, <3>1, <3>2, ReadAdded
    <3>4. ReadFits(q)'
      BY <1>1, <3>2 DEF ReadFits, AnswerFits, Knows
    <3>5. \A i \in 1..Len(t) : ReadFits(t[i])'
      BY <1>6, <3>3, <3>4
    <3>6. \A i, j \in 1..Len(t) : i < j /\ ~t[i].dead /\ ~t[j].dead => Older(t[i], t[j])
      <4> SUFFICES ASSUME NEW i \in 1..Len(t), NEW j \in 1..Len(t), i < j PROVE t[i].dead
        OBVIOUS
      <4>1. i \in 1..Len(k)
        BY <3>3
      <4> QED BY <1>4, <1>5, <3>3, <4>1
    <3>7. \A i \in 1..Len(t) : ~t[i].sinceOpen
      <4> SUFFICES ASSUME NEW i \in 1..Len(t) PROVE ~t[i].sinceOpen
        OBVIOUS
      <4>1. CASE i = Len(t)
        BY <3>2, <3>3, <4>1
      <4>2. CASE i \in 1..Len(k)
        BY <1>4, <1>5, <3>3, <4>2
      <4> QED BY <3>3, <4>1, <4>2
    <3> QED BY <3>3, <3>5, <3>6, <3>7, ReadsAsOne
  <2> QED BY <2>1, <2>2
<1>8. /\ FramesFit' /\ frames' \in Seq(Frames) /\ (\A kind, r : ~Coming(kind, r)')
      /\ \A i \in 1..Len(frames') : /\ frames'[i].kind \in {"created", "deleted", "read"}
                                    /\ frames'[i].rows \subseteq Own(person)'
  BY <1>1, NothingComes
<1>9. Shown' = {} /\ shown' \in Answers /\ \A x : Own(x)' = Own(x)
  BY <1>1 DEF Shown, Own, Answers
<1>10. \A r : (Holds(r)' <=> Holds(r)) /\ (Written(r)' <=> Written(r))
  BY <1>1 DEF Holds, Written
<1>11. CallsFit'
  BY <1>1, <1>8, <1>9, <1>10 DEF CallsFit, DeletesFit, ClearFits
<1>12. Remembered' /\ Promised' /\ Ahead'
  BY <1>1, <1>9 DEF Remembered, Promised, OnlyTheirOwn, NothingHeardIsLost, NothingGoneComesBack, Ahead
<1>13. TypesFit'
  <2>1. \A i \in 1..Len(t) : t[i] \in Read
    BY <1>7, ElementOfSeq
  <2>2. TypeOK'
    BY <1>1, <1>8, <1>9, <2>1 DEF TypesFit, TypeOK
  <2> QED BY <1>1, <1>7, <1>8, <2>2 DEF TypesFit
<1> QED BY <1>7, <1>8, <1>11, <1>12, <1>13

-----------------------------------------------------------------------------
(* Every step keeps it *)

LEMMA StepInboxInv == InboxInv /\ [Next]_vars => InboxInv'
<1> SUFFICES ASSUME InboxInv, [Next]_vars PROVE InboxInv'
  OBVIOUS
<1>1. CASE \E p \in Persons \cup {None} : Sign(p)
  BY <1>1, SignKeeps
<1>2. CASE StreamOpens \/ StreamFails \/ Reopen \/ Hear
  BY <1>2, StreamOpensKeeps, StreamFailsKeeps, ReopenKeeps, HearKeeps
<1>3. CASE \E i \in 1..Len(reads) : ServerReads(i) \/ ReadLands(i) \/ ReadFails(i)
  <2> PICK i \in 1..Len(reads) : ServerReads(i) \/ ReadLands(i) \/ ReadFails(i)
    BY <1>3
  <2>1. CASE ReadFails(i)
    BY <2>1, ReadFailsKeeps DEF ReadFails
  <2> QED BY <2>1, ServerReadsKeeps, ReadLandsKeeps
<1>4. CASE \E r \in Rows : Write(r) \/ DeletedElsewhere(r) \/ ServerDeletes(r)
  BY <1>4, ServerKeeps DEF Server
<1>5. CASE \E r \in Rows : Dismiss(r) \/ DismissLands(r)
  BY <1>5, DismissKeeps, DismissLandsKeeps
<1>6. CASE ServerReadsAll \/ ServerClears
  BY <1>6, ServerKeeps DEF Server
<1>7. CASE OpenBell \/ BellLands \/ ClearAll \/ ClearLands
  BY <1>7, OpenBellKeeps, BellLandsKeeps, ClearAllKeeps, ClearLandsKeeps
<1>8. CASE UNCHANGED vars
  <2>1. /\ UNCHANGED <<server, person, shown, stream, frames, bell, clear, delete, history, moves>>
        /\ reads' = reads
    BY <1>8 DEF vars, history
  <2> PICK s : s = reads
    OBVIOUS
  <2>2. s \in Seq(Read) /\ \A i \in 1..Len(s) : ReadFits(s[i])
    BY DEF InboxInv, TypesFit, ReadsFit
  <2>3. \A i \in 1..Len(s) : ReadFits(s[i])'
    BY <2>1, <2>2, ReadStays DEF history
  <2>4. ReadsFit'
    <3>1. /\ \A i, j \in 1..Len(s) : i < j /\ ~s[i].dead /\ ~s[j].dead => Older(s[i], s[j])
          /\ \A i \in 1..Len(s) : s[i].sinceOpen => i = Len(s)
      BY DEF InboxInv, ReadsFit
    <3> QED BY <2>1, <2>2, <2>3, <3>1, ReadsAsOne
  <2>5. ~behind => \A i \in 1..Len(reads') : reads'[i].dead
    BY <2>1 DEF InboxInv, Ahead
  <2> QED BY <2>1, <2>2, <2>4, <2>5, OnlyReads
<1> QED BY <1>1, <1>2, <1>3, <1>4, <1>5, <1>6, <1>7, <1>8 DEF Next

LEMMA InboxInvAlways == Spec => []InboxInv
  BY InitInboxInv, StepInboxInv, PTL DEF Spec

-----------------------------------------------------------------------------
(* What the run checks, for any persons, notifications, reads and moves *)

\* Every variable keeps its type: in particular whatever a frame names is its person's.
THEOREM TypeCorrect == Spec => []TypeOK
<1>1. InboxInv => TypeOK
  BY DEF InboxInv, TypesFit
<1> QED BY <1>1, InboxInvAlways, PTL

\* Whatever was in flight when a person left, their rows are never shown to the next one, but for
\* those the toolkit puts back itself (the watch of use-inbox-lifecycle.ts, store.ts:343-350).
THEOREM OnlyTheirOwnAlways == Spec => []OnlyTheirOwn
<1>1. InboxInv => OnlyTheirOwn
  BY DEF InboxInv, Promised
<1> QED BY <1>1, InboxInvAlways, PTL

\* A row that was pushed stays in the panel for as long as the server holds it and nobody dismisses
\* it: no read in flight drops it, however many overlap (store.ts:257-273).
THEOREM NothingHeardIsLostAlways == Spec => []NothingHeardIsLost
<1>1. InboxInv => NothingHeardIsLost
  BY DEF InboxInv, Promised
<1> QED BY <1>1, InboxInvAlways, PTL

\* A row the stream said was deleted is never brought back by a read (applyRead).
THEOREM NothingGoneComesBackAlways == Spec => []NothingGoneComesBack
<1>1. InboxInv => NothingGoneComesBack
  BY DEF InboxInv, Promised
<1> QED BY <1>1, InboxInvAlways, PTL

\* One read of the open connection is enough: applied, and with the frames heard, the panel is the
\* server's inbox, whatever was written, read, cleared or lost meanwhile (onOpen of use-inbox-lifecycle.ts).
THEOREM InStepAlways == Spec => []InStep
<1>1. InboxInv => InStep
  <2> SUFFICES ASSUME InboxInv, ~behind, frames = <<>>, \A r \in Rows : delete[r] = None,
                      NEW r \in Own(person) \ putBack
               PROVE  /\ r \in Shown <=> Holds(r)
                      /\ server[r] = "read" => shown[r] # "unread"
    BY DEF InStep
  <2>1. Len(frames) = 0 /\ 1..0 = {}
    BY EmptySeq
  <2>2. RowInStep(r) /\ r \in Rows /\ ~ReadComing /\ \A kind : ~Coming(kind, r)
    BY <2>1 DEF InboxInv, Ahead, Own, Coming, ReadComing
  <2>3. server[r] \in {"unwritten", "unread", "read", "deleted"} /\ (r \in Shown => Written(r))
    BY <2>2 DEF InboxInv, TypesFit, TypeOK, Remembered
  <2> QED BY <2>2, <2>3 DEF RowInStep, Holds, Written
<1> QED BY <1>1, InboxInvAlways, PTL

-----------------------------------------------------------------------------
(* Navigation: what is under way, and what has been noted *)

\* Nothing is under way that may still land.
Still == \A n \in navs : ~n.current

\* Where a navigation has asked for its language.
Chosen == {"fetch", "words", "fallback", "fallbackWords"}

\* What the guards would not look at has not gone on.
InOrder == "dropped" \notin tangled /\ "late" \notin tangled

\* A navigation under way.  The one that may land was checked before it went on, and the language
\* asked for last is its own; a superseded one does not wait for the fallback; a language is marked
\* as loaded before its words are there.
Fits(n) ==
    /\ n \in Nav
    /\ n.current /\ n.phase # "restore" => canAccess(n.to.page, n.seen)
    /\ n.current /\ n.phase \in Chosen => latest = n.to.locale
    /\ InOrder /\ n.phase \in {"fallback", "fallbackWords"} => n.current
    /\ n.phase \in {"words", "fallback", "fallbackWords"} => n.to.locale \in loaded
    /\ "unworded" \notin tangled /\ n.phase = "words" => n.content # "none"

OneCurrent == \A m, n \in navs : m.current /\ n.current => m = n

\* A navigation that registers the words of a language.
Registers(n, l) == \/ n.phase = "words" /\ n.to.locale = l
                   \/ n.phase = "fallbackWords" /\ l = Fallback

\* What is marked as loaded has its words, or they are to come.
WordsToCome ==
    "unworded" \notin tangled =>
        \A l \in loaded : words[l] # "none" \/ \E n \in navs : Registers(n, l)

\* When nothing may still land a page has, for a visitor who may see it, in its own language.
LandedWell ==
    Still => /\ "dropped" \notin tangled => route # Start
             /\ "dropped" \notin tangled /\ ~excused => canAccess(route.page, viewer)
             /\ InOrder => active = route.locale /\ latest = route.locale

ActiveIsLoaded == route # Start => active \in loaded

OnceThenLanded == reloads <= 1 /\ (~mark => reloads = 0)

ScalarsFit ==
    /\ viewer \in Visitors /\ cookie \in Visitors
    /\ route \in Targets \cup {Start}
    /\ latest \in Locales /\ active \in Locales /\ loaded \subseteq Locales
    /\ words \in [Locales -> Contents] /\ supported \subseteq Locales
    /\ manifests \subseteq Visitors /\ mark \in BOOLEAN
    /\ inputs \in 0 .. MaxInputs /\ reloads \in Nat
    /\ excused \in BOOLEAN /\ tangled \subseteq Mixups

NavsFit == \A n \in navs : Fits(n)

NavInv == /\ ScalarsFit /\ NavsFit /\ OneCurrent /\ WordsToCome
          /\ LandedWell /\ ActiveIsLoaded /\ OnceThenLanded

-----------------------------------------------------------------------------
(* Navigations that begin *)

LEMMA EnteringFits ==
    ASSUME NEW to \in Targets
    PROVE  /\ Entering(to) \in Nav /\ Entering(to).current /\ Entering(to).phase = "restore"
           /\ Entering(to).to = to
  BY DEF Entering, Nav, Phases, Visitors, Contents

LEMMA TargetsAre ==
    ASSUME NEW to \in Targets
    PROVE  /\ to.locale \in Locales /\ to # Start
           /\ \A who \in Visitors : Verdict(to, who) \in Targets
           /\ [to EXCEPT !.page = "error"] \in Targets
           /\ [to EXCEPT !.page = "home"] \in Targets
           /\ \A l \in Locales : [to EXCEPT !.locale = l] \in Targets
<1>1. to.locale \in Locales /\ to.page \in Pages \cup {"error"}
      /\ to = [locale |-> to.locale, page |-> to.page]
  BY DEF Targets, Addresses
<1>2. to # Start
  BY <1>1, PagesKnown DEF Start
<1>5. /\ [to EXCEPT !.page = "error"] \in Targets
      /\ [to EXCEPT !.page = "home"] \in Targets
      /\ [to EXCEPT !.page = "login"] \in Targets
  BY <1>1, PagesKnown DEF Targets, Addresses
<1>6. ASSUME NEW who \in Visitors PROVE Verdict(to, who) \in Targets
  <2>1. \/ Verdict(to, who) = [to EXCEPT !.page = "login"]
        \/ Verdict(to, who) = [to EXCEPT !.page = "home"]
    BY DEF Verdict
  <2> QED BY <1>5, <2>1
<1>7. \A l \in Locales : [to EXCEPT !.locale = l] \in Targets
  BY <1>1 DEF Targets, Addresses
<1> QED BY ONLY <1>1, <1>2, <1>5, <1>6, <1>7

\* What a navigation is once another took its place.
GivesWay(n, m) == m \in Nav /\ ~m.current /\ m.to = n.to /\ m.phase = n.phase /\ m.content = n.content

LEMMA SupersededAre ==
    ASSUME NEW set \in SUBSET Nav
    PROVE  /\ \A m \in Superseded(set) : \E n \in set : GivesWay(n, m)
           /\ \A n \in set : \E m \in Superseded(set) : GivesWay(n, m)
<1>1. ASSUME NEW n \in set PROVE GivesWay(n, [n EXCEPT !.current = FALSE, !.seen = "guest"])
  BY DEF Nav, Visitors, GivesWay
<1>2. Superseded(set) = {[n EXCEPT !.current = FALSE, !.seen = "guest"] : n \in set}
  BY DEF Superseded
<1>3. ASSUME NEW m \in Superseded(set) PROVE \E n \in set : GivesWay(n, m)
  <2> PICK n \in set : m = [n EXCEPT !.current = FALSE, !.seen = "guest"]
    BY <1>2, ZenonT(60)
  <2> QED BY ONLY <1>1, n \in set, m = [n EXCEPT !.current = FALSE, !.seen = "guest"], ZenonT(60)
<1>4. ASSUME NEW n \in set PROVE \E m \in Superseded(set) : GivesWay(n, m)
  <2>1. [n EXCEPT !.current = FALSE, !.seen = "guest"] \in Superseded(set)
    BY <1>2, ZenonT(60)
  <2> QED BY ONLY <1>1, <2>1, n \in set, ZenonT(60)
<1> QED BY <1>3, <1>4

\* A new navigation in the place of these: the page on screen and the language stay as they are.
LEMMA BeginsAgain ==
    ASSUME NavInv, ScalarsFit', NEW to \in Targets, NEW others \in SUBSET navs,
           navs' = Superseded(others) \cup {Entering(to)},
           tangled \cup Late(others) \subseteq tangled',
           UNCHANGED <<route, active, loaded, words, mark, reloads>>,
           \A n \in navs \ others : n.phase \in {"words", "fallbackWords"} => "unworded" \in tangled'
    PROVE  NavInv'
<1>1. navs \subseteq Nav /\ others \subseteq Nav /\ \A n \in others : Fits(n)
  BY DEF NavInv, NavsFit, Fits
<1>2. /\ \A m \in Superseded(others) : \E n \in others : GivesWay(n, m)
      /\ \A n \in others : \E m \in Superseded(others) : GivesWay(n, m)
  BY <1>1, SupersededAre
<1>3. /\ Entering(to) \in Nav /\ Entering(to).current /\ Entering(to).phase = "restore"
  BY EnteringFits
<1>4. InOrder' => InOrder /\ \A n \in others : ~(n.current /\ n.phase \in {"fallback", "fallbackWords"})
  BY DEF InOrder, Late
<1>5. NavsFit'
  <2> SUFFICES ASSUME NEW m \in navs' PROVE Fits(m)'
    BY DEF NavsFit
  <2>1. CASE m = Entering(to)
    BY <1>3, <2>1 DEF Fits, Chosen
  <2>2. CASE m \in Superseded(others)
    <3> PICK n \in others : GivesWay(n, m)
      BY <1>2, <2>2
    <3>1. Fits(n)
      BY <1>1
    <3>2. m \in Nav /\ ~m.current /\ m.to = n.to /\ m.phase = n.phase /\ m.content = n.content
      BY DEF GivesWay
    <3>3. InOrder' => ~(m.phase \in {"fallback", "fallbackWords"})
      BY <1>4, <3>1, <3>2 DEF Fits
    <3>4. m.phase \in {"words", "fallback", "fallbackWords"} => m.to.locale \in loaded'
      BY <3>1, <3>2 DEF Fits
    <3>5. "unworded" \notin tangled' /\ m.phase = "words" => m.content # "none"
      BY <3>1, <3>2 DEF Fits
    <3> QED BY <3>2, <3>3, <3>4, <3>5 DEF Fits
  <2> QED BY <2>1, <2>2
<1>6. \A m \in navs' : m.current => m = Entering(to)
  BY <1>2 DEF GivesWay
<1>7. OneCurrent'
  BY <1>6 DEF OneCurrent
<1>8. WordsToCome'
  <2> SUFFICES ASSUME "unworded" \notin tangled', NEW l \in loaded, words[l] = "none"
               PROVE  \E m \in navs' : Registers(m, l)
    BY DEF WordsToCome, Registers
  <2> PICK n \in navs : Registers(n, l)
    BY DEF NavInv, WordsToCome
  <2>1. n \in others
    BY DEF Registers
  <2> PICK m \in Superseded(others) : GivesWay(n, m)
    BY <1>2, <2>1
  <2>2. Registers(m, l)
    BY DEF Registers, GivesWay
  <2> QED BY <2>2
<1>9. ~Still'
  BY <1>3 DEF Still
<1>10. LandedWell' /\ ActiveIsLoaded' /\ OnceThenLanded'
  BY <1>9 DEF LandedWell, ActiveIsLoaded, OnceThenLanded, NavInv
<1> QED BY <1>5, <1>7, <1>8, <1>10 DEF NavInv

-----------------------------------------------------------------------------
(* Navigations that go on, and that end *)

\* What a navigation was, it stays while others add to what is loaded and to what went wrong; only
\* the one that may land asks for a language.
LEMMA StillFits ==
    ASSUME NEW n, Fits(n), loaded \subseteq loaded', tangled \subseteq tangled',
           latest' = latest \/ ~n.current
    PROVE  Fits(n)'
<1>1. InOrder' => InOrder
  BY DEF InOrder
<1> QED BY <1>1 DEF Fits

\* A navigation goes on: it is what it was but for its phase, what it saw and what it brings.
LEMMA GoesOn ==
    ASSUME NavInv, ScalarsFit', NEW n \in navs, NEW m, navs' = (navs \ {n}) \cup {m}, Fits(m)',
           m.current <=> n.current,
           loaded \subseteq loaded', tangled \subseteq tangled',
           UNCHANGED <<route, active, excused, mark, reloads>>,
           ~n.current => latest' = latest /\ (excused \/ viewer' = viewer),
           "unworded" \notin tangled' =>
               \A l \in loaded' : words'[l] # "none" \/ \E k \in navs' : Registers(k, l)
    PROVE  NavInv'
<1>1. /\ \A k \in navs : Fits(k)
      /\ \A k \in navs : k.current /\ n.current => k = n
  BY DEF NavInv, NavsFit, OneCurrent
<1>2. NavsFit'
  <2> SUFFICES ASSUME NEW k \in navs' PROVE Fits(k)'
    BY DEF NavsFit
  <2>1. CASE k = m
    BY <2>1
  <2>2. CASE k # m
    <3>1. k \in navs /\ k # n /\ Fits(k)
      BY <1>1, <2>2
    <3>2. latest' = latest \/ ~k.current
      BY <1>1, <3>1
    <3> QED BY <3>1, <3>2, StillFits
  <2> QED BY <2>1, <2>2
<1>3. OneCurrent'
  <2> SUFFICES ASSUME NEW j \in navs', NEW k \in navs', j.current, k.current PROVE j = k
    BY DEF OneCurrent
  <2>1. CASE n.current
    BY <1>1, <2>1
  <2>2. CASE ~n.current
    BY <2>2 DEF NavInv, OneCurrent
  <2> QED BY <2>1, <2>2
<1>4. WordsToCome'
  <2> SUFFICES ASSUME "unworded" \notin tangled', NEW l \in loaded'
               PROVE  words'[l] # "none" \/ \E k \in navs' : Registers(k, l)
    BY DEF WordsToCome, Registers
  <2> QED OBVIOUS
<1>5. LandedWell'
  <2>1. CASE n.current
    <3>1. ~Still'
      BY <2>1 DEF Still
    <3> QED BY <3>1 DEF LandedWell
  <2>2. CASE ~n.current
    <3>1. Still' => Still
      BY <2>2 DEF Still
    <3>2. InOrder' => InOrder
      BY DEF InOrder
    <3>3. latest' = latest /\ (excused \/ viewer' = viewer)
      BY <2>2
    <3> QED BY <3>1, <3>2, <3>3 DEF LandedWell, NavInv
  <2> QED BY <2>1, <2>2
<1>6. ActiveIsLoaded' /\ OnceThenLanded'
  BY DEF NavInv, ActiveIsLoaded, OnceThenLanded
<1> QED BY <1>2, <1>3, <1>4, <1>5, <1>6 DEF NavInv

\* A superseded navigation is over.
LEMMA Ends ==
    ASSUME NavInv, ScalarsFit', NEW n \in navs, ~n.current, navs' = navs \ {n},
           UNCHANGED <<route, latest, loaded, mark, reloads>>, tangled \subseteq tangled',
           route # Start => active' \in loaded,
           InOrder' /\ InOrder => active' \in {active, latest},
           excused' \/ (~excused /\ viewer' = viewer),
           "unworded" \notin tangled' =>
               \A l \in loaded : words'[l] # "none" \/ \E k \in navs' : Registers(k, l)
    PROVE  NavInv'
<1>1. NavsFit'
  <2> SUFFICES ASSUME NEW k \in navs' PROVE Fits(k)'
    BY DEF NavsFit
  <2>1. Fits(k)
    BY DEF NavInv, NavsFit
  <2> QED BY <2>1, StillFits
<1>2. OneCurrent'
  BY DEF NavInv, OneCurrent
<1>3. WordsToCome'
  <2> SUFFICES ASSUME "unworded" \notin tangled', NEW l \in loaded
               PROVE  words'[l] # "none" \/ \E k \in navs' : Registers(k, l)
    BY DEF WordsToCome, Registers
  <2> QED OBVIOUS
<1>4. LandedWell'
  <2>1. Still' => Still
    BY DEF Still
  <2>2. InOrder' => InOrder
    BY DEF InOrder
  <2> QED BY <2>1, <2>2 DEF LandedWell, NavInv
<1>5. ActiveIsLoaded' /\ OnceThenLanded'
  BY DEF NavInv, ActiveIsLoaded, OnceThenLanded
<1> QED BY <1>1, <1>2, <1>3, <1>4, <1>5 DEF NavInv

\* The navigation that may land does: its page is on screen, in its language.
LEMMA Lands ==
    ASSUME NavInv, ScalarsFit', NEW n \in navs, n.current, n.phase # "restore", Finish(n),
           loaded' = loaded, tangled \subseteq tangled', viewer' = viewer,
           active' = n.to.locale, latest' = n.to.locale, n.to.locale \in loaded,
           "unworded" \notin tangled' =>
               \A l \in loaded : words'[l] # "none" \/ \E k \in navs' : Registers(k, l)
    PROVE  NavInv'
<1>1. /\ navs' = navs \ {n} /\ route' = n.to /\ excused' = (n.seen # viewer)
      /\ mark' = (mark /\ ~Rearms(n.to.page))
      /\ reloads' = IF n.to.page = "error" THEN reloads ELSE 0
  BY DEF Finish
<1>2. /\ Fits(n) /\ n \in Nav /\ n.to \in Targets /\ n.to # Start
      /\ \A k \in navs' : k \in navs /\ ~k.current /\ Fits(k)
  <2>1. Fits(n) /\ \A k \in navs : Fits(k)
    BY DEF NavInv, NavsFit
  <2>2. n \in Nav /\ n.to \in Targets
    BY <2>1 DEF Fits, Nav
  <2>3. n.to # Start
    BY <2>2, TargetsAre
  <2>4. \A k \in navs' : ~k.current
    BY <1>1 DEF NavInv, OneCurrent
  <2> QED BY <1>1, <2>1, <2>2, <2>3, <2>4
<1>3. NavsFit'
  BY <1>2, StillFits DEF NavsFit
<1>4. OneCurrent'
  BY <1>2 DEF OneCurrent
<1>5. WordsToCome'
  <2> SUFFICES ASSUME "unworded" \notin tangled', NEW l \in loaded
               PROVE  words'[l] # "none" \/ \E k \in navs' : Registers(k, l)
    BY DEF WordsToCome, Registers
  <2> QED OBVIOUS
<1>6. LandedWell'
  <2>1. canAccess(n.to.page, n.seen)
    BY <1>2 DEF Fits
  <2>2. ~excused' => canAccess(route'.page, viewer')
    BY <1>1, <2>1
  <2> QED BY <1>1, <1>2, <2>2 DEF LandedWell, canAccess
<1>7. ActiveIsLoaded'
  BY DEF ActiveIsLoaded
<1>8. OnceThenLanded'
  BY <1>1 DEF NavInv, OnceThenLanded, ScalarsFit, Rearms
<1> QED BY <1>3, <1>4, <1>5, <1>6, <1>7, <1>8 DEF NavInv

\* What is under way is not touched.
LEMMA Aside ==
    ASSUME NavInv, ScalarsFit',
           UNCHANGED <<route, navs, language, mark, reloads, tangled>>,
           \/ excused'
           \/ excused' = excused /\ viewer' = viewer
           \/ excused' = excused /\ canAccess(route.page, viewer')
    PROVE  NavInv'
<1>1. UNCHANGED <<latest, active, loaded, words>>
  BY DEF language
<1>2. NavsFit'
  <2> SUFFICES ASSUME NEW k \in navs' PROVE Fits(k)'
    BY DEF NavsFit
  <2>1. Fits(k)
    BY DEF NavInv, NavsFit
  <2>2. loaded \subseteq loaded' /\ tangled \subseteq tangled' /\ latest' = latest
    BY <1>1
  <2> QED BY <2>1, <2>2, StillFits
<1>3. OneCurrent' /\ WordsToCome' /\ ActiveIsLoaded' /\ OnceThenLanded'
  BY <1>1 DEF NavInv, OneCurrent, WordsToCome, ActiveIsLoaded, OnceThenLanded
<1>4. (Still' <=> Still) /\ (InOrder' <=> InOrder)
  BY DEF Still, InOrder
<1>5. LandedWell'
  BY <1>1, <1>4 DEF NavInv, LandedWell
<1> QED BY <1>2, <1>3, <1>5 DEF NavInv

\* Another load of the page begins with nothing; the mark says so.
LEMMA LoadsAgain ==
    ASSUME NavInv, NEW to \in Targets, ~mark, Reload(to), inputs' \in 0 .. MaxInputs
    PROVE  NavInv'
<1>1. /\ mark' = TRUE /\ reloads' = reloads + 1 /\ viewer' = "guest" /\ cookie' = cookie
      /\ route' = Start /\ navs' = {Entering(to)} /\ latest' = Fallback /\ active' = Fallback
      /\ loaded' = {} /\ words' = [l \in Locales |-> "none"]
      /\ supported' \in Offered(cookie) /\ manifests' = {} /\ excused' = FALSE /\ tangled' = {}
  BY DEF Reload, MarkKept
<1>2. Entering(to) \in Nav /\ Entering(to).current /\ Entering(to).phase = "restore"
  BY EnteringFits
<1>3. ASSUME ScalarsFit' PROVE NavInv'
  <2>1. NavsFit'
    BY <1>1, <1>2 DEF NavsFit, Fits, Chosen
  <2>2. OneCurrent'
    BY <1>1 DEF OneCurrent
  <2>3. WordsToCome'
    BY <1>1 DEF WordsToCome
  <2>4. ~Still'
    BY <1>1, <1>2 DEF Still
  <2>5. reloads' <= 1
    BY <1>1 DEF NavInv, OnceThenLanded
  <2>6. LandedWell' /\ ActiveIsLoaded' /\ OnceThenLanded'
    BY <1>1, <2>4, <2>5 DEF LandedWell, ActiveIsLoaded, OnceThenLanded
  <2> QED BY <1>3, <2>1, <2>2, <2>3, <2>6 DEF NavInv
<1>4. supported' \subseteq Locales /\ Fallback \in Locales
  BY <1>1, LanguagesAsDeployed DEF Offered
<1>5. words' \in [Locales -> Contents]
  BY <1>1 DEF Contents
<1>6. cookie \in Visitors /\ reloads + 1 \in Nat
  BY DEF NavInv, ScalarsFit
<1>7. ScalarsFit'
  BY <1>1, <1>4, <1>5, <1>6 DEF ScalarsFit, Visitors
<1> QED BY <1>3, <1>7

-----------------------------------------------------------------------------
(* What the actions have in common *)

LEMMA InputFits ==
    ASSUME ScalarsFit, Input
    PROVE  inputs' \in 0 .. MaxInputs
  BY MaxInputsNat DEF ScalarsFit, Input

LEMMA ManifestsFit ==
    ASSUME ScalarsFit, FollowSession, viewer' \in Visitors
    PROVE  manifests' \subseteq Visitors
  BY DEF ScalarsFit, FollowSession

LEMMA LateFits ==
    ASSUME NEW set
    PROVE  Late(set) \subseteq Mixups
  BY DEF Late, Mixups

\* Some navigation other than this one brings a language's words, if this one does not.
LEMMA OthersRegister ==
    ASSUME NavInv, NEW n \in navs, NEW l \in loaded, "unworded" \notin tangled,
           words[l] = "none", ~Registers(n, l)
    PROVE  \E k \in navs \ {n} : Registers(k, l)
  BY DEF NavInv, WordsToCome

\* A navigation that brings no words goes on, or ends, without any.
LEMMA WordsStayToCome ==
    ASSUME NavInv, NEW n \in navs, n.phase \notin {"words", "fallbackWords"}, NEW l \in loaded,
           navs \ {n} \subseteq navs', tangled \subseteq tangled', words' = words,
           "unworded" \notin tangled'
    PROVE  words'[l] # "none" \/ \E k \in navs' : Registers(k, l)
<1>1. ~Registers(n, l)
  BY DEF Registers
<1>2. CASE words[l] = "none"
  <2>1. "unworded" \notin tangled
    OBVIOUS
  <2>2. \E k \in navs \ {n} : Registers(k, l)
    BY ONLY NavInv, n \in navs, l \in loaded, <1>1, <1>2, <2>1, OthersRegister
  <2> QED BY <2>2
<1> QED BY <1>2

\* A navigation that is there fits, and its target is one.
LEMMA OneOfThem ==
    ASSUME NavInv, NEW n \in navs
    PROVE  /\ Fits(n) /\ n \in Nav /\ n.to \in Targets /\ n.current \in BOOLEAN
           /\ n.phase \in Phases /\ n.seen \in Visitors /\ n.content \in Contents
           /\ navs \subseteq Nav /\ n.to.locale \in Locales
<1>1. Fits(n) /\ \A k \in navs : k \in Nav
  BY DEF NavInv, NavsFit, Fits
<1>2. n.to \in Targets
  BY <1>1 DEF Nav
<1> QED BY <1>1, <1>2, TargetsAre DEF Nav

-----------------------------------------------------------------------------
(* The steps: navigations asked for, and the guards before the page *)

LEMMA GoKeeps ==
    ASSUME NavInv, NEW to \in Addresses, Go(to)
    PROVE  NavInv'
<1>1. /\ Input /\ StartOver(to, navs) /\ to \in Targets
      /\ UNCHANGED <<viewer, cookie, route, latest, active, loaded, words>>
      /\ UNCHANGED <<supported, manifests, mark, reloads, excused>>
  BY DEF Go, Targets, session, language, offers, stale
<1>2. ScalarsFit /\ inputs' \in 0 .. MaxInputs /\ Late(navs) \subseteq Mixups
  BY <1>1, InputFits, LateFits DEF NavInv
<1>3. navs' = Superseded(navs) \cup {Entering(to)} /\ tangled' = tangled \cup Late(navs)
  BY <1>1 DEF StartOver
<1>4. ScalarsFit'
  BY <1>1, <1>2, <1>3 DEF ScalarsFit
<1> QED BY <1>1, <1>3, <1>4, BeginsAgain

LEMMA GoNowhereKeeps ==
    ASSUME NavInv, GoNowhere
    PROVE  NavInv'
<1>1. /\ Input /\ navs' = Superseded(navs) /\ tangled' = tangled \cup {"dropped"}
      /\ UNCHANGED <<viewer, cookie, route, latest, active, loaded, words>>
      /\ UNCHANGED <<supported, manifests, mark, reloads, excused>>
  BY DEF GoNowhere, session, language, offers, stale
<1>2. ScalarsFit /\ inputs' \in 0 .. MaxInputs
  BY <1>1, InputFits DEF NavInv
<1>3. ScalarsFit'
  BY <1>1, <1>2 DEF ScalarsFit, Mixups
<1>4. navs \subseteq Nav /\ \A n \in navs : Fits(n)
  BY DEF NavInv, NavsFit, Fits
<1>5. /\ \A m \in navs' : \E n \in navs : GivesWay(n, m)
      /\ \A n \in navs : \E m \in navs' : GivesWay(n, m)
  BY <1>1, <1>4, SupersededAre
<1>6. NavsFit'
  <2> SUFFICES ASSUME NEW m \in navs' PROVE Fits(m)'
    BY DEF NavsFit
  <2> PICK n \in navs : GivesWay(n, m)
    BY <1>5
  <2>1. Fits(n) /\ ~InOrder'
    BY <1>1, <1>4 DEF InOrder
  <2>2. m \in Nav /\ ~m.current /\ m.to = n.to /\ m.phase = n.phase /\ m.content = n.content
    BY DEF GivesWay
  <2> QED BY <1>1, <2>1, <2>2 DEF Fits
<1>7. OneCurrent'
  BY <1>5 DEF OneCurrent, GivesWay
<1>8. WordsToCome'
  <2> SUFFICES ASSUME "unworded" \notin tangled', NEW l \in loaded, words[l] = "none"
               PROVE  \E m \in navs' : Registers(m, l)
    BY <1>1 DEF WordsToCome, Registers
  <2> PICK n \in navs : Registers(n, l)
    BY <1>1 DEF NavInv, WordsToCome
  <2> PICK m \in navs' : GivesWay(n, m)
    BY <1>5
  <2>2. Registers(m, l)
    BY DEF Registers, GivesWay
  <2> QED BY <2>2
<1>9. LandedWell'
  BY <1>1 DEF LandedWell, InOrder
<1>10. ActiveIsLoaded' /\ OnceThenLanded'
  BY <1>1 DEF NavInv, ActiveIsLoaded, OnceThenLanded
<1> QED BY <1>3, <1>6, <1>7, <1>8, <1>9, <1>10 DEF NavInv

\* The access check on the navigation that may land lets it go on, for whoever it found.
LEMMA CheckedFits ==
    ASSUME NavInv, NEW n \in navs, n.current, viewer' \in Visitors, canAccess(n.to.page, viewer'),
           NEW m, m = [n EXCEPT !.phase = "code", !.seen = viewer']
    PROVE  Fits(m)' /\ m.current
<1>1. n \in Nav /\ m \in Nav /\ m.current /\ m.phase = "code" /\ m.seen = viewer' /\ m.to = n.to
  BY OneOfThem DEF Nav, Phases
<1> QED BY <1>1 DEF Fits, Chosen

LEMMA GuardsPassKeeps ==
    ASSUME NavInv, NEW n \in navs, GuardsPass(n)
    PROVE  NavInv'
<1>1. /\ n.phase = "restore" /\ FollowSession /\ viewer' \in Visitors /\ cookie' = cookie
      /\ excused' = (excused \/ (~n.current /\ viewer' # viewer))
      /\ UNCHANGED <<route, latest, active, loaded, words, supported, mark, reloads, inputs>>
  BY DEF GuardsPass, Restored, language, stale, NavInv, ScalarsFit, Visitors
<1>2. /\ Fits(n) /\ n \in Nav /\ n.to \in Targets /\ n.current \in BOOLEAN
      /\ ScalarsFit /\ manifests' \subseteq Visitors /\ excused' \in BOOLEAN
  BY <1>1, OneOfThem, ManifestsFit DEF NavInv, ScalarsFit
<1>3. ASSUME StartOver(Verdict(n.to, viewer'), navs \ {n}) PROVE NavInv'
  <2>1. PICK to \in Targets : to = Verdict(n.to, viewer')
    BY <1>1, <1>2, TargetsAre
  <2>2. /\ navs' = Superseded(navs \ {n}) \cup {Entering(to)}
        /\ tangled' = tangled \cup Late(navs \ {n})
    BY <1>3, <2>1 DEF StartOver
  <2>3. ScalarsFit'
    BY <1>1, <1>2, <2>2, LateFits DEF ScalarsFit
  <2>4. \A k \in navs \ (navs \ {n}) : k.phase \notin {"words", "fallbackWords"}
    BY <1>1
  <2> QED BY <1>1, <2>2, <2>3, <2>4, BeginsAgain
<1>4. CASE n.current /\ canAccess(n.to.page, viewer') /\ ~StartOver(Verdict(n.to, viewer'), navs \ {n})
  <2>1. PICK m : m = [n EXCEPT !.phase = "code", !.seen = viewer']
    OBVIOUS
  <2>2. navs' = (navs \ {n}) \cup {m} /\ tangled' = tangled
    BY <1>4, <2>1 DEF GuardsPass, Checked
  <2>3. n.current /\ canAccess(n.to.page, viewer') /\ viewer' \in Visitors
    BY <1>1, <1>4
  <2>7. Fits(m)' /\ m.current
    BY ONLY NavInv, n \in navs, <2>1, <2>3, CheckedFits, ZenonT(60)
  <2>4. ScalarsFit'
    BY <1>1, <1>2, <2>2 DEF ScalarsFit
  <2>5. excused' = excused
    BY <1>1, <1>2, <1>4 DEF ScalarsFit
  <2>6. ASSUME "unworded" \notin tangled', NEW l \in loaded'
        PROVE  words'[l] # "none" \/ \E k \in navs' : Registers(k, l)
    BY <1>1, <2>2, <2>6, WordsStayToCome
  <2> QED BY <1>1, <1>4, <2>2, <2>4, <2>5, <2>6, <2>7, GoesOn
<1>5. CASE ~n.current /\ navs' = navs \ {n} /\ UNCHANGED tangled
  <2>1. ScalarsFit'
    BY <1>1, <1>2, <1>5 DEF ScalarsFit
  <2>2. route # Start => active' \in loaded
    BY <1>1 DEF NavInv, ActiveIsLoaded
  <2>3. excused' \/ (~excused /\ viewer' = viewer)
    BY <1>1, <1>2, <1>5 DEF ScalarsFit
  <2>4. ASSUME "unworded" \notin tangled', NEW l \in loaded
        PROVE  words'[l] # "none" \/ \E k \in navs' : Registers(k, l)
    BY <1>1, <1>5, <2>4, WordsStayToCome
  <2> QED BY <1>1, <1>5, <2>1, <2>2, <2>3, <2>4, Ends
<1> QED BY <1>3, <1>4, <1>5 DEF GuardsPass, Checked

LEMMA RestoreRefusedKeeps ==
    ASSUME NavInv, NEW n \in navs, RestoreRefused(n)
    PROVE  NavInv'
<1>1. /\ n.phase = "restore" /\ cookie' = "guest" /\ viewer' = viewer
      /\ UNCHANGED <<route, latest, active, loaded, words, supported, manifests>>
      /\ UNCHANGED <<mark, reloads, inputs, excused>>
  BY DEF RestoreRefused, language, offers, stale
<1>2. ScalarsFit /\ "guest" \in Visitors
  BY DEF NavInv, Visitors
<1>3. CASE route = Start
  <2>1. UNCHANGED <<navs, tangled>>
    BY <1>3 DEF RestoreRefused
  <2>2. ScalarsFit'
    BY <1>1, <1>2, <2>1 DEF ScalarsFit
  <2> QED BY <1>1, <2>1, <2>2, Aside DEF language
<1>4. CASE route # Start
  <2>1. PICK to \in Targets : to = route
    BY <1>2, <1>4 DEF ScalarsFit
  <2>2. navs' = Superseded(navs) \cup {Entering(to)} /\ tangled' = tangled \cup Late(navs)
    BY <1>4, <2>1 DEF RestoreRefused, StartOver
  <2>3. ScalarsFit'
    BY <1>1, <1>2, <2>2, LateFits DEF ScalarsFit
  <2> QED BY <1>1, <2>2, <2>3, BeginsAgain
<1> QED BY <1>3, <1>4

-----------------------------------------------------------------------------
(* The steps: failures *)

\* The page is loaded again once, and the error page entered after that.
LEMMA onErrorKeeps ==
    ASSUME NavInv, NEW n \in navs, Input, onError(n)
    PROVE  NavInv'
<1>1. /\ n.to \in Targets /\ ScalarsFit /\ inputs' \in 0 .. MaxInputs
  BY OneOfThem, InputFits DEF NavInv
<1>2. CASE ~mark
  <2>1. Reload(n.to)
    BY <1>2 DEF onError
  <2> QED BY ONLY NavInv, <1>1, <1>2, <2>1, LoadsAgain
<1>3. CASE mark
  <2>1. PICK to \in Targets : to = [n.to EXCEPT !.page = "error"]
    BY <1>1, TargetsAre
  <2>2. /\ navs' = Superseded(navs \ {n}) \cup {Entering(to)}
        /\ tangled' = tangled \cup Late(navs \ {n}) \cup Unworded(n)
        /\ UNCHANGED <<viewer, cookie, route, latest, active, loaded, words>>
        /\ UNCHANGED <<supported, manifests, mark, reloads, excused>>
    BY <1>3, <2>1 DEF onError, session, language, offers, stale
  <2>3. Unworded(n) \subseteq Mixups /\ (n.phase \in {"words", "fallbackWords"} => "unworded" \in Unworded(n))
    BY DEF Unworded, Mixups
  <2>4. ScalarsFit'
    BY <1>1, <2>2, <2>3, LateFits DEF ScalarsFit
  <2>5. \A k \in navs \ (navs \ {n}) : k.phase \in {"words", "fallbackWords"} => "unworded" \in tangled'
    BY <2>2, <2>3
  <2> QED BY <2>2, <2>4, <2>5, BeginsAgain
<1> QED BY <1>2, <1>3

LEMMA FailuresKeep ==
    ASSUME NavInv, NEW n \in navs, CodeFails(n) \/ WordsFailed(n)
    PROVE  NavInv'
<1>1. Input /\ onError(n)
  BY DEF CodeFails, WordsFailed
<1> QED BY ONLY NavInv, n \in navs, <1>1, onErrorKeeps

-----------------------------------------------------------------------------
(* The steps: the page's code, and the language chosen *)

\* What goes on in another phase is what it was.
LEMMA AnotherPhase ==
    ASSUME NEW n \in Nav, NEW phase \in Phases, NEW m, m = [n EXCEPT !.phase = phase]
    PROVE  /\ m \in Nav /\ m.phase = phase /\ m.to = n.to /\ m.current = n.current
           /\ m.seen = n.seen /\ m.content = n.content
<1>1. /\ n = [to |-> n.to, phase |-> n.phase, current |-> n.current, seen |-> n.seen,
              content |-> n.content]
      /\ n.to \in Targets /\ n.current \in BOOLEAN /\ n.seen \in Visitors /\ n.content \in Contents
  BY DEF Nav
<1>2. m = [to |-> n.to, phase |-> phase, current |-> n.current, seen |-> n.seen,
           content |-> n.content]
  BY <1>1
<1> QED BY <1>1, <1>2 DEF Nav

\* The language is loaded and the latest: the page lands in it, or waits for the fallback.
LEMMA ChosenLands ==
    ASSUME NavInv, ScalarsFit', NEW n \in navs, n.current, n.phase = "code", Finish(n),
           UNCHANGED <<viewer, loaded, words, tangled>>,
           active' = n.to.locale, latest' = n.to.locale, n.to.locale \in loaded
    PROVE  NavInv'
<1>1. navs' = navs \ {n}
  BY DEF Finish
<1>2. ASSUME "unworded" \notin tangled', NEW l \in loaded
      PROVE  words'[l] # "none" \/ \E k \in navs' : Registers(k, l)
  BY <1>1, <1>2, WordsStayToCome
<1> QED BY <1>2, Lands

LEMMA ChosenWaits ==
    ASSUME NavInv, ScalarsFit', NEW n \in navs, n.current, n.phase = "code", n.to.page # "logout",
           NEW phase \in {"fetch", "fallback"}, Waits(n, phase),
           UNCHANGED <<viewer, active, loaded, words, tangled>>,
           latest' = n.to.locale, phase = "fallback" => n.to.locale \in loaded
    PROVE  NavInv'
<1>1. PICK m : m = [n EXCEPT !.phase = phase]
  OBVIOUS
<1>2. /\ navs' = (navs \ {n}) \cup {m} /\ UNCHANGED <<route, excused, mark, reloads>>
  BY <1>1 DEF Waits
<1>3. Fits(n) /\ n \in Nav /\ phase \in Phases
  BY OneOfThem DEF Phases
<1>4. /\ m \in Nav /\ m.phase = phase /\ m.to = n.to /\ m.current = n.current /\ m.seen = n.seen
  BY ONLY <1>1, <1>3, AnotherPhase, ZenonT(60)
<1>5. Fits(m)'
  BY <1>3, <1>4 DEF Fits
<1>6. ASSUME "unworded" \notin tangled', NEW l \in loaded'
      PROVE  words'[l] # "none" \/ \E k \in navs' : Registers(k, l)
  BY <1>2, <1>6, WordsStayToCome
<1> QED BY <1>2, <1>4, <1>5, <1>6, GoesOn

LEMMA localeChoiceKeeps ==
    ASSUME NavInv, NEW n \in navs, n.current, n.phase = "code", n.to.page # "logout",
           localeChoice(n), UNCHANGED <<session, offers, inputs>>
    PROVE  NavInv'
<1>1. /\ latest' = n.to.locale
      /\ UNCHANGED <<loaded, words, viewer, cookie, supported, manifests, inputs>>
  BY DEF localeChoice, session, offers
<1>2. /\ Fits(n) /\ n \in Nav /\ n.to \in Targets /\ n.to.locale \in Locales /\ n.seen \in Visitors
      /\ ScalarsFit
  BY OneOfThem DEF NavInv
<1>3. ASSUME active' \in Locales, route' \in Targets \cup {Start}, mark' \in BOOLEAN,
             reloads' \in Nat, excused' \in BOOLEAN, tangled' \subseteq Mixups
      PROVE  ScalarsFit'
  BY <1>1, <1>2, <1>3 DEF ScalarsFit
<1>4. ASSUME Finish(n), active' = n.to.locale, n.to.locale \in loaded, UNCHANGED tangled
      PROVE  NavInv'
  <2>1. /\ route' = n.to /\ excused' = (n.seen # viewer) /\ mark' = (mark /\ ~Rearms(n.to.page))
        /\ reloads' = IF n.to.page = "error" THEN reloads ELSE 0
    BY <1>4 DEF Finish
  <2>2. mark' \in BOOLEAN /\ excused' \in BOOLEAN
    BY <2>1
  <2>3. ScalarsFit'
    BY <1>2, <1>3, <1>4, <2>1, <2>2 DEF ScalarsFit
  <2> QED BY <1>1, <1>4, <2>3, ChosenLands
<1>5. ASSUME NEW phase \in {"fetch", "fallback"}, Waits(n, phase), UNCHANGED <<active, tangled>>,
             phase = "fallback" => n.to.locale \in loaded
      PROVE  NavInv'
  <2>1. UNCHANGED <<route, excused, mark, reloads>>
    BY <1>5 DEF Waits
  <2>2. ScalarsFit'
    BY <1>2, <1>3, <1>5, <2>1 DEF ScalarsFit
  <2> QED BY <1>1, <1>5, <2>2, ChosenWaits
<1>6. CASE n.to.locale \in loaded
  <2>1. CASE active = n.to.locale
    <3>1. Finish(n) /\ UNCHANGED <<active, tangled>>
      BY <1>6, <2>1 DEF localeChoice
    <3> QED BY <1>4, <1>6, <2>1, <3>1
  <2>2. CASE active # n.to.locale
    <3>1. activateIfLatest(n)
      BY <1>6, <2>2 DEF localeChoice
    <3>2. Activate(n)
      BY <1>1, <3>1 DEF activateIfLatest, IsLatest
    <3>3. \/ Waits(n, "fallback") /\ UNCHANGED <<active, tangled>>
          \/ active' = n.to.locale /\ Finish(n) /\ UNCHANGED tangled
      BY <3>2 DEF Activate
    <3> QED BY <1>4, <1>5, <1>6, <3>3
  <2> QED BY <2>1, <2>2
<1>7. CASE n.to.locale \notin loaded /\ n.to.locale \in supported
  <2>1. Waits(n, "fetch") /\ UNCHANGED <<active, tangled>>
    BY <1>7 DEF localeChoice
  <2> QED BY <1>5, <2>1
<1>8. CASE n.to.locale \notin loaded /\ n.to.locale \notin supported
  <2>1. /\ \E l \in supported : StartOver([n.to EXCEPT !.locale = l], navs \ {n})
        /\ UNCHANGED <<active, route, excused, mark, reloads>>
    BY <1>8 DEF localeChoice
  <2>2. PICK l \in supported : StartOver([n.to EXCEPT !.locale = l], navs \ {n})
    BY <2>1
  <2>3. PICK to \in Targets : to = [n.to EXCEPT !.locale = l]
    BY <1>2, TargetsAre DEF ScalarsFit
  <2>4. /\ navs' = Superseded(navs \ {n}) \cup {Entering(to)}
        /\ tangled' = tangled \cup Late(navs \ {n})
    BY <2>2, <2>3 DEF StartOver
  <2>5. ScalarsFit'
    BY <1>2, <1>3, <2>1, <2>4, LateFits DEF ScalarsFit
  <2>6. \A k \in navs \ (navs \ {n}) : k.phase \notin {"words", "fallbackWords"}
    OBVIOUS
  <2> QED BY <1>1, <2>1, <2>4, <2>5, <2>6, BeginsAgain
<1> QED BY <1>6, <1>7, <1>8

LEMMA CodeLoadedKeeps ==
    ASSUME NavInv, NEW n \in navs, CodeLoaded(n)
    PROVE  NavInv'
<1>1. /\ n.phase = "code" /\ UNCHANGED <<session, offers, inputs>>
      /\ UNCHANGED <<viewer, cookie, supported, manifests, inputs>>
  BY DEF CodeLoaded, session, offers
<1>2. Fits(n) /\ n \in Nav /\ ScalarsFit
  BY OneOfThem DEF NavInv
<1>3. CASE ~n.current
  <2>1. /\ navs' = navs \ {n} /\ UNCHANGED <<latest, active, loaded, words>>
        /\ UNCHANGED <<route, excused, mark, reloads, tangled>>
    BY <1>3 DEF CodeLoaded, language
  <2>2. ScalarsFit'
    BY <1>1, <1>2, <2>1 DEF ScalarsFit
  <2>3. route # Start => active' \in loaded
    BY <2>1 DEF NavInv, ActiveIsLoaded
  <2>4. excused' \/ (~excused /\ viewer' = viewer)
    BY <1>1, <2>1
  <2>5. ASSUME "unworded" \notin tangled', NEW l \in loaded
        PROVE  words'[l] # "none" \/ \E k \in navs' : Registers(k, l)
    BY <1>1, <2>1, <2>5, WordsStayToCome
  <2> QED BY <1>1, <1>3, <2>1, <2>2, <2>3, <2>4, <2>5, Ends
<1>4. CASE n.current /\ n.to.page = "logout"
  <2>1. Waits(n, "leaving") /\ UNCHANGED <<latest, active, loaded, words, tangled>>
    BY <1>4 DEF CodeLoaded, language
  <2>2. PICK m : m = [n EXCEPT !.phase = "leaving"]
    OBVIOUS
  <2>3. navs' = (navs \ {n}) \cup {m} /\ UNCHANGED <<route, excused, mark, reloads>>
    BY <2>1, <2>2 DEF Waits
  <2>4. "leaving" \in Phases
    BY DEF Phases
  <2>5. /\ m \in Nav /\ m.phase = "leaving" /\ m.to = n.to /\ m.current = n.current
        /\ m.seen = n.seen
    BY <1>2, <2>2, <2>4, AnotherPhase
  <2>6. Fits(m)'
    BY <1>1, <1>2, <2>1, <2>5 DEF Fits, Chosen
  <2>7. ScalarsFit'
    BY <1>1, <1>2, <2>1, <2>3 DEF ScalarsFit
  <2>8. ASSUME "unworded" \notin tangled', NEW l \in loaded'
        PROVE  words'[l] # "none" \/ \E k \in navs' : Registers(k, l)
    BY <1>1, <2>1, <2>3, <2>8, WordsStayToCome
  <2> QED BY <1>1, <1>4, <2>1, <2>3, <2>5, <2>6, <2>7, <2>8, GoesOn
<1>5. CASE n.current /\ n.to.page # "logout"
  <2>1. localeChoice(n)
    BY <1>5 DEF CodeLoaded
  <2> QED BY ONLY NavInv, n \in navs, <1>1, <1>5, <2>1, localeChoiceKeeps
<1> QED BY <1>3, <1>4, <1>5

\* The sign-out page signs out, and goes home unless somebody went elsewhere.
LEMMA SignedOutKeeps ==
    ASSUME NavInv, NEW n \in navs, SignedOut(n)
    PROVE  NavInv'
<1>1. /\ n.phase = "leaving" /\ viewer' = "guest" /\ cookie' = "guest" /\ FollowSession
      /\ excused' = (excused \/ ~n.current)
      /\ UNCHANGED <<route, latest, active, loaded, words, supported, mark, reloads, inputs>>
  BY DEF SignedOut, language, stale
<1>2. /\ n.to \in Targets /\ n.current \in BOOLEAN /\ ScalarsFit /\ "guest" \in Visitors
      /\ excused' \in BOOLEAN
  BY <1>1, OneOfThem DEF NavInv, ScalarsFit, Visitors
<1>3. viewer' \in Visitors /\ cookie' \in Visitors /\ manifests' \subseteq Visitors
  BY <1>1, <1>2, ManifestsFit
<1>4. CASE StartOver([n.to EXCEPT !.page = "home"], navs \ {n})
  <2>1. PICK to \in Targets : to = [n.to EXCEPT !.page = "home"]
    BY <1>2, TargetsAre
  <2>2. /\ navs' = Superseded(navs \ {n}) \cup {Entering(to)}
        /\ tangled' = tangled \cup Late(navs \ {n})
    BY <1>4, <2>1 DEF StartOver
  <2>3. ScalarsFit'
    BY <1>1, <1>2, <1>3, <2>2, LateFits DEF ScalarsFit
  <2>4. \A k \in navs \ (navs \ {n}) : k.phase \notin {"words", "fallbackWords"}
    BY <1>1
  <2> QED BY <1>1, <2>2, <2>3, <2>4, BeginsAgain
<1>5. CASE ~n.current /\ navs' = navs \ {n} /\ UNCHANGED tangled
  <2>1. ScalarsFit'
    BY <1>1, <1>2, <1>3, <1>5 DEF ScalarsFit
  <2>2. route # Start => active' \in loaded
    BY <1>1 DEF NavInv, ActiveIsLoaded
  <2>3. excused'
    BY <1>1, <1>5
  <2>4. ASSUME "unworded" \notin tangled', NEW l \in loaded
        PROVE  words'[l] # "none" \/ \E k \in navs' : Registers(k, l)
    BY <1>1, <1>5, <2>4, WordsStayToCome
  <2> QED BY <1>1, <1>5, <2>1, <2>2, <2>3, <2>4, Ends
<1> QED BY <1>4, <1>5 DEF SignedOut

-----------------------------------------------------------------------------
(* The steps: the dictionaries *)

\* The file is there, or is not: the language is marked as loaded, its words are to come.
LEMMA FetchedKeeps ==
    ASSUME NavInv, NEW n \in navs, NEW content \in Contents, Fetched(n, content)
    PROVE  NavInv'
<1>1. PICK m : m = [n EXCEPT !.phase = "words", !.content = content]
  OBVIOUS
<1>2. /\ n.phase = "fetch" /\ loaded' = loaded \cup {n.to.locale}
      /\ navs' = (navs \ {n}) \cup {m}
      /\ tangled' = tangled \cup (IF content = "none" THEN {"unworded"} ELSE {})
      /\ UNCHANGED <<viewer, cookie, route, latest, active, words, supported, manifests>>
      /\ UNCHANGED <<mark, reloads, excused>>
  BY <1>1 DEF Fetched, session, offers, stale
<1>3. /\ Fits(n) /\ n \in Nav /\ n.to.locale \in Locales /\ ScalarsFit
  BY OneOfThem DEF NavInv
<1>4. inputs' \in 0 .. MaxInputs
  BY <1>3, InputFits DEF Fetched, ScalarsFit
<1>5. /\ m \in Nav /\ m.phase = "words" /\ m.to = n.to /\ m.current = n.current
      /\ m.seen = n.seen /\ m.content = content
  BY <1>1, <1>3 DEF Nav, Phases
<1>6. Fits(m)'
  <2>1. m.to.locale \in loaded' /\ (m.current => latest' = m.to.locale)
    BY <1>2, <1>3, <1>5 DEF Fits, Chosen
  <2>2. m.current => canAccess(m.to.page, m.seen)
    BY <1>2, <1>3, <1>5 DEF Fits
  <2>3. "unworded" \notin tangled' => m.content # "none"
    BY <1>2, <1>5
  <2> QED BY <1>5, <2>1, <2>2, <2>3 DEF Fits
<1>7. ScalarsFit'
  BY <1>2, <1>3, <1>4 DEF ScalarsFit, Mixups
<1>8. ASSUME "unworded" \notin tangled', NEW l \in loaded'
      PROVE  words'[l] # "none" \/ \E k \in navs' : Registers(k, l)
  <2>1. CASE l = n.to.locale
    <3>1. Registers(m, l) /\ m \in navs'
      BY <1>2, <1>5, <2>1 DEF Registers
    <3> QED BY <3>1
  <2>2. CASE l # n.to.locale
    <3>1. l \in loaded
      BY <1>2, <1>8, <2>2
    <3> QED BY <1>2, <1>8, <3>1, WordsStayToCome
  <2> QED BY <2>1, <2>2
<1> QED BY <1>2, <1>5, <1>6, <1>7, <1>8, GoesOn

\* What a navigation registers is no longer to come, and the others' words still are.
LEMMA WordsCame ==
    ASSUME NavInv, NEW n \in navs, NEW which \in Locales, NEW content \in Contents,
           \A l \in Locales : Registers(n, l) => l = which,
           words' = Registered(n, which, content), loaded' = loaded,
           tangled \subseteq tangled', "unworded" \notin tangled' => content # "none",
           navs \ {n} \subseteq navs', "unworded" \notin tangled', NEW l \in loaded
    PROVE  words'[l] # "none" \/ \E k \in navs' : Registers(k, l)
<1>1. l \in Locales /\ words \in [Locales -> Contents] /\ "unworded" \notin tangled
  BY DEF NavInv, ScalarsFit
<1>2. words'[l] = IF l = which THEN content ELSE words[l]
  BY <1>1 DEF Registered
<1>3. CASE l = which
  BY <1>2, <1>3
<1>4. CASE l # which /\ words[l] = "none"
  <2>1. ~Registers(n, l)
    BY <1>1, <1>4
  <2>2. \E k \in navs \ {n} : Registers(k, l)
    BY ONLY NavInv, n \in navs, l \in loaded, <1>1, <1>4, <2>1, OthersRegister
  <2> QED BY <2>2
<1> QED BY <1>2, <1>3, <1>4

\* A chain is over: the page lands in the chain's language, or nothing is under way for it.
LEMMA ChainEnds ==
    ASSUME NavInv, NEW n \in navs, n.phase \in {"words", "fallback", "fallbackWords"}, Finish(n),
           UNCHANGED <<session, latest, loaded, offers>>, inputs' \in 0 .. MaxInputs,
           words' \in [Locales -> Contents], tangled' \subseteq Mixups, tangled \subseteq tangled',
           \/ active' = n.to.locale /\ (n.current \/ ~InOrder \/ latest = n.to.locale)
           \/ active' = active /\ ~n.current,
           \A l \in loaded : "unworded" \notin tangled' =>
               words'[l] # "none" \/ \E k \in navs' : Registers(k, l)
    PROVE  NavInv'
<1>1. UNCHANGED <<viewer, cookie, supported, manifests>> /\ navs' = navs \ {n}
  BY DEF session, offers, Finish
<1>2. /\ Fits(n) /\ n \in Nav /\ n.to \in Targets /\ n.to.locale \in Locales /\ n.seen \in Visitors
      /\ ScalarsFit /\ n.to.locale \in loaded /\ n.current \in BOOLEAN
  BY OneOfThem DEF NavInv, Fits
<1>3. ASSUME route' \in Targets \cup {Start}, mark' \in BOOLEAN, reloads' \in Nat, excused' \in BOOLEAN
      PROVE  ScalarsFit'
  BY <1>1, <1>2, <1>3 DEF ScalarsFit
<1>4. CASE n.current
  <2>1. /\ route' = n.to /\ excused' = (n.seen # viewer) /\ mark' = (mark /\ ~Rearms(n.to.page))
        /\ reloads' = IF n.to.page = "error" THEN reloads ELSE 0
    BY <1>4 DEF Finish
  <2>2. mark' \in BOOLEAN /\ excused' \in BOOLEAN
    BY <2>1
  <2>3. ScalarsFit'
    BY <1>2, <1>3, <2>1, <2>2 DEF ScalarsFit
  <2>4. active' = n.to.locale /\ latest' = n.to.locale
    BY <1>2, <1>4 DEF Fits, Chosen
  <2> QED BY <1>1, <1>2, <1>4, <2>3, <2>4, Lands
<1>5. CASE ~n.current
  <2>1. UNCHANGED <<route, excused, mark, reloads>>
    BY <1>5 DEF Finish
  <2>2. ScalarsFit'
    BY <1>2, <1>3, <2>1 DEF ScalarsFit
  <2>3. route # Start => active' \in loaded
    BY <1>2 DEF NavInv, ActiveIsLoaded
  <2>4. InOrder' /\ InOrder => active' \in {active, latest}
    BY <1>5
  <2>5. excused' \/ (~excused /\ viewer' = viewer)
    BY <1>1, <2>1
  <2> QED BY <1>1, <1>5, <2>1, <2>2, <2>3, <2>4, <2>5, Ends
<1> QED BY <1>2, <1>4, <1>5

LEMMA WordsLandedKeeps ==
    ASSUME NavInv, NEW n \in navs, WordsLanded(n)
    PROVE  NavInv'
<1>1. /\ n.phase = "words" /\ words' = Registered(n, n.to.locale, n.content)
      /\ UNCHANGED <<latest, loaded, session, offers, inputs>>
      /\ UNCHANGED <<viewer, cookie, supported, manifests>> /\ activateIfLatest(n)
  BY DEF WordsLanded, session, offers
<1>2. /\ Fits(n) /\ n \in Nav /\ n.to.locale \in Locales /\ n.content \in Contents /\ ScalarsFit
      /\ n.to.locale \in loaded /\ inputs' \in 0 .. MaxInputs
  BY <1>1, OneOfThem DEF NavInv, Fits, ScalarsFit
<1>3. words' \in [Locales -> Contents]
  BY <1>1, <1>2 DEF ScalarsFit, Registered
<1>4. \A l \in Locales : Registers(n, l) => l = n.to.locale
  BY <1>1 DEF Registers
<1>5. ASSUME "unworded" \notin tangled', tangled \subseteq tangled', navs \ {n} \subseteq navs', NEW l \in loaded
      PROVE  words'[l] # "none" \/ \E k \in navs' : Registers(k, l)
  <2>1. n.content # "none"
    BY <1>1, <1>2, <1>5 DEF Fits
  <2> QED BY <1>1, <1>2, <1>4, <1>5, <2>1, WordsCame
<1>6. ASSUME Finish(n), UNCHANGED tangled,
             \/ active' = n.to.locale /\ latest = n.to.locale
             \/ active' = active /\ ~n.current
      PROVE  NavInv'
  <2>1. navs' = navs \ {n}
    BY <1>6 DEF Finish
  <2>2. ASSUME NEW l \in loaded, "unworded" \notin tangled'
        PROVE  words'[l] # "none" \/ \E k \in navs' : Registers(k, l)
    BY <1>5, <1>6, <2>1, <2>2
  <2>3. tangled' \subseteq Mixups /\ tangled \subseteq tangled'
    BY <1>2, <1>6 DEF ScalarsFit
  <2> QED BY <1>1, <1>2, <1>3, <1>6, <2>2, <2>3, ChainEnds
<1>7. CASE latest' = n.to.locale /\ n.to.locale # Fallback /\ Fallback \notin loaded'
  <2>1. PICK m : m = [n EXCEPT !.phase = "fallback"]
    OBVIOUS
  <2>2. /\ navs' = (navs \ {n}) \cup {m} /\ UNCHANGED <<route, excused, mark, reloads, active>>
        /\ tangled' = tangled \cup (IF n.current THEN {} ELSE {"late"})
    BY <1>1, <1>7, <2>1 DEF activateIfLatest, IsLatest, Activate, Waits
  <2>3. "fallback" \in Phases
    BY DEF Phases
  <2>4. /\ m \in Nav /\ m.phase = "fallback" /\ m.to = n.to /\ m.current = n.current
        /\ m.seen = n.seen
    BY <1>2, <2>1, <2>3, AnotherPhase
  <2>5. InOrder' => m.current
    BY <2>2, <2>4 DEF InOrder
  <2>6. Fits(m)'
    BY <1>1, <1>2, <1>7, <2>4, <2>5 DEF Fits
  <2>7. ScalarsFit'
    BY <1>1, <1>2, <1>3, <2>2 DEF ScalarsFit, Mixups
  <2>8. ASSUME "unworded" \notin tangled', NEW l \in loaded'
        PROVE  words'[l] # "none" \/ \E k \in navs' : Registers(k, l)
    BY <1>1, <1>5, <2>2, <2>8
  <2>9. ~n.current => latest' = latest /\ (excused \/ viewer' = viewer)
    BY <1>1
  <2> QED BY <1>1, <2>2, <2>4, <2>6, <2>7, <2>8, <2>9, GoesOn
<1>8. CASE latest' = n.to.locale /\ ~(n.to.locale # Fallback /\ Fallback \notin loaded')
  <2>1. active' = n.to.locale /\ Finish(n) /\ UNCHANGED tangled
    BY <1>1, <1>8 DEF activateIfLatest, IsLatest, Activate
  <2> QED BY <1>1, <1>6, <1>8, <2>1
<1>9. CASE latest' # n.to.locale
  <2>1. Finish(n) /\ UNCHANGED <<active, tangled>>
    BY <1>1, <1>9 DEF activateIfLatest, IsLatest
  <2>2. ~n.current
    BY <1>1, <1>2, <1>9 DEF Fits, Chosen
  <2> QED BY <1>6, <2>1, <2>2
<1> QED BY <1>7, <1>8, <1>9

LEMMA FallbackFetchedKeeps ==
    ASSUME NavInv, NEW n \in navs, FallbackFetched(n)
    PROVE  NavInv'
<1>1. PICK m : m = [n EXCEPT !.phase = "fallbackWords"]
  OBVIOUS
<1>2. /\ n.phase = "fallback" /\ loaded' = loaded \cup {Fallback}
      /\ navs' = (navs \ {n}) \cup {m} /\ UNCHANGED <<route, excused, mark, reloads>>
      /\ UNCHANGED <<viewer, cookie, latest, active, words, supported, manifests, inputs, tangled>>
  BY <1>1 DEF FallbackFetched, Waits, session, offers
<1>3. Fits(n) /\ n \in Nav /\ ScalarsFit /\ Fallback \in Locales
  BY OneOfThem, LanguagesAsDeployed DEF NavInv
<1>4. "fallbackWords" \in Phases
  BY DEF Phases
<1>5. /\ m \in Nav /\ m.phase = "fallbackWords" /\ m.to = n.to /\ m.current = n.current
      /\ m.seen = n.seen
  BY <1>1, <1>3, <1>4, AnotherPhase
<1>6. Fits(m)'
  BY <1>2, <1>3, <1>5 DEF Fits, Chosen, InOrder
<1>7. ScalarsFit'
  BY <1>2, <1>3 DEF ScalarsFit
<1>8. ASSUME "unworded" \notin tangled', NEW l \in loaded'
      PROVE  words'[l] # "none" \/ \E k \in navs' : Registers(k, l)
  <2>1. CASE l = Fallback
    <3>1. Registers(m, l) /\ m \in navs'
      BY <1>2, <1>5, <2>1 DEF Registers
    <3> QED BY <3>1
  <2>2. CASE l # Fallback
    <3>1. l \in loaded
      BY <1>2, <1>8, <2>2
    <3> QED BY <1>2, <1>8, <3>1, WordsStayToCome
  <2> QED BY <2>1, <2>2
<1> QED BY <1>2, <1>5, <1>6, <1>7, <1>8, GoesOn

\* A superseded navigation waits for the fallback only when that was noted.
LEMMA SwitchedWell ==
    ASSUME NavInv, NEW n \in navs, n.phase \in {"fallback", "fallbackWords"}
    PROVE  n.current \/ ~InOrder
  BY OneOfThem DEF Fits

LEMMA FallbackLandedKeeps ==
    ASSUME NavInv, NEW n \in navs, FallbackLanded(n)
    PROVE  NavInv'
<1>1. /\ n.phase = "fallbackWords" /\ words' = Registered(n, Fallback, "plain")
      /\ active' = n.to.locale /\ Finish(n)
      /\ UNCHANGED <<session, latest, loaded, offers, inputs, tangled>>
  BY DEF FallbackLanded, Switched
<1>2. /\ ScalarsFit /\ Fallback \in Locales /\ "plain" \in Contents
  BY LanguagesAsDeployed DEF NavInv, Contents
<1>3. words' \in [Locales -> Contents]
  BY <1>1, <1>2 DEF ScalarsFit, Registered
<1>4. \A l \in Locales : Registers(n, l) => l = Fallback
  BY <1>1 DEF Registers
<1>5. navs' = navs \ {n}
  BY <1>1 DEF Finish
<1>6. ASSUME NEW l \in loaded, "unworded" \notin tangled'
      PROVE  words'[l] # "none" \/ \E k \in navs' : Registers(k, l)
  BY <1>1, <1>2, <1>4, <1>5, <1>6, WordsCame
<1>7. inputs' \in 0 .. MaxInputs /\ tangled' \subseteq Mixups /\ tangled \subseteq tangled'
  BY <1>1, <1>2 DEF ScalarsFit
<1>8. n.current \/ ~InOrder
  BY <1>1, SwitchedWell
<1> QED BY <1>1, <1>3, <1>6, <1>7, <1>8, ChainEnds

LEMMA FallbackFailedKeeps ==
    ASSUME NavInv, NEW n \in navs, FallbackFailed(n)
    PROVE  NavInv'
<1>1. /\ n.phase \in {"fallback", "fallbackWords"} /\ Input
      /\ active' = n.to.locale /\ Finish(n) /\ tangled' = tangled \cup Unworded(n)
      /\ UNCHANGED <<session, latest, loaded, words, offers>>
  BY DEF FallbackFailed, Switched
<1>2. ScalarsFit /\ inputs' \in 0 .. MaxInputs
  BY <1>1, InputFits DEF NavInv
<1>3. words' \in [Locales -> Contents] /\ tangled' \subseteq Mixups /\ tangled \subseteq tangled'
  BY <1>1, <1>2 DEF ScalarsFit, Unworded, Mixups
<1>4. navs' = navs \ {n}
  BY <1>1 DEF Finish
<1>5. ASSUME NEW l \in loaded, "unworded" \notin tangled'
      PROVE  words'[l] # "none" \/ \E k \in navs' : Registers(k, l)
  <2>1. n.phase \notin {"words", "fallbackWords"}
    BY <1>1, <1>5 DEF Unworded
  <2> QED BY <1>1, <1>3, <1>4, <1>5, <2>1, WordsStayToCome
<1>6. n.current \/ ~InOrder
  BY <1>1, SwitchedWell
<1> QED BY <1>1, <1>2, <1>3, <1>5, <1>6, ChainEnds

-----------------------------------------------------------------------------
(* The steps: the session, and the languages on offer *)

LEMMA SignInKeeps ==
    ASSUME NavInv, NEW who \in Visitors, NEW to \in Addresses, SignIn(who, to)
    PROVE  NavInv'
<1>1. /\ Input /\ viewer' = who /\ cookie' = who /\ FollowSession /\ to \in Targets
      /\ navs' = Superseded(navs) \cup {Entering(to)} /\ tangled' = tangled \cup Late(navs)
      /\ UNCHANGED <<route, latest, active, loaded, words, supported, mark, reloads, excused>>
  BY DEF SignIn, StartOver, language, stale, Targets
<1>2. /\ ScalarsFit /\ inputs' \in 0 .. MaxInputs /\ Late(navs) \subseteq Mixups
      /\ manifests' \subseteq Visitors
  BY <1>1, InputFits, LateFits, ManifestsFit DEF NavInv
<1>3. ScalarsFit'
  BY <1>1, <1>2 DEF ScalarsFit
<1> QED BY <1>1, <1>3, BeginsAgain

\* The page on screen is entered again, or nothing is: nothing is on screen yet.
LEMMA ExpiresKeeps ==
    ASSUME NavInv, Expires
    PROVE  NavInv'
<1>1. /\ Input /\ viewer' = "guest" /\ cookie' = "guest" /\ FollowSession
      /\ UNCHANGED <<route, latest, active, loaded, words, supported, mark, reloads, excused>>
  BY DEF Expires, language, stale
<1>2. ScalarsFit /\ inputs' \in 0 .. MaxInputs /\ viewer' \in Visitors
  BY <1>1, InputFits DEF NavInv, Visitors
<1>3. manifests' \subseteq Visitors
  BY <1>1, <1>2, ManifestsFit
<1>4. CASE route = Start
  <2>1. UNCHANGED <<navs, tangled>>
    BY <1>4 DEF Expires
  <2>2. ScalarsFit'
    BY <1>1, <1>2, <1>3, <2>1 DEF ScalarsFit
  <2>3. canAccess(route.page, viewer')
    BY <1>4 DEF canAccess, Start
  <2> QED BY <1>1, <2>1, <2>2, <2>3, Aside DEF language
<1>5. CASE route # Start
  <2>1. PICK to \in Targets : to = route
    BY <1>2, <1>5 DEF ScalarsFit
  <2>2. navs' = Superseded(navs) \cup {Entering(to)} /\ tangled' = tangled \cup Late(navs)
    BY <1>5, <2>1 DEF Expires, EntersAgain, StartOver
  <2>3. ScalarsFit'
    BY <1>1, <1>2, <1>3, <2>2, LateFits DEF ScalarsFit
  <2> QED BY <1>1, <2>2, <2>3, BeginsAgain
<1> QED BY <1>4, <1>5

LEMMA ChangesQuietlyKeeps ==
    ASSUME NavInv, NEW who \in Visitors, ChangesQuietly(who)
    PROVE  NavInv'
<1>1. /\ Input /\ viewer' = who /\ cookie' = who /\ FollowSession /\ excused' = TRUE
      /\ UNCHANGED <<route, navs, supported, mark, reloads, tangled>>
      /\ UNCHANGED language /\ UNCHANGED <<latest, active, loaded, words>>
  BY DEF ChangesQuietly, language, stale
<1>2. ScalarsFit /\ inputs' \in 0 .. MaxInputs /\ viewer' \in Visitors
  BY <1>1, InputFits DEF NavInv
<1>3. manifests' \subseteq Visitors
  BY <1>1, <1>2, ManifestsFit
<1>4. ScalarsFit'
  BY <1>1, <1>2, <1>3 DEF ScalarsFit
<1> QED BY <1>1, <1>4, Aside

LEMMA RulesChangeKeeps ==
    ASSUME NavInv, NEW who \in Visitors, RulesChange(who)
    PROVE  NavInv'
<1>1. /\ Input /\ viewer' = who /\ cookie' = who
      /\ UNCHANGED <<route, supported, manifests, mark, reloads, excused>>
      /\ UNCHANGED language /\ UNCHANGED <<latest, active, loaded, words>>
  BY DEF RulesChange, language, stale, offers
<1>2. ScalarsFit /\ inputs' \in 0 .. MaxInputs
  BY <1>1, InputFits DEF NavInv
<1>3. CASE route = Start \/ canAccess(route.page, who)
  <2>1. UNCHANGED <<navs, tangled>>
    BY <1>3 DEF RulesChange
  <2>2. ScalarsFit'
    BY <1>1, <1>2, <2>1 DEF ScalarsFit
  <2>3. canAccess(route.page, viewer')
    BY <1>1, <1>3 DEF canAccess, Start
  <2> QED BY <1>1, <2>1, <2>2, <2>3, Aside
<1>4. CASE ~(route = Start \/ canAccess(route.page, who))
  <2>1. PICK to \in Targets : to = Verdict(route, who)
    BY <1>2, <1>4, TargetsAre DEF ScalarsFit
  <2>2. navs' = Superseded(navs) \cup {Entering(to)} /\ tangled' = tangled \cup Late(navs)
    BY <1>4, <2>1 DEF RulesChange, StartOver
  <2>3. ScalarsFit'
    BY <1>1, <1>2, <2>2, LateFits DEF ScalarsFit
  <2> QED BY <1>1, <2>2, <2>3, BeginsAgain
<1> QED BY <1>3, <1>4

LEMMA ManifestLandsKeeps ==
    ASSUME NavInv, NEW who \in manifests, ManifestLands(who)
    PROVE  NavInv'
<1>1. /\ manifests' = manifests \ {who} /\ supported' \in Offered(who)
      /\ UNCHANGED <<viewer, cookie, route, navs, mark, reloads, inputs, excused, tangled>>
      /\ UNCHANGED language /\ UNCHANGED <<latest, active, loaded, words>>
  BY DEF ManifestLands, session, language, stale, past
<1>2. ScalarsFit /\ supported' \subseteq Locales
  BY <1>1, LanguagesAsDeployed DEF NavInv, Offered
<1>3. ScalarsFit'
  BY <1>1, <1>2 DEF ScalarsFit
<1> QED BY <1>1, <1>3, Aside

LEMMA StutterKeeps ==
    ASSUME NavInv, UNCHANGED navVars
    PROVE  NavInv'
<1>1. /\ UNCHANGED <<viewer, cookie, route, navs, supported, manifests, mark, reloads, inputs>>
      /\ UNCHANGED <<excused, tangled, language>> /\ UNCHANGED <<latest, active, loaded, words>>
  BY DEF navVars, session, language, offers, stale, past
<1>2. ScalarsFit'
  BY <1>1 DEF NavInv, ScalarsFit
<1> QED BY <1>1, <1>2, Aside

-----------------------------------------------------------------------------
(* The invariant, and what it gives *)

LEMMA FitsFromTheStart ==
    ASSUME NavigationInit
    PROVE  NavInv
<1>1. PICK to \in Addresses : navs = {Entering(to)}
  BY DEF NavigationInit
<1>2. Entering(to) \in Nav /\ Entering(to).current /\ Entering(to).phase = "restore"
  BY EnteringFits DEF Targets
<1>3. Fallback \in Locales /\ supported \subseteq Locales /\ 0 \in 0 .. MaxInputs
  BY LanguagesAsDeployed, MaxInputsNat DEF NavigationInit, Offered
<1>4. ScalarsFit
  BY <1>3 DEF NavigationInit, ScalarsFit, Visitors, Contents
<1>5. NavsFit
  BY <1>1, <1>2 DEF NavsFit, Fits, Chosen
<1>6. OneCurrent
  BY <1>1 DEF OneCurrent
<1>7. WordsToCome
  BY DEF NavigationInit, WordsToCome
<1>8. ~Still
  BY <1>1, <1>2 DEF Still
<1>9. LandedWell /\ ActiveIsLoaded /\ OnceThenLanded
  BY <1>8 DEF NavigationInit, LandedWell, ActiveIsLoaded, OnceThenLanded
<1> QED BY <1>4, <1>5, <1>6, <1>7, <1>9 DEF NavInv

LEMMA NavigationsKeep ==
    ASSUME NavInv, [NavigationNext]_navVars
    PROVE  NavInv'
<1>1. ASSUME NEW to \in Addresses, Go(to) PROVE NavInv'
  BY ONLY NavInv, <1>1, GoKeeps
<1>2. ASSUME NEW to \in Addresses, NEW who \in Visitors, SignIn(who, to) PROVE NavInv'
  BY ONLY NavInv, <1>2, SignInKeeps
<1>3. CASE GoNowhere
  BY ONLY NavInv, <1>3, GoNowhereKeeps
<1>4. CASE Expires
  BY ONLY NavInv, <1>4, ExpiresKeeps
<1>5. ASSUME NEW who \in Visitors, ChangesQuietly(who) PROVE NavInv'
  BY ONLY NavInv, <1>5, ChangesQuietlyKeeps
<1>6. ASSUME NEW who \in Visitors, RulesChange(who) PROVE NavInv'
  BY ONLY NavInv, <1>6, RulesChangeKeeps
<1>7. ASSUME NEW who \in manifests, ManifestLands(who) PROVE NavInv'
  BY ONLY NavInv, <1>7, ManifestLandsKeeps
<1>8. ASSUME NEW n \in navs, GuardsPass(n) PROVE NavInv'
  BY ONLY NavInv, <1>8, GuardsPassKeeps
<1>9. ASSUME NEW n \in navs, RestoreRefused(n) PROVE NavInv'
  BY ONLY NavInv, <1>9, RestoreRefusedKeeps
<1>10. ASSUME NEW n \in navs, CodeLoaded(n) PROVE NavInv'
  BY ONLY NavInv, <1>10, CodeLoadedKeeps
<1>11. ASSUME NEW n \in navs, CodeFails(n) \/ WordsFailed(n) PROVE NavInv'
  BY ONLY NavInv, <1>11, FailuresKeep
<1>12. ASSUME NEW n \in navs, SignedOut(n) PROVE NavInv'
  BY ONLY NavInv, <1>12, SignedOutKeeps
<1>13. ASSUME NEW n \in navs, NEW content \in Contents, Fetched(n, content) PROVE NavInv'
  BY ONLY NavInv, <1>13, FetchedKeeps
<1>14. ASSUME NEW n \in navs, WordsLanded(n) PROVE NavInv'
  BY ONLY NavInv, <1>14, WordsLandedKeeps
<1>15. ASSUME NEW n \in navs, FallbackFetched(n) PROVE NavInv'
  BY ONLY NavInv, <1>15, FallbackFetchedKeeps
<1>16. ASSUME NEW n \in navs, FallbackLanded(n) PROVE NavInv'
  BY ONLY NavInv, <1>16, FallbackLandedKeeps
<1>17. ASSUME NEW n \in navs, FallbackFailed(n) PROVE NavInv'
  BY ONLY NavInv, <1>17, FallbackFailedKeeps
<1>18. CASE UNCHANGED navVars
  BY ONLY NavInv, <1>18, StutterKeeps
<1> QED BY <1>1, <1>2, <1>3, <1>4, <1>5, <1>6, <1>7, <1>8, <1>9, <1>10, <1>11, <1>12, <1>13,
           <1>14, <1>15, <1>16, <1>17, <1>18 DEF NavigationNext

\* Every navigation under way knows what it needs, whatever overlaps: the invariant the others
\* follow from.
THEOREM NavigationsFit == NavigationSpec => []NavInv
<1>1. NavigationInit => NavInv
  BY FitsFromTheStart
<1>2. NavInv /\ [NavigationNext]_navVars => NavInv'
  BY NavigationsKeep
<1> QED BY <1>1, <1>2, PTL DEF NavigationSpec

\* The variables keep their types, and one navigation at most may land.
THEOREM NavigationTypeCorrect == NavigationSpec => []NavigationTypeOK
<1>1. NavInv => NavigationTypeOK
  BY DEF NavInv, ScalarsFit, NavsFit, Fits, OneCurrent, NavigationTypeOK
<1> QED BY <1>1, NavigationsFit, PTL

\* LayoutDefault.vue, the page entered again when the session or its rules change: at rest the
\* page on screen is one its visitor may see, whatever restores, sign-outs, expiries and failed
\* chunks the navigations overlapped with.
THEOREM PageIsAllowedAlways == NavigationSpec => []PageIsAllowed
<1>1. NavInv => PageIsAllowed
  BY DEF NavInv, LandedWell, Still, PageIsAllowed, AtRest
<1> QED BY <1>1, NavigationsFit, PTL

\* locale-choice.ts, activateIfLatest: at rest the language is the address's, however many
\* switches overlapped, unless one waited for the fallback behind a newer navigation.
THEOREM InSyncElseAlways == NavigationSpec => []InSyncElse
<1>1. NavInv => InSyncElse
  BY DEF NavInv, LandedWell, Still, InOrder, InSyncElse, InSync, AtRest
<1> QED BY <1>1, NavigationsFit, PTL

\* i18n/index.ts, loadedLanguages: a language is marked as loaded before it has its words, and yet
\* the one on screen has them once nothing is under way.
THEOREM WordsAreThereAlways == NavigationSpec => []WordsAreThere
<1>1. NavInv => WordsAreThere
  BY DEF NavInv, WordsToCome, ActiveIsLoaded, WordsAreThere, AtRest
<1> QED BY <1>1, NavigationsFit, PTL

\* stale-deploy.ts, the mark in session storage: the page is not loaded again twice before one has
\* landed, however many chunks fail.
THEOREM ReloadsOnceAlways == NavigationSpec => []ReloadsOnce
<1>1. NavInv => ReloadsOnce
  BY DEF NavInv, OnceThenLanded, ReloadsOnce
<1> QED BY <1>1, NavigationsFit, PTL
=============================================================================
