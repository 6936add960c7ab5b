---------------------------- MODULE ReplayProofs ----------------------------
(***************************************************************************)
(* Proofs about ReplaySession, for every history of bars, every clock and  *)
(* any number of sessions and requests.                                    *)
(***************************************************************************)
EXTENDS ReplaySession, FiniteSetTheorems, SequenceTheorems, WellFoundedInduction, TLAPS

-----------------------------------------------------------------------------
(* Bars are naturals: a set of them has a least and, when bounded, a       *)
(* greatest element, and one of each rank.                                 *)
LEMMA NatOrder == \E R : IsWellFoundedOn(R, Nat) /\ \A x, y \in Nat : y < x => <<y, x>> \in R
<1>1. IsWellFoundedOn(OpToRel(<, Nat), Nat)
  BY NatLessThanWellFounded
<1>2. \A x, y \in Nat : y < x => <<y, x>> \in OpToRel(<, Nat)
  BY DEF OpToRel
<1> QED
  BY <1>1, <1>2, Zenon

LEMMA HasLeast ==
  ASSUME NEW S \in SUBSET Nat, S # {}
  PROVE  \E m \in S : \A k \in S : m <= k
<1>1. PICK R : IsWellFoundedOn(R, Nat) /\ \A x, y \in Nat : y < x => <<y, x>> \in R
  BY NatOrder
<1>2. \E m \in S : \A k \in S : ~ (<<k, m>> \in R)
  BY <1>1, WFMin
<1>3. PICK m \in S : \A k \in S : ~ (<<k, m>> \in R)
  BY <1>2
<1>4. \A k \in S : ~(k < m)
  BY <1>1, <1>3
<1>5. \A k \in S : m <= k
  BY <1>4
<1> QED
  BY <1>5

LEMMA GreatestIsIn ==
  ASSUME NEW S \in SUBSET Nat, S # {}, NEW top \in Nat, \A b \in S : b <= top
  PROVE  Greatest(S) \in S
<1> DEFINE Above == {m \in Nat : \A b \in S : b <= m}
<1>1. Above \in SUBSET Nat /\ top \in Above
  OBVIOUS
<1>2. PICK m \in Above : \A k \in Above : m <= k
  BY <1>1, HasLeast
<1>3. m \in S
  <2>1. SUFFICES ASSUME m \notin S PROVE FALSE
    OBVIOUS
  <2>2. \A b \in S : b \in Nat /\ b < m
    BY <2>1
  <2>3. PICK c \in S : c < m
    BY <2>2
  <2>4. m - 1 \in Nat
    BY <2>3
  <2>5. \A b \in S : b <= m - 1
    BY <2>2
  <2>6. m - 1 \in Above
    BY <2>4, <2>5
  <2> QED
    BY <1>2, <2>6
<1>4. \A c \in S : c <= m
  OBVIOUS
<1> QED
  BY <1>3, <1>4 DEF Greatest

LEMMA NthIsIn ==
  ASSUME NEW S \in SUBSET Nat, IsFiniteSet(S), NEW n \in Nat \ {0}, Cardinality(S) >= n,
         NEW top \in Nat, \A b \in S : b <= top
  PROVE  Nth(S, n) \in S
<1> DEFINE UpTo(m) == {c \in S : c <= m}
           Enough == {m \in Nat : Cardinality(UpTo(m)) >= n}
<1>1. \A m \in Nat : IsFiniteSet(UpTo(m)) /\ Cardinality(UpTo(m)) \in Nat
  <2> SUFFICES ASSUME NEW m \in Nat PROVE IsFiniteSet(UpTo(m)) /\ Cardinality(UpTo(m)) \in Nat
    OBVIOUS
  <2>1. UpTo(m) \in SUBSET S
    OBVIOUS
  <2> QED
    BY <2>1, FS_Subset, FS_CardinalityType
<1>2. UpTo(top) = S
  OBVIOUS
<1>3. Enough \in SUBSET Nat /\ top \in Enough
  BY <1>2
<1>4. PICK m \in Nat : Cardinality(UpTo(m)) >= n /\ \A k \in Nat : k < m => ~(Cardinality(UpTo(k)) >= n)
  <2>1. PICK m \in Enough : \A k \in Enough : m <= k
    BY <1>3, HasLeast
  <2>2. \A k \in Nat : k < m => k \notin Enough
    BY <2>1
  <2> QED
    BY <2>1, <2>2
<1> HIDE DEF Enough
<1>5. CASE m = 0
  <2>1. m \in S
    <3>1. SUFFICES ASSUME m \notin S PROVE FALSE
      OBVIOUS
    <3>2. \A c \in S : ~(c <= m)
      BY <1>5, <3>1
    <3>3. UpTo(m) = {}
      BY <3>2
    <3> QED
      BY <1>4, <3>3, FS_EmptySet
  <2>2. UpTo(m) = {m}
    <3>1. \A c \in S : c <= m <=> c = m
      BY <1>5, <2>1
    <3> QED
      BY <2>1, <3>1
  <2>3. Cardinality({m}) = 1
    BY FS_Singleton
  <2>4. Cardinality(UpTo(m)) = n
    BY <1>4, <2>2, <2>3
  <2> QED
    BY <2>1, <2>4 DEF Nth
<1>6. CASE m # 0
  <2>1. m - 1 \in Nat /\ m - 1 < m
    BY <1>6
  <2>2. ~(Cardinality(UpTo(m - 1)) >= n)
    BY <1>4, <2>1
  <2>3. m \in S
    <3>1. SUFFICES ASSUME m \notin S PROVE FALSE
      OBVIOUS
    <3>2. \A c \in S : c <= m <=> c <= m - 1
      BY <2>1, <3>1
    <3>3. UpTo(m) = UpTo(m - 1)
      BY <3>2
    <3> QED
      BY <1>4, <2>2, <3>3
  <2>4. UpTo(m) = UpTo(m - 1) \cup {m} /\ m \notin UpTo(m - 1)
    <3>1. \A c \in S : c <= m <=> (c <= m - 1 \/ c = m)
      BY <2>1
    <3>2. ~(m <= m - 1)
      OBVIOUS
    <3> QED
      BY <2>3, <3>1, <3>2
  <2>5. IsFiniteSet(UpTo(m - 1)) /\ Cardinality(UpTo(m - 1)) \in Nat
    BY <1>1, <2>1
  <2>6. Cardinality(UpTo(m)) = Cardinality(UpTo(m - 1)) + 1
    BY <2>4, <2>5, FS_AddElement
  <2>7. Cardinality(UpTo(m)) = n
    BY <1>4, <2>2, <2>5, <2>6
  <2> QED
    BY <2>3, <2>7 DEF Nth
<1> QED
  BY <1>5, <1>6

-----------------------------------------------------------------------------
(* _closed and what the cursor moves to.                                   *)
LEMMA ClosedBars ==
  ASSUME NEW limit, NEW until
  PROVE  /\ Closed(limit, until) \in SUBSET Nat /\ IsFiniteSet(Closed(limit, until))
         /\ Now \in Nat /\ \A b \in Closed(limit, until) : b <= Now
<1>1. Closed(limit, until) \in SUBSET (1 .. Now) /\ Now \in Nat
  BY ReplayAssumption DEF Closed
<1>2. Closed(limit, until) \in SUBSET Nat /\ \A b \in Closed(limit, until) : b <= Now
  BY <1>1
<1> QED
  BY <1>1, <1>2, FS_BoundedSetOfNaturals

LEMMA AfterBars ==
  ASSUME NEW cursor \in Nat, NEW n, NEW until
  PROVE  /\ After(cursor, n, until) \in SUBSET Nat /\ IsFiniteSet(After(cursor, n, until))
         /\ \A b \in After(cursor, n, until) : cursor < b /\ b <= Now
<1>1. After(cursor, n, until) \in SUBSET Closed(n + Slack, until)
  BY DEF After
<1>2. \A b \in After(cursor, n, until) : b > cursor
  BY DEF After
<1>3. \A b \in After(cursor, n, until) : b \in Nat /\ b <= Now
  BY <1>1, ClosedBars
<1> QED
  BY <1>1, <1>2, <1>3, ClosedBars, FS_Subset

(* A step forward never goes back, however the window is widened.          *)
LEMMA ForwardGoesOn ==
  ASSUME NEW cursor \in Nat, NEW n \in Nat \ {0}
  PROVE  /\ Forward(cursor, n).cursor \in Nat /\ Forward(cursor, n).cursor >= cursor
         /\ Forward(cursor, n).atEnd \in BOOLEAN
<1>1. CASE Found(cursor, n) # {}
  <2> DEFINE first == CHOOSE e \in Found(cursor, n) : \A f \in Found(cursor, n) : e <= f
             window == After(cursor, n, Until(cursor, n, first))
  <2>1. Found(cursor, n) \in SUBSET Nat
    BY ReplayAssumption DEF Found
  <2>2. \E e \in Found(cursor, n) : \A f \in Found(cursor, n) : e <= f
    BY <1>1, <2>1, HasLeast
  <2>3. first \in Found(cursor, n)
    BY <2>2
  <2>4. Cardinality(window) >= n
    BY <2>3 DEF Found
  <2>5. Forward(cursor, n) = [cursor |-> Nth(window, n), atEnd |-> FALSE]
    BY <1>1 DEF Forward
  <2> HIDE DEF first
  <2>6. window \in SUBSET Nat /\ IsFiniteSet(window) /\ \A b \in window : cursor < b /\ b <= Now
    BY AfterBars
  <2> HIDE DEF window
  <2>7. Nth(window, n) \in window
    BY <2>4, <2>6, NthIsIn, ReplayAssumption
  <2>8. \A b \in window : b \in Nat /\ b >= cursor
    BY <2>6
  <2>9. Nth(window, n) \in Nat /\ Nth(window, n) >= cursor
    BY <2>7, <2>8, Zenon
  <2> QED
    BY <2>5, <2>9
<1>2. CASE Found(cursor, n) = {}
  <2> DEFINE rest == After(cursor, n, Now)
  <2>1. Forward(cursor, n) = [cursor |-> IF rest = {} THEN cursor ELSE Greatest(rest), atEnd |-> TRUE]
    BY <1>2 DEF Forward
  <2>2. rest \in SUBSET Nat /\ \A b \in rest : cursor < b /\ b <= Now
    BY AfterBars
  <2> HIDE DEF rest
  <2>3. CASE rest = {}
    BY <2>1, <2>3
  <2>4. CASE rest # {}
    <3>1. Greatest(rest) \in rest
      BY <2>2, <2>4, GreatestIsIn, ReplayAssumption
    <3>2. \A b \in rest : b \in Nat /\ b >= cursor
      BY <2>2
    <3>3. Greatest(rest) \in Nat /\ Greatest(rest) >= cursor
      BY <3>1, <3>2, Zenon
    <3> QED
      BY <2>1, <2>4, <3>3
  <2> QED
    BY <2>3, <2>4
<1> QED
  BY <1>1, <1>2

LEMMA BackIsABar ==
  ASSUME NEW cursor \in Nat, NEW n \in Nat \ {0}
  PROVE  Back(cursor, n) \in Nat
<1> DEFINE past == Closed(n + 1, cursor)
<1>1. past \in SUBSET Nat /\ IsFiniteSet(past) /\ Now \in Nat /\ \A b \in past : b <= Now
  BY ClosedBars
<1>2. Cardinality(past) \in Nat
  BY <1>1, FS_CardinalityType
<1>3. Back(cursor, n) = IF Cardinality(past) > n THEN Nth(past, 1) ELSE cursor
  BY DEF Back
<1> HIDE DEF past
<1>4. CASE Cardinality(past) > n
  <2>1. Cardinality(past) >= 1
    BY <1>2, <1>4
  <2>2. Nth(past, 1) \in past
    BY <1>1, <2>1, NthIsIn
  <2> QED
    BY <1>1, <1>3, <1>4, <2>2
<1> QED
  BY <1>3, <1>4

LEMMA StartIsABar ==
  ASSUME NEW start, Closed(2, start) # {}
  PROVE  Greatest(Closed(2, start)) \in Nat
<1> DEFINE past == Closed(2, start)
<1>1. past \in SUBSET Nat /\ Now \in Nat /\ \A b \in past : b <= Now
  BY ClosedBars
<1>2. past # {}
  OBVIOUS
<1> HIDE DEF past
<1>3. Greatest(past) \in past
  BY <1>1, <1>2, GreatestIsIn
<1> QED
  BY <1>1, <1>3 DEF past

-----------------------------------------------------------------------------
(* The inductive invariant.  A session's open question was asked where its *)
(* cursor is, and its answers are graded one by one.                       *)
GradedInTurn(s) ==
  Len(s.graded) = s.index /\ \A n \in 1 .. Len(s.graded) : s.graded[n] = <<n - 1, n - 1>>

AskedHere(s) == s.asked # None => s.mode = "QUIZ" /\ s.asked = s.cursor

SessionSound(s) == s # None => GradedInTurn(s) /\ AskedHere(s)

(* What a view has read so far is not past the cursor of a session that    *)
(* only moves forward.                                                     *)
NotAhead(k, s) ==
  /\ k.bars \in Nat
  /\ s.mode \in ForwardOnly => k.bars <= s.cursor /\ (k.engine # None => k.engine <= s.cursor)
  /\ s.mode = "BLIND" /\ k.engine # None => s.ended

(* A request has the session it needs.                                     *)
RequestSound(k, all) ==
  /\ k.pc # "idle" => k.id \in Ids
  /\ k.pc = "create" => all[k.id] = None
  /\ k.pc = "ask" => all[k.id] # None /\ all[k.id].mode = "QUIZ"
  /\ k.pc \in {"loaded", "analysed"} => all[k.id] # None /\ NotAhead(k, all[k.id])

SessionsSound ==
  /\ \A i \in Ids : SessionSound(sessions[i])
  /\ \A i \in Ids \ drawn : sessions[i] = None
  /\ \A i \in open : sessions[i] # None

RequestsSound ==
  /\ \A t \in Tasks : RequestSound(task[t], sessions)
  /\ \A t \in Tasks : task[t].pc = "create" => task[t].id \in drawn

(* A create in its locked part has left room for its session.              *)
RoomKept ==
  /\ IsFiniteSet(open) /\ Cardinality(open) <= MaxSessions
  /\ \A t \in Tasks : task[t].pc = "create" => Cardinality(open) < MaxSessions

IInv == TypeOK /\ SessionsSound /\ RequestsSound /\ RoomKept /\ FutureIsHidden

LEMMA Assumed ==
  /\ None \notin Ids /\ None \notin Tasks /\ None \notin Nat
  /\ Now \in Nat /\ Horizon \in Nat \ {0} /\ MaxStep \in Nat /\ MaxSessions \in Nat
BY ReplayAssumption

(* Moving changes nothing but the cursor, which in the modes that only     *)
(* move forward never falls.                                               *)
LEMMA MovedIs ==
  ASSUME NEW s \in Session, NEW n \in Int, n # 0, n < 0 => s.mode \notin ForwardOnly
  PROVE  /\ Moved(s, n) \in Session
         /\ Moved(s, n).mode = s.mode /\ Moved(s, n).ended = s.ended /\ Moved(s, n).asked = s.asked
         /\ Moved(s, n).index = s.index /\ Moved(s, n).graded = s.graded
         /\ s.mode \in ForwardOnly => Moved(s, n).cursor >= s.cursor
<1> DEFINE to == IF n > 0 THEN Forward(s.cursor, n) ELSE [cursor |-> Back(s.cursor, -n), atEnd |-> FALSE]
<1>1. s.cursor \in Nat
  BY DEF Session
<1>2. Moved(s, n) = [s EXCEPT !.cursor = to.cursor, !.atEnd = to.atEnd]
  BY DEF Moved
<1>3. to.cursor \in Nat /\ to.atEnd \in BOOLEAN /\ (s.mode \in ForwardOnly => to.cursor >= s.cursor)
  <2>1. CASE n > 0
    <3>1. n \in Nat \ {0}
      BY <2>1
    <3> QED
      BY <1>1, <2>1, <3>1, ForwardGoesOn
  <2>2. CASE n < 0
    <3>1. -n \in Nat \ {0} /\ ~(n > 0)
      BY <2>2
    <3>2. Back(s.cursor, -n) \in Nat
      BY <1>1, <3>1, BackIsABar
    <3> QED
      BY <2>2, <3>1, <3>2
  <2>3. n > 0 \/ n < 0
    OBVIOUS
  <2> HIDE DEF to
  <2> QED
    BY <2>1, <2>2, <2>3
<1> HIDE DEF to
<1> QED
  BY <1>2, <1>3 DEF Session

(* A session that goes on in its mode, forward where it must, and does not *)
(* reopen, keeps what its other requests rely on.                          *)
LEMMA OthersKeepPace ==
  ASSUME NEW all \in [Ids -> Session \cup {None}], NEW i \in Ids, NEW s \in Session, NEW k,
         k.bars \in Times, k.engine \in Times,
         all[i] = None \/ (/\ s.mode = all[i].mode /\ (all[i].ended => s.ended)
                           /\ s.mode \in ForwardOnly => s.cursor >= all[i].cursor),
         RequestSound(k, all), all[i] # None \/ k.pc # "create"
  PROVE  RequestSound(k, [all EXCEPT ![i] = s])
<1>1. CASE k.pc # "idle" /\ k.id = i
  <2>1. [all EXCEPT ![i] = s][k.id] = s /\ s # None
    BY <1>1, NoneAssumption
  <2>2. k.pc # "create"
    BY <1>1 DEF RequestSound
  <2>3. ASSUME all[i] # None, NotAhead(k, all[i])
        PROVE  NotAhead(k, s)
    <3>1. all[i] \in Session
      BY <2>3
    <3>2. all[i].cursor \in Nat /\ s.cursor \in Nat /\ all[i].ended \in BOOLEAN /\ k.bars \in Nat
      BY <2>3, <3>1 DEF Session, NotAhead
    <3>3. k.engine # None => k.engine \in Nat
      BY DEF Times
    <3>4. s.mode = all[i].mode /\ (all[i].ended => s.ended) /\ (s.mode \in ForwardOnly => s.cursor >= all[i].cursor)
      BY <2>3
    <3> QED
      BY <2>3, <3>2, <3>3, <3>4 DEF NotAhead
  <2>4. s.mode = all[i].mode \/ all[i] = None
    OBVIOUS
  <2> QED
    BY <1>1, <2>1, <2>2, <2>3, <2>4 DEF RequestSound
<1>2. CASE k.pc # "idle" /\ k.id # i
  <2>1. k.id \in Ids => [all EXCEPT ![i] = s][k.id] = all[k.id]
    BY <1>2
  <2> QED
    BY <1>2, <2>1 DEF RequestSound
<1>3. CASE k.pc = "idle"
  BY <1>3 DEF RequestSound
<1> QED
  BY <1>1, <1>2, <1>3

-----------------------------------------------------------------------------
(* What the actions have in common.                                        *)
Request == [pc : {"idle", "create", "ask", "loaded", "analysed"},
            id : Ids \cup {None}, bars : Times, engine : Times]

LEMMA IdleIs == Idle \in Request /\ Idle.pc = "idle"
BY DEF Idle, Request, Times

LEMMA LoadingIs ==
  ASSUME NEW i \in Ids, NEW c \in Nat
  PROVE  /\ Loading(i, c) \in Request /\ Loading(i, c).pc = "loaded" /\ Loading(i, c).id = i
         /\ Loading(i, c).bars = c /\ Loading(i, c).engine = None
BY DEF Loading, Request, Times

(* Sessions that go leave room.                                            *)
LEMMA Leaving ==
  ASSUME IInv, open' \in SUBSET open
  PROVE  /\ IsFiniteSet(open') /\ Cardinality(open') \in Nat
         /\ Cardinality(open') <= Cardinality(open) /\ Cardinality(open) \in Nat
BY FS_Subset, FS_CardinalityType DEF IInv, RoomKept

LEMMA Expiring ==
  ASSUME NEW spared, Expires(spared)
  PROVE  open' \in SUBSET open /\ spared \cap open \subseteq open'
BY DEF Expires

LEMMA RoomStays ==
  ASSUME IInv, open' \in SUBSET open,
         \A t \in Tasks : task'[t].pc = "create" => task[t].pc = "create"
  PROVE  RoomKept'
<1>1. /\ IsFiniteSet(open') /\ Cardinality(open') \in Nat
      /\ Cardinality(open') <= Cardinality(open) /\ Cardinality(open) \in Nat
  BY Leaving
<1>2. Cardinality(open) <= MaxSessions /\ \A t \in Tasks : task[t].pc = "create" => Cardinality(open) < MaxSessions
  BY DEF IInv, RoomKept
<1> QED
  BY <1>1, <1>2, Assumed DEF RoomKept

(* One session changes: what holds of all of them still does.              *)
LEMMA SessionsStay ==
  ASSUME IInv, NEW i \in drawn, NEW s \in Session, GradedInTurn(s), AskedHere(s),
         sessions' = [sessions EXCEPT ![i] = s], drawn' = drawn, open' \subseteq open \cup {i}
  PROVE  SessionsSound' /\ sessions' \in [Ids -> Session \cup {None}]
<1>1. i \in Ids /\ sessions \in [Ids -> Session \cup {None}] /\ drawn \subseteq Ids
  BY DEF IInv, TypeOK
<1>2. sessions' \in [Ids -> Session \cup {None}]
  BY <1>1
<1>3. \A j \in Ids : sessions'[j] = IF j = i THEN s ELSE sessions[j]
  BY <1>1
<1>4. SessionSound(s) /\ s # None
  BY NoneAssumption DEF SessionSound
<1>5. \A j \in Ids : SessionSound(sessions'[j])
  BY <1>3, <1>4 DEF IInv, SessionsSound
<1>6. \A j \in Ids \ drawn' : sessions'[j] = None
  BY <1>3 DEF IInv, SessionsSound
<1>7. \A j \in open' : sessions'[j] # None
  BY <1>1, <1>3, <1>4 DEF IInv, SessionsSound, TypeOK
<1> QED
  BY <1>2, <1>5, <1>6, <1>7 DEF SessionsSound

(* ... and the requests that rely on it can go on.                         *)
LEMMA RequestsStay ==
  ASSUME IInv, NEW i \in Ids, NEW s \in Session,
         sessions' = [sessions EXCEPT ![i] = s],
         sessions[i] = None \/ (/\ s.mode = sessions[i].mode /\ (sessions[i].ended => s.ended)
                                /\ s.mode \in ForwardOnly => s.cursor >= sessions[i].cursor),
         NEW u \in Tasks, sessions[i] # None \/ task[u].pc # "create"
  PROVE  RequestSound(task[u], sessions')
<1>1. sessions \in [Ids -> Session \cup {None}] /\ task[u].bars \in Times /\ task[u].engine \in Times
  BY DEF IInv, TypeOK
<1>2. RequestSound(task[u], sessions)
  BY DEF IInv, RequestsSound
<1> QED
  BY <1>1, <1>2, OthersKeepPace

(* A request goes on to the state k, with the lock as the code leaves it.  *)
LEMMA TypesStay ==
  ASSUME IInv, NEW t \in Tasks, NEW k \in Request, task' = [task EXCEPT ![t] = k],
         IF k.pc \in {"create", "ask"} THEN lock' = t /\ lock \in {None, t}
         ELSE lock' = IF lock = t THEN None ELSE lock,
         open' \subseteq drawn', drawn' \subseteq Ids, sessions' \in [Ids -> Session \cup {None}],
         shown' = None \/ shown' \in [mode : Modes, bars : Times, engine : Times, cursor : Nat,
                                     asked : Times, ended : BOOLEAN]
  PROVE  TypeOK'
<1>1. task \in [Tasks -> Request] /\ lock \in Tasks \cup {None}
      /\ \A u \in Tasks : task[u].pc \in {"create", "ask"} <=> lock = u
  BY DEF IInv, TypeOK, Request
<1>2. task' \in [Tasks -> Request]
  BY <1>1
<1>3. \A u \in Tasks : task'[u] = IF u = t THEN k ELSE task[u]
  BY <1>1
<1>4. lock' \in Tasks \cup {None}
  BY <1>1
<1>5. \A u \in Tasks : task'[u].pc \in {"create", "ask"} <=> lock' = u
  <2> SUFFICES ASSUME NEW u \in Tasks PROVE task'[u].pc \in {"create", "ask"} <=> lock' = u
    OBVIOUS
  <2>1. None # u /\ None # t
    BY Assumed
  <2>2. CASE u = t
    BY <1>3, <2>1, <2>2
  <2>3. CASE u # t
    BY <1>1, <1>3, <2>1, <2>3
  <2> QED
    BY <2>2, <2>3
<1> QED
  BY <1>2, <1>4, <1>5 DEF TypeOK, Request

LEMMA NothingShown ==
  ASSUME shown' = None
  PROVE  FutureIsHidden'
BY DEF FutureIsHidden, QuestionHidesItsAnswer, ForwardModesHideTheFuture

(* A request that is not in its locked part moves on; the sessions stay.   *)
LEMMA OnlyReads ==
  ASSUME IInv, NEW t \in Tasks, NEW k \in Request, task' = [task EXCEPT ![t] = k],
         k.pc \notin {"create", "ask"}, RequestSound(k, sessions),
         lock' = IF lock = t THEN None ELSE lock,
         UNCHANGED <<sessions, drawn>>, open' \in SUBSET open,
         shown' = None \/ shown' \in [mode : Modes, bars : Times, engine : Times, cursor : Nat,
                                     asked : Times, ended : BOOLEAN],
         FutureIsHidden'
  PROVE  IInv'
<1>1. open' \subseteq drawn' /\ drawn' \subseteq Ids /\ sessions' \in [Ids -> Session \cup {None}]
  BY DEF IInv, TypeOK
<1>2. TypeOK'
  BY <1>1, TypesStay
<1>3. \A u \in Tasks : task'[u] = IF u = t THEN k ELSE task[u]
  BY DEF IInv, TypeOK
<1>4. SessionsSound'
  BY DEF IInv, SessionsSound
<1>5. RequestsSound'
  BY <1>3 DEF IInv, RequestsSound
<1>6. RoomKept'
  BY <1>3, RoomStays
<1> QED
  BY <1>2, <1>4, <1>5, <1>6 DEF IInv

-----------------------------------------------------------------------------
(* Every action preserves the invariant.                                   *)
LEMMA InFuture ==
  ASSUME IInv, NEW t \in Tasks
  PROVE  /\ task[t] \in Request /\ RequestSound(task[t], sessions)
         /\ sessions \in [Ids -> Session \cup {None}] /\ open \subseteq drawn /\ drawn \subseteq Ids
         /\ lock = t <=> task[t].pc \in {"create", "ask"}
BY DEF IInv, TypeOK, RequestsSound, Request

(* A request that is told nothing leaves.                                  *)
LEMMA Leaves ==
  ASSUME IInv, NEW t \in Tasks, task' = [task EXCEPT ![t] = Idle],
         lock' = IF lock = t THEN None ELSE lock,
         shown' = None, UNCHANGED <<open, sessions, drawn>>
  PROVE  IInv'
<1>1. Idle \in Request /\ Idle.pc = "idle"
  BY IdleIs
<1>2. RequestSound(Idle, sessions)
  BY <1>1 DEF RequestSound
<1>3. FutureIsHidden'
  BY NothingShown
<1> QED
  BY <1>1, <1>2, <1>3, OnlyReads

LEMMA CreateFailsKeeps == ASSUME IInv, NEW t \in Tasks, CreateFails(t) PROVE IInv'
<1>1. lock = t
  BY InFuture DEF CreateFails
<1> QED
  BY <1>1, Leaves DEF CreateFails

LEMMA AskFailsKeeps == ASSUME IInv, NEW t \in Tasks, AskFails(t) PROVE IInv'
<1>1. lock = t
  BY InFuture DEF AskFails
<1> QED
  BY <1>1, Leaves DEF AskFails

LEMMA StateFailsKeeps == ASSUME IInv, NEW t \in Tasks, StateFails(t) PROVE IInv'
<1>1. lock # t
  BY InFuture DEF StateFails
<1> QED
  BY <1>1, Leaves DEF StateFails

LEMMA CreateChecksKeeps == ASSUME IInv, NEW t \in Tasks, CreateChecks(t) PROVE IInv'
<1>1. PICK i \in Ids \ drawn : /\ drawn' = drawn \cup {i}
                               /\ task' = [task EXCEPT ![t] = [Idle EXCEPT !.pc = "create", !.id = i]]
  BY Zenon DEF CreateChecks
<1> DEFINE k == [Idle EXCEPT !.pc = "create", !.id = i]
<1>2. k \in Request /\ k.pc = "create" /\ k.id = i
  BY <1>1 DEF Idle, Request, Times
<1>3. open' \in SUBSET open
  BY Expiring DEF CreateChecks
<1>4. task' = [task EXCEPT ![t] = k]
  BY <1>1
<1> HIDE DEF k
<1>5. lock = None /\ lock' = t /\ UNCHANGED sessions /\ shown' = None
  BY DEF CreateChecks, LockFree
<1>6. \A u \in Tasks : task[u].pc \notin {"create", "ask"}
  BY <1>5, Assumed DEF IInv, TypeOK
<1>7. TypeOK'
  <2>1. open' \subseteq drawn' /\ drawn' \subseteq Ids /\ sessions' \in [Ids -> Session \cup {None}]
    BY <1>1, <1>3, <1>5, InFuture
  <2> QED
    BY <1>2, <1>4, <1>5, <2>1, TypesStay
<1>8. \A u \in Tasks : task'[u] = IF u = t THEN k ELSE task[u]
  BY <1>4 DEF IInv, TypeOK
<1>9. SessionsSound'
  BY <1>1, <1>3, <1>5 DEF IInv, SessionsSound
<1>10. RequestsSound'
  <2>1. sessions[i] = None
    BY DEF IInv, SessionsSound
  <2>2. RequestSound(k, sessions)
    BY <1>2, <2>1 DEF RequestSound
  <2>3. \A u \in Tasks : RequestSound(task'[u], sessions')
    BY <1>5, <1>8, <2>2 DEF IInv, RequestsSound
  <2>4. \A u \in Tasks : task'[u].pc = "create" => task'[u].id \in drawn'
    BY <1>1, <1>2, <1>6, <1>8
  <2> QED
    BY <2>3, <2>4 DEF RequestsSound
<1>11. RoomKept'
  <2>1. IsFiniteSet(open') /\ Cardinality(open') \in Nat /\ Cardinality(open') < MaxSessions
    BY <1>3, Leaving DEF CreateChecks
  <2> QED
    BY <2>1, Assumed DEF RoomKept
<1>12. FutureIsHidden'
  BY <1>5, NothingShown
<1> QED
  BY <1>7, <1>9, <1>10, <1>11, <1>12 DEF IInv

LEMMA CreateInsertsKeeps == ASSUME IInv, NEW t \in Tasks, CreateInserts(t) PROVE IInv'
<1> DEFINE i == task[t].id
<1>1. PICK mode \in Modes, start \in 1 .. Now - 1 :
        /\ Closed(2, start) # {}
        /\ LET cursor == Greatest(Closed(2, start))
           IN  /\ \E asked \in IF mode = "QUIZ" THEN {cursor, None} ELSE {None} :
                    sessions' = [sessions EXCEPT ![task[t].id] =
                      [mode |-> mode, cursor |-> cursor, atEnd |-> FALSE,
                       ended |-> FALSE, asked |-> asked, index |-> 0, graded |-> <<>>]]
               /\ task' = [task EXCEPT ![t] = Loading(task[t].id, cursor)]
  BY DEF CreateInserts
<1> DEFINE cursor == Greatest(Closed(2, start))
<1>2. PICK asked \in IF mode = "QUIZ" THEN {cursor, None} ELSE {None} :
        sessions' = [sessions EXCEPT ![i] =
          [mode |-> mode, cursor |-> cursor, atEnd |-> FALSE,
           ended |-> FALSE, asked |-> asked, index |-> 0, graded |-> <<>>]]
  BY <1>1
<1> DEFINE s == [mode |-> mode, cursor |-> cursor, atEnd |-> FALSE,
                 ended |-> FALSE, asked |-> asked, index |-> 0, graded |-> <<>>]
           k == Loading(i, cursor)
<1>3. cursor \in Nat
  BY <1>1, StartIsABar
<1>4. task' = [task EXCEPT ![t] = k] /\ sessions' = [sessions EXCEPT ![i] = s]
  BY <1>1, <1>2
<1> HIDE DEF cursor
<1>5. s \in Session /\ s.mode = mode /\ s.cursor = cursor /\ ~s.ended
  BY <1>3 DEF Session
<1>6. GradedInTurn(s) /\ AskedHere(s)
  BY DEF GradedInTurn, AskedHere
<1> HIDE DEF s
<1>7. /\ task[t].pc = "create" /\ lock' = None /\ shown' = None /\ UNCHANGED drawn
      /\ open' = open \cup {i}
  BY DEF CreateInserts
<1>8. i \in drawn /\ i \in Ids /\ sessions[i] = None /\ lock = t
  BY <1>7, InFuture DEF IInv, RequestsSound, RequestSound
<1>9. \A u \in Tasks : u # t => task[u].pc # "create"
  BY <1>8 DEF IInv, TypeOK
<1>10. k \in Request /\ k.pc = "loaded" /\ k.id = i /\ k.bars = cursor /\ k.engine = None
  BY <1>3, <1>8, LoadingIs
<1> HIDE DEF k
<1>11. SessionsSound' /\ sessions' \in [Ids -> Session \cup {None}]
  BY <1>4, <1>5, <1>6, <1>7, <1>8, SessionsStay
<1>12. TypeOK'
  BY <1>4, <1>7, <1>8, <1>10, <1>11, TypesStay, InFuture
<1>13. \A u \in Tasks : task'[u] = IF u = t THEN k ELSE task[u]
  BY <1>4 DEF IInv, TypeOK
<1>14. RequestsSound'
  <2>1. sessions'[i] = s
    BY <1>4, <1>8, InFuture
  <2>2. RequestSound(k, sessions')
    BY <1>3, <1>5, <1>8, <1>10, <2>1, NoneAssumption DEF RequestSound, NotAhead
  <2>3. \A u \in Tasks : u # t => RequestSound(task[u], sessions')
    BY <1>4, <1>5, <1>8, <1>9, RequestsStay
  <2>4. \A u \in Tasks : RequestSound(task'[u], sessions')
    BY <1>13, <2>2, <2>3
  <2>5. \A u \in Tasks : task'[u].pc = "create" => task'[u].id \in drawn'
    BY <1>9, <1>10, <1>13
  <2> QED
    BY <2>4, <2>5 DEF RequestsSound
<1>15. RoomKept'
  <2>1. IsFiniteSet(open) /\ Cardinality(open) < MaxSessions /\ Cardinality(open) \in Nat
    BY <1>7, FS_CardinalityType DEF IInv, RoomKept
  <2>2. IsFiniteSet(open') /\ Cardinality(open') <= Cardinality(open) + 1 /\ Cardinality(open') \in Nat
    <3>1. IsFiniteSet(open \cup {i}) /\ Cardinality(open \cup {i}) \in {Cardinality(open), Cardinality(open) + 1}
      BY <2>1, FS_AddElement
    <3> QED
      BY <1>7, <2>1, <3>1
  <2>3. \A u \in Tasks : task'[u].pc # "create"
    BY <1>9, <1>10, <1>13
  <2> QED
    BY <2>1, <2>2, <2>3, Assumed DEF RoomKept
<1>16. FutureIsHidden'
  BY <1>7, NothingShown
<1> QED
  BY <1>11, <1>12, <1>14, <1>15, <1>16 DEF IInv

(* A session that is there goes on to s.                                   *)
LEMMA SessionGoesOn ==
  ASSUME IInv, NEW i \in Ids, sessions[i] # None,
         NEW s \in Session, GradedInTurn(s), AskedHere(s),
         s.mode = sessions[i].mode, sessions[i].ended => s.ended,
         s.mode \in ForwardOnly => s.cursor >= sessions[i].cursor,
         sessions' = [sessions EXCEPT ![i] = s], drawn' = drawn, open' \in SUBSET open, shown' = None,
         NEW k, RequestSound(k, sessions'), k.pc # "create",
         \A u \in Tasks : task'[u] = task[u] \/ task'[u] = k,
         sessions' \in [Ids -> Session \cup {None}] => TypeOK'
  PROVE  IInv'
<1>1. i \in drawn
  BY DEF IInv, SessionsSound
<1>2. SessionsSound' /\ sessions' \in [Ids -> Session \cup {None}]
  BY <1>1, SessionsStay
<1>3. TypeOK'
  BY <1>2
<1>4. \A u \in Tasks : RequestSound(task[u], sessions')
  BY RequestsStay
<1>5. RequestsSound'
  BY <1>4 DEF IInv, RequestsSound
<1>6. RoomKept'
  BY RoomStays
<1>7. FutureIsHidden'
  BY NothingShown
<1> QED
  BY <1>2, <1>3, <1>5, <1>6, <1>7 DEF IInv

(* The session of a key.                                                   *)
LEMMA OpenIs ==
  ASSUME IInv, NEW i \in open
  PROVE  /\ i \in Ids /\ i \in drawn /\ sessions[i] # None /\ sessions[i] \in Session
         /\ GradedInTurn(sessions[i]) /\ AskedHere(sessions[i])
         /\ sessions[i].cursor \in Nat /\ sessions[i].index \in Nat /\ sessions[i].mode \in Modes
         /\ sessions[i].ended \in BOOLEAN
<1>1. i \in Ids /\ i \in drawn /\ sessions[i] # None /\ sessions[i] \in Session
  BY DEF IInv, TypeOK, SessionsSound
<1> QED
  BY <1>1 DEF IInv, SessionsSound, SessionSound, Session

LEMMA StepKeeps == ASSUME IInv, NEW t \in Tasks, Step(t) PROVE IInv'
<1>1. PICK i \in open, n \in (-MaxStep .. MaxStep) \ {0} :
        /\ Expires({i})
        /\ ~sessions[i].ended /\ sessions[i].mode # "QUIZ"
        /\ n < 0 => sessions[i].mode \notin ForwardOnly
        /\ sessions' = [sessions EXCEPT ![i] = Moved(@, n)]
        /\ task' = [task EXCEPT ![t] = Loading(i, Moved(sessions[i], n).cursor)]
  BY Zenon DEF Step
<1>2. /\ i \in Ids /\ sessions[i] # None /\ sessions[i] \in Session
      /\ GradedInTurn(sessions[i]) /\ AskedHere(sessions[i])
  BY OpenIs
<1> DEFINE s == Moved(sessions[i], n)
           k == Loading(i, s.cursor)
<1>3. n \in Int /\ n # 0
  BY Assumed
<1>4. /\ s \in Session /\ s.mode = sessions[i].mode /\ s.ended = sessions[i].ended
      /\ s.asked = sessions[i].asked /\ s.index = sessions[i].index /\ s.graded = sessions[i].graded
      /\ s.mode \in ForwardOnly => s.cursor >= sessions[i].cursor
  BY <1>1, <1>2, <1>3, MovedIs
<1>5. sessions' = [sessions EXCEPT ![i] = s] /\ task' = [task EXCEPT ![t] = k]
  BY <1>1, Zenon
<1> HIDE DEF s
<1>6. GradedInTurn(s) /\ AskedHere(s)
  BY <1>1, <1>2, <1>4 DEF GradedInTurn, AskedHere
<1>7. s.cursor \in Nat
  BY <1>4 DEF Session
<1>8. k \in Request /\ k.pc = "loaded" /\ k.id = i /\ k.bars = s.cursor /\ k.engine = None
  BY <1>2, <1>7, LoadingIs
<1> HIDE DEF k
<1>9. open' \in SUBSET open /\ shown' = None /\ drawn' = drawn /\ lock' = lock /\ lock = None
  BY <1>1, Expiring DEF Step, LockFree
<1>10. sessions' \in [Ids -> Session \cup {None}] => TypeOK'
  <2>1. open' \subseteq drawn' /\ drawn' \subseteq Ids
    BY <1>9, InFuture
  <2>2. k.pc \notin {"create", "ask"} /\ (lock' = IF lock = t THEN None ELSE lock)
    BY <1>8, <1>9
  <2> QED
    BY <1>5, <1>8, <1>9, <2>1, <2>2, TypesStay
<1>11. RequestSound(k, sessions')
  <2>1. sessions'[i] = s
    BY <1>2, <1>5, InFuture
  <2> QED
    BY <1>2, <1>4, <1>7, <1>8, <2>1, NoneAssumption DEF RequestSound, NotAhead
<1>12. \A u \in Tasks : task'[u] = IF u = t THEN k ELSE task[u]
  BY <1>5 DEF IInv, TypeOK
<1>13. k.pc # "create" /\ \A u \in Tasks : task'[u] = task[u] \/ task'[u] = k
  BY <1>8, <1>11, <1>12
<1> QED
  BY <1>2, <1>4, <1>5, <1>6, <1>9, <1>10, <1>11, <1>13, SessionGoesOn

LEMMA AnswersKeeps == ASSUME IInv, NEW t \in Tasks, Answers(t) PROVE IInv'
<1>0. PICK i \in open : \E question \in 0 .. sessions[i].index :
        LET s == sessions[i]
        IN  /\ Expires({i})
            /\ s.mode = "QUIZ" /\ ~s.ended /\ IsOpen(s, question)
            /\ sessions' = [sessions EXCEPT ![i] =
                 Closing([Moved(s, Horizon) EXCEPT
                            !.graded = Append(@, <<question, s.index>>), !.index = @ + 1])]
            /\ task' = [task EXCEPT ![t] = [Idle EXCEPT !.pc = "ask", !.id = i]]
  BY Zenon DEF Answers
<1>1. PICK question \in 0 .. sessions[i].index :
        /\ Expires({i})
        /\ sessions[i].mode = "QUIZ" /\ ~sessions[i].ended /\ IsOpen(sessions[i], question)
        /\ sessions' = [sessions EXCEPT ![i] =
             Closing([Moved(sessions[i], Horizon) EXCEPT
                        !.graded = Append(@, <<question, sessions[i].index>>), !.index = @ + 1])]
        /\ task' = [task EXCEPT ![t] = [Idle EXCEPT !.pc = "ask", !.id = i]]
  BY <1>0, Zenon
<1>2. /\ i \in Ids /\ sessions[i] # None /\ sessions[i] \in Session
      /\ GradedInTurn(sessions[i]) /\ AskedHere(sessions[i]) /\ sessions[i].index \in Nat
  BY OpenIs
<1> DEFINE m == Moved(sessions[i], Horizon)
           s == [m EXCEPT !.graded = Append(m.graded, <<question, sessions[i].index>>),
                          !.index = m.index + 1, !.asked = None]
           k == [Idle EXCEPT !.pc = "ask", !.id = i]
<1>3. /\ m \in Session /\ m.mode = sessions[i].mode /\ m.ended = sessions[i].ended
      /\ m.index = sessions[i].index /\ m.graded = sessions[i].graded
      /\ m.mode \in ForwardOnly => m.cursor >= sessions[i].cursor
  BY <1>2, MovedIs, Assumed
<1>4. sessions' = [sessions EXCEPT ![i] = s] /\ task' = [task EXCEPT ![t] = k]
  <2> HIDE DEF m
  <2>1. Closing([m EXCEPT !.graded = Append(@, <<question, sessions[i].index>>), !.index = @ + 1]) = s
    BY <1>3 DEF Closing, Session
  <2> HIDE DEF s
  <2> QED
    BY <1>1, <2>1, Zenon DEF m
<1> HIDE DEF m
<1>5. question \in Nat /\ question = sessions[i].index /\ m.graded \in Seq(Nat \X Nat) /\ m.index \in Nat
  BY <1>1, <1>2, <1>3 DEF IsOpen, Session
<1>6. Append(m.graded, <<question, sessions[i].index>>) \in Seq(Nat \X Nat)
  BY <1>2, <1>5
<1>7. /\ s \in Session /\ s.mode = m.mode /\ s.cursor = m.cursor /\ s.ended = m.ended /\ s.asked = None
      /\ s.graded = Append(m.graded, <<question, sessions[i].index>>) /\ s.index = m.index + 1
  <2> DEFINE g == Append(m.graded, <<question, sessions[i].index>>)
  <2>1. g \in Seq(Nat \X Nat)
    BY <1>6
  <2> HIDE DEF g
  <2>2. s = [m EXCEPT !.graded = g, !.index = m.index + 1, !.asked = None]
    BY DEF g
  <2> HIDE DEF s
  <2>3. m.index + 1 \in Nat
    BY <1>5
  <2>4. s \in Session /\ s.mode = m.mode /\ s.cursor = m.cursor /\ s.ended = m.ended /\ s.asked = None
        /\ s.graded = g /\ s.index = m.index + 1
    BY <1>3, <2>1, <2>2, <2>3 DEF Session
  <2> QED
    BY <2>4 DEF g
<1> HIDE DEF s
<1>8. GradedInTurn(s) /\ AskedHere(s)
  <2>1. Len(m.graded) = m.index /\ \A n \in 1 .. Len(m.graded) : m.graded[n] = <<n - 1, n - 1>>
    BY <1>2, <1>3 DEF GradedInTurn
  <2>2. s.graded = Append(m.graded, <<m.index, m.index>>)
    BY <1>3, <1>5, <1>7
  <2>3. Len(s.graded) = m.index + 1
    BY <1>5, <2>1, <2>2
  <2>4. \A n \in 1 .. Len(s.graded) : s.graded[n] = <<n - 1, n - 1>>
    <3> SUFFICES ASSUME NEW n \in 1 .. Len(s.graded) PROVE s.graded[n] = <<n - 1, n - 1>>
      OBVIOUS
    <3>1. CASE n = m.index + 1
      BY <1>5, <2>1, <2>2, <3>1
    <3>2. CASE n \in 1 .. m.index
      <4>1. s.graded[n] = m.graded[n]
        BY <1>5, <2>1, <2>2, <3>2
      <4> QED
        BY <2>1, <3>2, <4>1
    <3> QED
      BY <1>5, <2>3, <3>1, <3>2
  <2> QED
    BY <1>7, <2>3, <2>4 DEF GradedInTurn, AskedHere
<1>9. k \in Request /\ k.pc = "ask" /\ k.id = i
  BY <1>2 DEF Idle, Request, Times
<1> HIDE DEF k
<1>10. open' \in SUBSET open /\ shown' = None /\ drawn' = drawn /\ lock' = t /\ lock = None
  BY <1>1, Expiring DEF Answers, LockFree
<1>11. sessions' \in [Ids -> Session \cup {None}] => TypeOK'
  <2>1. open' \subseteq drawn' /\ drawn' \subseteq Ids
    BY <1>10, InFuture
  <2> QED
    BY <1>4, <1>9, <1>10, <2>1, TypesStay
<1>12. RequestSound(k, sessions')
  <2>1. sessions'[i] = s
    BY <1>2, <1>4, InFuture
  <2> QED
    BY <1>1, <1>2, <1>3, <1>7, <1>9, <2>1, NoneAssumption DEF RequestSound
<1>13. \A u \in Tasks : task'[u] = IF u = t THEN k ELSE task[u]
  BY <1>4 DEF IInv, TypeOK
<1>14. k.pc # "create" /\ \A u \in Tasks : task'[u] = task[u] \/ task'[u] = k
  BY <1>9, <1>12, <1>13
<1>15. /\ s.mode = sessions[i].mode /\ (sessions[i].ended => s.ended)
       /\ s.mode \in ForwardOnly => s.cursor >= sessions[i].cursor
  BY <1>3, <1>7
<1> QED
  BY <1>2, <1>4, <1>7, <1>8, <1>10, <1>11, <1>12, <1>14, <1>15, SessionGoesOn

LEMMA AsksKeeps == ASSUME IInv, NEW t \in Tasks, Asks(t) PROVE IInv'
<1> DEFINE i == task[t].id
           o == sessions[i]
<1>1. PICK built \in BOOLEAN :
        /\ sessions' = [sessions EXCEPT ![i].asked = IF built /\ ~o.atEnd THEN o.cursor ELSE None]
        /\ task' = [task EXCEPT ![t] = Loading(i, o.cursor)]
  BY Zenon DEF Asks
<1>2. task[t].pc = "ask" /\ shown' = None /\ UNCHANGED <<open, drawn>> /\ lock' = None
  BY DEF Asks
<1>3. i \in Ids /\ o # None /\ o.mode = "QUIZ" /\ lock = t
  BY <1>2, InFuture DEF RequestSound
<1>4. o \in Session /\ GradedInTurn(o)
  BY <1>3 DEF IInv, TypeOK, SessionsSound, SessionSound
<1> DEFINE s == [o EXCEPT !.asked = IF built /\ ~o.atEnd THEN o.cursor ELSE None]
           k == Loading(i, o.cursor)
<1>5. sessions' = [sessions EXCEPT ![i] = s] /\ task' = [task EXCEPT ![t] = k]
  BY <1>1, Zenon
<1> HIDE DEF o
<1>6. o.cursor \in Nat
  BY <1>4 DEF Session
<1>7. /\ s \in Session /\ s.mode = o.mode /\ s.cursor = o.cursor /\ s.ended = o.ended
      /\ s.graded = o.graded /\ s.index = o.index /\ s.asked \in {o.cursor, None}
  BY <1>4, <1>6 DEF Session
<1> HIDE DEF s
<1>8. GradedInTurn(s) /\ AskedHere(s)
  BY <1>3, <1>4, <1>7 DEF GradedInTurn, AskedHere
<1>9. k \in Request /\ k.pc = "loaded" /\ k.id = i /\ k.bars = o.cursor /\ k.engine = None
  BY <1>3, <1>6, LoadingIs
<1> HIDE DEF k
<1>10. sessions' \in [Ids -> Session \cup {None}] => TypeOK'
  <2>1. open' \subseteq drawn' /\ drawn' \subseteq Ids
    BY <1>2, InFuture
  <2>2. k.pc \notin {"create", "ask"} /\ (lock' = IF lock = t THEN None ELSE lock)
    BY <1>2, <1>3, <1>9
  <2> QED
    BY <1>2, <1>5, <1>9, <2>1, <2>2, TypesStay
<1>11. RequestSound(k, sessions')
  <2>1. sessions'[i] = s
    BY <1>3, <1>5, InFuture
  <2> QED
    BY <1>3, <1>6, <1>7, <1>9, <2>1, NoneAssumption DEF RequestSound, NotAhead
<1>12. \A u \in Tasks : task'[u] = IF u = t THEN k ELSE task[u]
  BY <1>5 DEF IInv, TypeOK
<1>13. k.pc # "create" /\ \A u \in Tasks : task'[u] = task[u] \/ task'[u] = k
  BY <1>9, <1>12
<1>14. /\ s.mode = sessions[i].mode /\ (sessions[i].ended => s.ended)
       /\ s.mode \in ForwardOnly => s.cursor >= sessions[i].cursor
       /\ sessions[i] # None
  BY <1>3, <1>6, <1>7 DEF o
<1>15. open' \in SUBSET open /\ drawn' = drawn
  BY <1>2
<1> QED
  BY <1>2, <1>3, <1>5, <1>7, <1>8, <1>10, <1>11, <1>13, <1>14, <1>15, SessionGoesOn

LEMMA EndKeeps == ASSUME IInv, End PROVE IInv'
<1>1. PICK i \in open :
        /\ Expires({i})
        /\ sessions' = [sessions EXCEPT ![i] = [@ EXCEPT !.ended = TRUE, !.asked = None]]
  BY Zenon DEF End
<1>2. /\ i \in Ids /\ sessions[i] # None /\ sessions[i] \in Session
      /\ GradedInTurn(sessions[i]) /\ sessions[i].cursor \in Nat
  BY OpenIs
<1> DEFINE s == [sessions[i] EXCEPT !.ended = TRUE, !.asked = None]
<1>3. sessions' = [sessions EXCEPT ![i] = s]
  BY <1>1, Zenon
<1>4. /\ s \in Session /\ s.mode = sessions[i].mode /\ s.cursor = sessions[i].cursor /\ s.ended
      /\ s.graded = sessions[i].graded /\ s.index = sessions[i].index /\ s.asked = None
  BY <1>2 DEF Session
<1> HIDE DEF s
<1>5. GradedInTurn(s) /\ AskedHere(s)
  BY <1>2, <1>4 DEF GradedInTurn, AskedHere
<1>6. open' \in SUBSET open /\ shown' = None /\ drawn' = drawn /\ lock' = lock /\ task' = task
  BY <1>1, Expiring DEF End
<1>7. sessions' \in [Ids -> Session \cup {None}] => TypeOK'
  BY <1>6 DEF IInv, TypeOK
<1>8. Idle.pc # "create" /\ RequestSound(Idle, sessions')
  BY IdleIs DEF RequestSound
<1>9. \A u \in Tasks : task'[u] = task[u] \/ task'[u] = Idle
  BY <1>6
<1>10. s.mode \in ForwardOnly => s.cursor >= sessions[i].cursor
  BY <1>2, <1>4
<1> QED
  BY <1>2, <1>3, <1>4, <1>5, <1>6, <1>7, <1>8, <1>9, <1>10, SessionGoesOn

(* Sessions go, and nothing else happens.                                  *)
LEMMA Dropping ==
  ASSUME IInv, open' \in SUBSET open, shown' = None, UNCHANGED <<sessions, drawn, lock, task>>
  PROVE  IInv'
<1>1. TypeOK' /\ SessionsSound' /\ RequestsSound'
  BY DEF IInv, TypeOK, SessionsSound, RequestsSound
<1>2. RoomKept' /\ FutureIsHidden'
  BY RoomStays, NothingShown
<1> QED
  BY <1>1, <1>2 DEF IInv

LEMMA DeleteKeeps == ASSUME IInv, Delete PROVE IInv'
<1>1. open' \in SUBSET open
  BY DEF Delete
<1> QED
  BY <1>1, Dropping DEF Delete

LEMMA ExpireKeeps == ASSUME IInv, Expire PROVE IInv'
<1>1. open' \in SUBSET open
  BY Expiring DEF Expire
<1> QED
  BY <1>1, Dropping DEF Expire

LEMMA StateLoadsKeeps == ASSUME IInv, NEW t \in Tasks, StateLoads(t) PROVE IInv'
<1>1. PICK i \in open : Expires({i}) /\ task' = [task EXCEPT ![t] = Loading(i, sessions[i].cursor)]
  BY Zenon DEF StateLoads
<1>2. i \in Ids /\ sessions[i] # None /\ sessions[i].cursor \in Nat
  BY OpenIs
<1> DEFINE k == Loading(i, sessions[i].cursor)
<1>3. /\ k \in Request /\ k.pc = "loaded" /\ k.id = i
      /\ k.bars = sessions[i].cursor /\ k.engine = None
  BY <1>2, LoadingIs
<1>4. task' = [task EXCEPT ![t] = k]
  BY <1>1
<1> HIDE DEF k
<1>5. RequestSound(k, sessions)
  BY <1>2, <1>3 DEF RequestSound, NotAhead
<1>6. open' \in SUBSET open
  BY <1>1, Expiring
<1>7. task[t].pc # "create" /\ task[t].pc # "ask" /\ shown' = None /\ UNCHANGED <<sessions, drawn, lock>>
  BY IdleIs DEF StateLoads
<1>8. lock' = IF lock = t THEN None ELSE lock
  BY <1>7, InFuture
<1>9. FutureIsHidden'
  BY <1>7, NothingShown
<1> QED
  BY <1>3, <1>4, <1>5, <1>6, <1>7, <1>8, <1>9, OnlyReads

LEMMA StateAnalysesKeeps == ASSUME IInv, NEW t \in Tasks, StateAnalyses(t) PROVE IInv'
<1> DEFINE i == task[t].id
           k == [task[t] EXCEPT !.pc = "analysed", !.engine = sessions[i].cursor]
<1>1. task[t].pc = "loaded" /\ ShowsEngine(sessions[i]) /\ shown' = None
      /\ UNCHANGED <<open, sessions, drawn, lock>>
  BY DEF StateAnalyses
<1>2. task' = [task EXCEPT ![t] = k]
  BY Zenon DEF StateAnalyses
<1>3. task[t] \in Request /\ i \in Ids /\ sessions[i] # None /\ NotAhead(task[t], sessions[i])
  BY <1>1, InFuture DEF RequestSound
<1>4. sessions[i].cursor \in Nat
  <2>1. sessions[i] \in Session
    BY <1>3, InFuture
  <2> QED
    BY <2>1 DEF Session
<1>5. k \in Request /\ k.pc = "analysed" /\ k.id = i /\ k.engine = sessions[i].cursor /\ k.bars = task[t].bars
  BY <1>3, <1>4 DEF Request, Times
<1> HIDE DEF k
<1>6. NotAhead(k, sessions[i])
  BY <1>1, <1>3, <1>4, <1>5 DEF NotAhead, ShowsEngine
<1>7. RequestSound(k, sessions)
  BY <1>3, <1>5, <1>6 DEF RequestSound
<1>8. lock' = IF lock = t THEN None ELSE lock
  BY <1>1, InFuture
<1>9. FutureIsHidden'
  BY <1>1, NothingShown
<1>10. open' \in SUBSET open
  BY <1>1
<1> QED
  BY <1>1, <1>2, <1>5, <1>7, <1>8, <1>9, <1>10, OnlyReads

(* An open question was asked at the cursor, and its session only moves    *)
(* forward: what was read on the way is not past it.                       *)
LEMMA StateReturnsKeeps == ASSUME IInv, NEW t \in Tasks, StateReturns(t) PROVE IInv'
<1> DEFINE s == sessions[task[t].id]
<1>1. /\ task[t].pc \in {"loaded", "analysed"} /\ shown' = View(t)
      /\ task' = [task EXCEPT ![t] = Idle] /\ UNCHANGED <<open, sessions, drawn, lock>>
  BY DEF StateReturns
<1>2. task[t] \in Request /\ task[t].id \in Ids /\ s # None /\ NotAhead(task[t], s)
  BY <1>1, InFuture DEF RequestSound
<1>3. s \in Session /\ AskedHere(s)
  BY <1>2, InFuture DEF IInv, SessionsSound, SessionSound
<1>4. shown' = [mode |-> s.mode, bars |-> task[t].bars, engine |-> task[t].engine, cursor |-> s.cursor,
                asked |-> s.asked, ended |-> s.ended]
  BY <1>1 DEF View
<1> HIDE DEF s
<1>5. shown' \in [mode : Modes, bars : Times, engine : Times, cursor : Nat, asked : Times, ended : BOOLEAN]
  BY <1>2, <1>3, <1>4 DEF Session, Request, Times
<1>6. FutureIsHidden'
  <2>1. QuestionHidesItsAnswer'
    BY <1>2, <1>3, <1>4 DEF QuestionHidesItsAnswer, AskedHere, NotAhead, ForwardOnly
  <2>2. ForwardModesHideTheFuture'
    BY <1>2, <1>3, <1>4 DEF ForwardModesHideTheFuture, NotAhead
  <2> QED
    BY <2>1, <2>2 DEF FutureIsHidden
<1>7. lock' = IF lock = t THEN None ELSE lock
  BY <1>1, InFuture
<1>8. Idle \in Request /\ Idle.pc = "idle" /\ RequestSound(Idle, sessions)
  BY IdleIs DEF RequestSound
<1>9. open' \in SUBSET open
  BY <1>1
<1> QED
  BY <1>1, <1>5, <1>6, <1>7, <1>8, <1>9, OnlyReads

LEMMA InitHolds == Init => IInv
<1> SUFFICES ASSUME Init PROVE IInv
  OBVIOUS
<1>1. Idle \in Request /\ Idle.pc = "idle"
  BY IdleIs
<1>2. TypeOK
  <2>1. \A t \in Tasks : task[t] = Idle /\ lock # t
    BY Assumed DEF Init
  <2>2. \A t \in Tasks : task[t].pc \in {"create", "ask"} <=> lock = t
    BY <1>1, <2>1
  <2>3. task \in [Tasks -> Request] /\ sessions \in [Ids -> Session \cup {None}]
    BY <1>1 DEF Init
  <2> QED
    BY <2>2, <2>3 DEF Init, TypeOK, Request
<1>3. SessionsSound
  BY DEF Init, SessionsSound, SessionSound
<1>4. RequestsSound
  BY <1>1 DEF Init, RequestsSound, RequestSound
<1>5. RoomKept
  BY <1>1, FS_EmptySet, Assumed DEF Init, RoomKept
<1>6. FutureIsHidden
  BY DEF Init, FutureIsHidden, QuestionHidesItsAnswer, ForwardModesHideTheFuture
<1> QED
  BY <1>2, <1>3, <1>4, <1>5, <1>6 DEF IInv

LEMMA NextKeeps == IInv /\ [Next]_vars => IInv'
<1> SUFFICES ASSUME IInv, [Next]_vars PROVE IInv'
  OBVIOUS
<1>1. ASSUME NEW t \in Tasks,
             CreateChecks(t) \/ CreateInserts(t) \/ CreateFails(t) \/ Step(t) \/ Answers(t) \/ Asks(t)
             \/ AskFails(t) \/ StateLoads(t) \/ StateAnalyses(t) \/ StateReturns(t) \/ StateFails(t)
      PROVE  IInv'
  BY <1>1, CreateChecksKeeps, CreateInsertsKeeps, CreateFailsKeeps, StepKeeps, AnswersKeeps, AsksKeeps,
     AskFailsKeeps, StateLoadsKeeps, StateAnalysesKeeps, StateReturnsKeeps, StateFailsKeeps
<1>2. CASE End \/ Delete \/ Expire
  BY <1>2, EndKeeps, DeleteKeeps, ExpireKeeps
<1>3. CASE UNCHANGED vars
  <2>1. TypeOK' /\ SessionsSound' /\ RequestsSound' /\ RoomKept'
    BY <1>3 DEF IInv, vars, TypeOK, SessionsSound, RequestsSound, RoomKept
  <2>2. FutureIsHidden'
    BY <1>3 DEF IInv, vars, FutureIsHidden, QuestionHidesItsAnswer, ForwardModesHideTheFuture
  <2> QED
    BY <2>1, <2>2 DEF IInv
<1> QED
  BY <1>1, <1>2, <1>3 DEF Next

-----------------------------------------------------------------------------
(* Theorems                                                                *)

(* The inductive invariant holds in every state.                           *)
THEOREM InvariantHolds == Spec => []IInv
<1> QED
  BY InitHolds, NextKeeps, PTL DEF Spec

(* However creates interleave with each other and with the expiry of       *)
(* sessions, no more than maxSessions are kept: the room create checks for *)
(* is still there when it inserts, because the lock is held throughout.    *)
THEOREM SessionsAreCapped == Spec => []SessionCap
<1>1. IInv => SessionCap
  BY DEF IInv, RoomKept, SessionCap
<1> QED
  BY <1>1, InvariantHolds, PTL

(* No view computed without the lock, over its two awaits, tells what its  *)
(* reader is not to know: nothing past an open question, nothing past the  *)
(* cursor in the modes that only move forward, and no engine in a blind    *)
(* session that goes on.                                                   *)
THEOREM TheFutureIsHidden == Spec => []FutureIsHidden
<1>1. IInv => FutureIsHidden
  BY DEF IInv
<1> QED
  BY <1>1, InvariantHolds, PTL

(* A late or repeated answer is not graded: the n-th grade is for the n-th *)
(* question.                                                               *)
THEOREM AnswersAreGradedOnce == Spec => []GradedOnce
<1>1. ASSUME IInv PROVE GradedOnce
  <2>1. \A i \in open : GradedInTurn(sessions[i])
    BY <1>1, OpenIs
  <2> QED
    BY <2>1 DEF GradedOnce, GradedInTurn
<1> QED
  BY <1>1, InvariantHolds, PTL
=============================================================================
