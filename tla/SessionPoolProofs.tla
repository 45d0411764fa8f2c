------------------------- MODULE SessionPoolProofs -------------------------
(***************************************************************************)
(* Proofs about SessionPool for every number of callers and sessions, every*)
(* size and every configuration the theorem names.                         *)
(***************************************************************************)
EXTENDS SessionPool, FiniteSetTheorems, SequenceTheorems, TLAPS

-----------------------------------------------------------------------------
(* Sequences: what the operators of #idle and #waiters return.             *)

(* pop() *)
LEMMA PopType ==
  ASSUME NEW S, NEW q \in Seq(S), q # <<>>
  PROVE  /\ Front(q) \in Seq(S)
         /\ Last(q) \in S
         /\ Len(Front(q)) = Len(q) - 1
         /\ \A i \in 1..Len(q) - 1 : Front(q)[i] = q[i]
<1>1. Len(q) \in Nat \ {0}
  BY EmptySeq
<1>2. Last(q) \in S
  BY <1>1, ElementOfSeq DEF Last
<1>3. \A i \in 1..Len(q) - 1 : q[i] \in S
  BY <1>1, ElementOfSeq
<1>4. Front(q) \in Seq(S)
  <2>1. 1 \in Int /\ Len(q) - 1 \in Int
    BY <1>1
  <2>2. QED
    BY <1>3, <2>1, SubSeqProperties DEF Front
<1>5. Len(Front(q)) = Len(q) - 1 /\ \A i \in 1..Len(q) - 1 : Front(q)[i] = q[i]
  <2> DEFINE n == Len(q) - 1
  <2>1. n \in Nat /\ (IF 1 <= n THEN n - 1 + 1 ELSE 0) = n /\ n - 1 + 1 = n
    <3>1. \A k \in Nat : (IF 1 <= k THEN k - 1 + 1 ELSE 0) = k /\ k - 1 + 1 = k
      OBVIOUS
    <3>2. n \in Nat
      BY <1>1
    <3>3. QED
      BY <3>1, <3>2
  <2>2. \A i \in 1..n : 1 + i - 1 = i
    BY <2>1
  <2>3. /\ Len(SubSeq(q, 1, n)) = IF 1 <= n THEN n - 1 + 1 ELSE 0
        /\ \A i \in 1..n - 1 + 1 : SubSeq(q, 1, n)[i] = q[1 + i - 1]
    BY <1>3, <2>1, SubSeqProperties
  <2>4. QED
    BY <2>1, <2>2, <2>3 DEF Front
<1>6. QED
  BY <1>2, <1>4, <1>5

(* the filter of the timer *)
LEMMA RemoveType ==
  ASSUME NEW S, NEW q \in Seq(S), NEW i \in DOMAIN q
  PROVE  RemoveAt(q, i) \in Seq(S)
<1>1. i \in 1..Len(q) /\ Len(q) \in Nat
  BY LenProperties
<1>2. SubSeq(q, 1, i - 1) \in Seq(S)
  <2>1. \A k \in 1..i - 1 : q[k] \in S
    BY <1>1, ElementOfSeq
  <2>2. QED
    BY <1>1, <2>1, SubSeqProperties
<1>3. SubSeq(q, i + 1, Len(q)) \in Seq(S)
  <2>1. \A k \in i + 1..Len(q) : q[k] \in S
    BY <1>1, ElementOfSeq
  <2>2. QED
    BY <1>1, <2>1, SubSeqProperties
<1>4. QED
  BY <1>2, <1>3, ConcatProperties DEF RemoveAt

LEMMA ShorterRange == \A n \in Nat \ {0}, i \in Int : i \in 1..n - 1 <=> i \in 1..n /\ i # n
OBVIOUS

(* pop() takes out the one occurrence of the session it returns. *)
LEMMA PopSet ==
  ASSUME NEW S, NEW q \in Seq(S), q # <<>>, IsInjective(q)
  PROVE  /\ ToSet(Front(q)) = ToSet(q) \ {Last(q)}
         /\ Last(q) \in ToSet(q)
         /\ IsInjective(Front(q))
<1>1. /\ Len(q) \in Nat \ {0} /\ DOMAIN q = 1..Len(q)
      /\ DOMAIN Front(q) = 1..Len(q) - 1
      /\ \A i \in 1..Len(q) - 1 : Front(q)[i] = q[i]
  <2>1. Front(q) \in Seq(S) /\ Len(Front(q)) = Len(q) - 1
    BY PopType
  <2>2. QED
    BY <2>1, PopType, EmptySeq, LenProperties
<1>2. ASSUME NEW i \in 1..Len(q) PROVE q[i] = Last(q) <=> i = Len(q)
  <2>1. i \in DOMAIN q /\ Len(q) \in DOMAIN q
    BY <1>1
  <2>2. QED
    BY <2>1 DEF IsInjective, Last
<1>3. Last(q) \in ToSet(q)
  BY <1>1 DEF Last, ToSet
<1>4. ASSUME NEW s \in ToSet(Front(q)) PROVE s \in ToSet(q) \ {Last(q)}
  <2>1. PICK i \in 1..Len(q) - 1 : s = Front(q)[i]
    BY <1>1 DEF ToSet
  <2>2. s = q[i] /\ i \in 1..Len(q) /\ i # Len(q)
    <3>1. i \in Int /\ Len(q) \in Nat \ {0}
      BY <1>1
    <3>2. QED
      BY ShorterRange, <1>1, <2>1, <3>1
  <2>3. s # Last(q)
    BY <1>2, <2>2
  <2>4. QED
    BY <1>1, <2>2, <2>3 DEF ToSet
<1>5. ASSUME NEW s \in ToSet(q) \ {Last(q)} PROVE s \in ToSet(Front(q))
  <2>1. PICK i \in 1..Len(q) : s = q[i]
    BY <1>1 DEF ToSet
  <2>2. i # Len(q)
    BY <1>2, <2>1
  <2>3. i \in 1..Len(q) - 1 /\ s = Front(q)[i]
    <3>1. i \in Int /\ Len(q) \in Nat \ {0}
      BY <1>1
    <3>2. QED
      BY ShorterRange, <1>1, <2>1, <2>2, <3>1
  <2>4. QED
    BY <1>1, <2>3 DEF ToSet
<1>6. IsInjective(Front(q))
  BY <1>1 DEF IsInjective
<1>7. QED
  BY <1>3, <1>4, <1>5, <1>6

(* push() *)
LEMMA PushSet ==
  ASSUME NEW S, NEW q \in Seq(S), NEW e \in S
  PROVE  /\ ToSet(Append(q, e)) = ToSet(q) \cup {e}
         /\ IsInjective(q) /\ e \notin ToSet(q) => IsInjective(Append(q, e))
<1>1. /\ Len(q) \in Nat /\ DOMAIN q = 1..Len(q)
      /\ DOMAIN Append(q, e) = 1..Len(q) + 1
      /\ \A i \in 1..Len(q) : Append(q, e)[i] = q[i]
      /\ Append(q, e)[Len(q) + 1] = e
  BY AppendProperties, LenProperties
<1>2. \A i \in 1..Len(q) + 1 : i \in 1..Len(q) \/ i = Len(q) + 1
  BY <1>1
<1>3. ToSet(Append(q, e)) \subseteq ToSet(q) \cup {e}
  BY <1>1, <1>2 DEF ToSet
<1>4. ToSet(q) \cup {e} \subseteq ToSet(Append(q, e))
  BY <1>1 DEF ToSet
<1>5. ASSUME IsInjective(q), e \notin ToSet(q) PROVE IsInjective(Append(q, e))
  BY <1>1, <1>2, <1>5 DEF IsInjective, ToSet
<1>6. QED
  BY <1>3, <1>4, <1>5

-----------------------------------------------------------------------------
(* Type correctness                                                        *)

LEMMA LessType == ASSUME created \in Int, NEW n \in Int PROVE Less(n) \in Int
BY DEF Less

LEMMA CheckOutType ==
  ASSUME uses \in [Sessions -> Nat], NEW s, CheckOut(s)
  PROVE  uses' \in [Sessions -> Nat]
<1>1. \A r \in Sessions : uses[r] \in Nat /\ 0 \in Nat /\ uses[r] + 1 \in Nat
  OBVIOUS
<1>2. CASE MaxUses = 0
  BY <1>1, <1>2 DEF CheckOut
<1>3. CASE MaxUses # 0
  BY <1>1, <1>3 DEF CheckOut
<1>4. QED
  BY <1>2, <1>3

LEMMA AcquireBodyType ==
  ASSUME TypeOK, NEW c \in Callers, AcquireBody(c)
  PROVE  /\ idle' \in Seq(Sessions) /\ created' \in Int /\ waiters' \in Seq(Callers)
         /\ closed' = closed /\ uses' = uses /\ closing' = closing /\ serving' = serving
         /\ sweepVars' = sweepVars
         /\ pc' \in [Callers -> Stages] /\ held' \in [Callers -> Sessions \cup {None}]
<1>1. CASE Refused(c)
  BY <1>1 DEF AcquireBody, Refused, TypeOK, Types, Stages, sweepVars
<1>2. CASE TakeIdle(c)
  <2>1. Front(idle) \in Seq(Sessions) /\ Last(idle) \in Sessions
    BY <1>2, PopType DEF TakeIdle, TypeOK, Types
  <2>2. QED
    <3>1. created' \in Int
      BY <1>2, LessType DEF TakeIdle, TypeOK, Types
    <3>2. pc' \in [Callers -> Stages]
      BY <1>2 DEF TakeIdle, TypeOK, Types, Stages
    <3>3. QED
      BY <1>2, <2>1, <3>1, <3>2 DEF AcquireBody, TakeIdle, TypeOK, Types, sweepVars
<1>3. CASE Connect(c)
  BY <1>3 DEF AcquireBody, Connect, TypeOK, Types, Stages, sweepVars
<1>4. CASE Enqueue(c)
  BY <1>4, AppendProperties DEF AcquireBody, Enqueue, TypeOK, Types, Stages, sweepVars
<1>5. QED
  BY <1>1, <1>2, <1>3, <1>4 DEF AcquireBody

LEMMA ServeTurnType ==
  ASSUME TypeOK, NEW c \in Callers, NEW n \in Int, NEW stage \in [Callers -> Stages],
         ServeTurn(c, n, stage)
  PROVE  /\ created' \in Int /\ waiters' \in Seq(Callers)
         /\ serving' \in [Callers -> Callers \cup {None, Expired}]
         /\ pc' \in [Callers -> Stages]
<1>1. waiters # <<>> => Head(waiters) \in Callers /\ Tail(waiters) \in Seq(Callers)
  BY HeadTailProperties DEF TypeOK, Types
<1>2. created' \in Int
  BY DEF ServeTurn
<1>3. pc' \in [Callers -> Stages]
  BY DEF ServeTurn, Stages
<1>4. waiters' \in Seq(Callers) /\ serving' \in [Callers -> Callers \cup {None, Expired}]
  BY <1>1 DEF ServeTurn, TypeOK, Types
<1>5. QED
  BY <1>2, <1>3, <1>4

LEMMA LogInType ==
  ASSUME TypeOK, NEW s \in Sessions, NEW n \in Nat, LogIn(s, n)
  PROVE  live' \subseteq Sessions /\ dirty' \subseteq Sessions /\ uses' \in [Sessions -> Nat]
BY DEF TypeOK, Types, LogIn

LEMMA FreshType == Fresh \subseteq Sessions
BY DEF Fresh

LEMMA SweepFromType ==
  ASSUME TypeOK, NEW i \in Nat \ {0}, SweepFrom(i)
  PROVE  /\ keep' \in Seq(Sessions) /\ idle' \in Seq(Sessions) /\ created' \in Int
         /\ victim' \in Sessions \cup {None} /\ sweepAt' \in Nat
<1>1. Len(idle) \in Nat /\ \A k \in 1..Len(idle) : idle[k] \in Sessions
  BY LenProperties, ElementOfSeq DEF TypeOK, Types
<1>2. ASSUME NEW n \in Int, n <= Len(idle)
      PROVE  keep \o SubSeq(idle, i, n) \in Seq(Sessions)
  <2>1. \A k \in i..n : idle[k] \in Sessions
    BY <1>1, <1>2
  <2>2. SubSeq(idle, i, n) \in Seq(Sessions)
    BY <2>1, <1>2, SubSeqProperties
  <2>3. QED
    BY <2>2, ConcatProperties DEF TypeOK, Types
<1>3. CASE \E j \in i..Len(idle) :
             /\ created > MinSize
             /\ keep' = keep \o SubSeq(idle, i, j - 1)
             /\ victim' = idle[j]
             /\ sweepAt' = j
             /\ created' = Less(1)
             /\ UNCHANGED idle
  <2>1. PICK j \in i..Len(idle) : /\ keep' = keep \o SubSeq(idle, i, j - 1)
                                 /\ victim' = idle[j] /\ sweepAt' = j
                                 /\ created' = Less(1) /\ UNCHANGED idle
    BY <1>3
  <2>2. j \in Nat /\ j - 1 \in Int /\ j - 1 <= Len(idle)
    BY <1>1
  <2>3. created' \in Int
    BY <2>1, LessType DEF TypeOK, Types
  <2>4. QED
    BY <1>1, <1>2, <2>1, <2>2, <2>3 DEF TypeOK, Types
<1>4. CASE /\ idle' = keep \o SubSeq(idle, i, Len(idle))
           /\ keep' = <<>> /\ victim' = None /\ sweepAt' = 0
           /\ UNCHANGED created
  BY <1>1, <1>2, <1>4, EmptySeq DEF TypeOK, Types
<1>5. QED
  BY <1>3, <1>4 DEF SweepFrom

(* What the history variables gain is a session. *)
LEMMA LostTypeStep ==
  ASSUME TypeOK, [Next]_vars
  PROVE  orphans' \subseteq Sessions /\ abandoned' \subseteq Sessions
<1>1. /\ orphans \subseteq Sessions /\ abandoned \subseteq Sessions /\ live \subseteq Sessions
      /\ Fresh \subseteq Sessions
  BY FreshType DEF TypeOK, Types
<1>2. ASSUME NEW S, LogOut(S) PROVE orphans' \subseteq Sessions
  BY <1>1, <1>2 DEF LogOut
<1>3. ASSUME NEW c \in Callers, CallerStep(c)
      PROVE  orphans' \subseteq Sessions /\ abandoned' \subseteq Sessions
  <2>1. CASE EvictDone(c) \/ DiscardDone(c)
    <3>1. abandoned' = abandoned /\ LogOut({held[c]})
      BY <2>1 DEF EvictDone, AcquireBody, DiscardDone
    <3>2. QED
      BY <1>1, <1>2, <3>1
  <2>2. CASE ServeExpired(c)
    BY <1>1, <2>2 DEF ServeExpired
  <2>3. CASE \/ Acquire(c) \/ ValidateDone(c) \/ ConnectDone(c) \/ ConnectFail(c) \/ Timeout(c)
             \/ Work(c) \/ Settle(c) \/ Release(c) \/ ResetDone(c) \/ CheckFailed(c)
             \/ HandOver(c) \/ Shelve(c) \/ ServeDone(c) \/ ServeFail(c) \/ Warm(c) \/ WarmDone(c)
    <3>1. UNCHANGED lostVars
      BY <2>3
      DEF Acquire, AcquireBody, ValidateDone, ConnectDone, ConnectFail, Timeout, Work, Settle,
          Release, ReleaseDiscard, ReleaseClean, ReleaseReset, ResetDone, CheckFailed, HandOver,
          Shelve, ServeDone, ServeFail, Warm, WarmDone, sessionVars, lostVars
    <3>2. QED
      BY <1>1, <3>1 DEF lostVars
  <2>4. QED
    BY <1>3, <2>1, <2>2, <2>3 DEF CallerStep
<1>4. CASE (\E s \in Sessions : CloseLogout(s)) \/ SweepNext
  <2>1. abandoned' = abandoned /\ \E S : LogOut(S)
    BY <1>4 DEF CloseLogout, SweepNext
  <2>2. QED
    BY <1>1, <1>2, <2>1
<1>5. CASE Close \/ SweepStart \/ UNCHANGED vars
  <2>1. UNCHANGED lostVars
    BY <1>5 DEF Close, SweepStart, vars, sessionVars
  <2>2. QED
    BY <1>1, <2>1 DEF lostVars
<1>6. QED
  BY <1>3, <1>4, <1>5 DEF Next

LEMMA TypeStep == TypeOK /\ [Next]_vars => Types'
<1> SUFFICES ASSUME TypeOK, [Next]_vars PROVE Types'
  OBVIOUS
<1>0. orphans' \subseteq Sessions /\ abandoned' \subseteq Sessions
  BY LostTypeStep
<1> USE SizesAssumption, <1>0
<1>1. ASSUME NEW c \in Callers, Acquire(c) PROVE Types'
  BY <1>1, AcquireBodyType DEF Acquire, TypeOK, Types, sweepVars
<1>2. ASSUME NEW c \in Callers, EvictDone(c) PROVE Types'
  BY <1>2, AcquireBodyType DEF EvictDone, LogOut, TypeOK, Types, sweepVars
<1>3. ASSUME NEW c \in Callers, ValidateDone(c) PROVE Types'
  <2>1. created' \in Int
    BY <1>3, LessType DEF ValidateDone, TypeOK, Types
  <2>2. pc' \in [Callers -> Stages]
    BY <1>3 DEF ValidateDone, TypeOK, Types, Stages
  <2>3. uses' \in [Sessions -> Nat]
    BY <1>3, CheckOutType DEF ValidateDone, TypeOK, Types
  <2>4. QED
    BY <1>3, <2>1, <2>2, <2>3 DEF ValidateDone, TypeOK, Types, sweepVars
<1>4. ASSUME NEW c \in Callers, ConnectDone(c) PROVE Types'
  BY <1>4, LogInType, FreshType DEF ConnectDone, TypeOK, Types, Stages, poolVars, sweepVars
<1>5. ASSUME NEW c \in Callers, ConnectFail(c) PROVE Types'
  BY <1>5 DEF ConnectFail, TypeOK, Types, Stages, sessionVars, sweepVars
<1>6. ASSUME NEW c \in Callers, Timeout(c) PROVE Types'
  <2>1. waiters' \in Seq(Callers)
    BY <1>6, RemoveType DEF Timeout, TypeOK, Types
  <2>2. QED
    BY <1>6, <2>1 DEF Timeout, TypeOK, Types, Stages, sessionVars, sweepVars
<1>7. ASSUME NEW c \in Callers, Work(c) \/ Settle(c) PROVE Types'
  <2>1. Usable(held[c]) => held[c] \in Sessions
    BY DEF Usable, TypeOK, Types
  <2>2. QED
    BY <1>7, <2>1 DEF Work, Settle, TypeOK, Types, poolVars, callVars, sweepVars
<1>8. ASSUME NEW c \in Callers, Release(c) PROVE Types'
  <2>1. created' \in Int
    BY <1>8, LessType
    DEF Release, ReleaseDiscard, ReleaseClean, ReleaseReset, StartDiscard, TypeOK, Types, poolVars
  <2>2. pc' \in [Callers -> Stages]
    BY <1>8 DEF Release, ReleaseDiscard, ReleaseClean, ReleaseReset, StartDiscard, TypeOK, Types, Stages
  <2>3. QED
    BY <1>8, <2>1, <2>2
    DEF Release, ReleaseDiscard, ReleaseClean, ReleaseReset, TypeOK, Types, poolVars, sessionVars, sweepVars
<1>9. ASSUME NEW c \in Callers, ResetDone(c) \/ CheckFailed(c) PROVE Types'
  <2>1. created' \in Int
    BY <1>9, LessType DEF ResetDone, CheckFailed, StartDiscard, TypeOK, Types
  <2>2. pc' \in [Callers -> Stages]
    BY <1>9 DEF ResetDone, CheckFailed, StartDiscard, TypeOK, Types, Stages
  <2>3. QED
    BY <1>9, <2>1, <2>2 DEF ResetDone, CheckFailed, TypeOK, Types, sessionVars, sweepVars
<1>10. ASSUME NEW c \in Callers, HandOver(c) PROVE Types'
  <2>1. Head(waiters) \in Callers /\ Tail(waiters) \in Seq(Callers)
    BY <1>10, HeadTailProperties DEF HandOver, TypeOK, Types
  <2>2. QED
    BY <1>10, <2>1, CheckOutType DEF HandOver, TypeOK, Types, Stages, sweepVars
<1>12. ASSUME NEW c \in Callers, DiscardDone(c) PROVE Types'
  BY <1>12, ServeTurnType DEF DiscardDone, LogOut, TypeOK, Types, sweepVars
<1>13. ASSUME NEW c \in Callers, ServeDone(c) PROVE Types'
  <2> DEFINE stage == [pc EXCEPT ![serving[c]] = "leased"]
  <2>1. stage \in [Callers -> Stages]
    BY DEF TypeOK, Types, Stages
  <2>2. ServeTurn(c, created, stage) /\ created \in Int
    BY <1>13 DEF ServeDone, TypeOK, Types
  <2>3. QED
    BY <1>13, <2>1, <2>2, ServeTurnType, LogInType, FreshType DEF ServeDone, TypeOK, Types, sweepVars
<1>14. ASSUME NEW c \in Callers, ServeExpired(c) PROVE Types'
  BY <1>14, ServeTurnType, LogInType, FreshType DEF ServeExpired, TypeOK, Types, sweepVars
<1>15. ASSUME NEW c \in Callers, ServeFail(c) PROVE Types'
  <2> DEFINE stage == [d \in Callers |-> IF d = serving[c] THEN "out" ELSE pc[d]]
  <2>1. stage \in [Callers -> Stages]
    BY DEF TypeOK, Types, Stages
  <2>2. ServeTurn(c, created - 1, stage) /\ created - 1 \in Int
    BY <1>15 DEF ServeFail, TypeOK, Types
  <2>3. QED
    BY <1>15, <2>1, <2>2, ServeTurnType DEF ServeFail, TypeOK, Types, sessionVars, sweepVars
<1>16. ASSUME NEW c \in Callers, Warm(c) PROVE Types'
  <2>1. created' \in Int
    BY <1>16 DEF Warm, WarmTurn, TypeOK, Types
  <2>2. pc' \in [Callers -> Stages]
    BY <1>16 DEF Warm, WarmTurn, TypeOK, Types, Stages
  <2>3. QED
    BY <1>16, <2>1, <2>2 DEF Warm, TypeOK, Types, sessionVars, sweepVars
<1>17. ASSUME NEW c \in Callers, WarmDone(c) PROVE Types'
  <2>1. PICK s \in Fresh : LogIn(s, 0) /\ idle' = Append(idle, s)
    BY <1>17 DEF WarmDone
  <2>2. idle' \in Seq(Sessions)
    BY <2>1, FreshType, AppendProperties DEF TypeOK, Types
  <2>3. created' \in Int
    BY <1>17 DEF WarmDone, WarmTurn, TypeOK, Types
  <2>4. pc' \in [Callers -> Stages]
    BY <1>17 DEF WarmDone, WarmTurn, TypeOK, Types, Stages
  <2>5. QED
    BY <1>17, <2>1, <2>2, <2>3, <2>4, FreshType, LogInType DEF WarmDone, TypeOK, Types, sweepVars
<1>18. ASSUME NEW c \in Callers, Shelve(c) PROVE Types'
  <2>1. idle' \in Seq(Sessions)
    BY <1>18, AppendProperties DEF Shelve, TypeOK, Types, HoldersHold, Holding
  <2>2. QED
    BY <1>18, <2>1 DEF Shelve, TypeOK, Types, Stages, sessionVars, sweepVars
<1>19. CASE Close
  <2>1. created' \in Int
    BY <1>19, LessType, LenProperties DEF Close, TypeOK, Types
  <2>2. ToSet(idle) \subseteq Sessions
    BY ElementOfSeq, LenProperties DEF TypeOK, Types, ToSet
  <2>3. pc' \in [Callers -> Stages] /\ waiters' \in Seq(Callers) /\ idle' \in Seq(Sessions)
    BY <1>19, EmptySeq DEF Close, TypeOK, Types, Stages
  <2>4. QED
    BY <1>19, <2>1, <2>2, <2>3 DEF Close, TypeOK, Types, sweepVars
<1>20. ASSUME NEW s \in Sessions, CloseLogout(s) PROVE Types'
  BY <1>20 DEF CloseLogout, LogOut, TypeOK, Types, poolVars, callVars, sweepVars
<1>21. CASE SweepStart \/ SweepNext
  <2>1. PICK i \in Nat \ {0} : SweepFrom(i)
    BY <1>21 DEF SweepStart, SweepNext, TypeOK, Types
  <2>2. SweepFrom(i) => /\ keep' \in Seq(Sessions) /\ idle' \in Seq(Sessions) /\ created' \in Int
                        /\ victim' \in Sessions \cup {None} /\ sweepAt' \in Nat
    BY <2>1, SweepFromType
  <2>3. QED
    BY <1>21, <2>1, <2>2 DEF SweepStart, SweepNext, LogOut, TypeOK, Types, sessionVars, callVars
<1>22. CASE UNCHANGED vars
  BY <1>22 DEF TypeOK, Types, vars, poolVars, sessionVars, callVars, sweepVars
<1>23. QED
  BY <1>1, <1>2, <1>3, <1>4, <1>5, <1>6, <1>7, <1>8, <1>9, <1>10, <1>12, <1>13, <1>14, <1>15,
     <1>16, <1>17, <1>18, <1>19, <1>20, <1>21, <1>22
  DEF Next, CallerStep, Release

LEMMA HoldersStep == TypeOK /\ [Next]_vars => HoldersHold'
<1> SUFFICES ASSUME TypeOK, [Next]_vars, NEW c \in Callers, pc'[c] \in Holding
             PROVE  held'[c] \in Sessions
  BY DEF HoldersHold
<1>1. pc[c] \in Holding => held[c] \in Sessions
  BY DEF TypeOK, HoldersHold
<1> USE DEF Holding, TypeOK, Types
<1>2. ASSUME NEW d \in Callers, Acquire(d) \/ EvictDone(d) PROVE held'[c] \in Sessions
  <2>1. CASE TakeIdle(d)
    BY <1>1, <2>1, PopType DEF TakeIdle
  <2>2. CASE Refused(d) \/ Connect(d) \/ Enqueue(d)
    BY <1>1, <2>2 DEF Refused, Connect, Enqueue
  <2>3. QED
    BY <1>2, <2>1, <2>2 DEF Acquire, EvictDone, AcquireBody
<1>3. ASSUME NEW d \in Callers,
             ValidateDone(d) \/ Release(d) \/ ResetDone(d) \/ CheckFailed(d)
      PROVE  held'[c] \in Sessions
  <2>1. held' = held /\ (pc'[c] \in Holding => pc[c] \in Holding)
    BY <1>3 DEF ValidateDone, Release, ReleaseDiscard, ReleaseClean, ReleaseReset, ResetDone,
                CheckFailed, StartDiscard
  <2>2. QED
    BY <1>1, <2>1
<1>4. ASSUME NEW d \in Callers, ConnectDone(d) PROVE held'[c] \in Sessions
  BY <1>1, <1>4, FreshType DEF ConnectDone
<1>5. ASSUME NEW d \in Callers,
             ConnectFail(d) \/ Timeout(d) \/ Work(d) \/ Settle(d) \/ Warm(d) \/ WarmDone(d)
      PROVE  held'[c] \in Sessions
  <2>1. held' = held /\ (pc'[c] \in Holding => pc[c] \in Holding)
    BY <1>5 DEF ConnectFail, Timeout, Work, Settle, Warm, WarmDone, WarmTurn, callVars
  <2>2. QED
    BY <1>1, <2>1
<1>6. ASSUME NEW d \in Callers, HandOver(d) PROVE held'[c] \in Sessions
  <2>1. held[d] \in Sessions /\ Head(waiters) \in Callers
    BY <1>6, HeadTailProperties DEF HandOver, HoldersHold
  <2>2. QED
    BY <1>1, <1>6, <2>1 DEF HandOver
<1>7. ASSUME NEW d \in Callers, Shelve(d) PROVE held'[c] \in Sessions
  BY <1>1, <1>7 DEF Shelve
<1>8. ASSUME NEW d \in Callers, DiscardDone(d) PROVE held'[c] \in Sessions
  BY <1>1, <1>8 DEF DiscardDone, ServeTurn
<1>9. ASSUME NEW d \in Callers, ServeDone(d) PROVE held'[c] \in Sessions
  <2> DEFINE stage == [pc EXCEPT ![serving[d]] = "leased"]
  <2>1. PICK s \in Fresh : held' = [held EXCEPT ![serving[d]] = s]
    BY <1>9 DEF ServeDone
  <2>2. pc'[c] = stage[c] \/ pc'[c] \in {"serving", "out"}
    BY <1>9 DEF ServeDone, ServeTurn
  <2>3. QED
    BY <1>1, <2>1, <2>2, FreshType
<1>10. ASSUME NEW d \in Callers, ServeExpired(d) \/ ServeFail(d) PROVE held'[c] \in Sessions
  <2>1. held' = held /\ (pc'[c] \in Holding => pc[c] \in Holding)
    BY <1>10 DEF ServeExpired, ServeFail, ServeTurn
  <2>2. QED
    BY <1>1, <2>1
<1>11. CASE Close
  BY <1>1, <1>11 DEF Close
<1>12. CASE (\E s \in Sessions : CloseLogout(s)) \/ SweepStart \/ SweepNext \/ UNCHANGED vars
  BY <1>1, <1>12 DEF CloseLogout, SweepStart, SweepNext, callVars, vars
<1>13. QED
  BY <1>2, <1>3, <1>4, <1>5, <1>6, <1>7, <1>8, <1>9, <1>10, <1>11, <1>12
  DEF Next, CallerStep, Release

(* Every variable has its type in every reachable state, and an operation  *)
(* that works on a session has one, whatever the configuration.            *)
THEOREM PoolTypeOK == Spec => []TypeOK
<1>1. Init => TypeOK
  <2>1. <<>> \in Seq(Sessions) /\ <<>> \in Seq(Callers)
    BY EmptySeq
  <2>2. Init => Types
    <3>1. 0 \in Nat /\ 0 \in Int
      OBVIOUS
    <3>2. Init => /\ uses \in [Sessions -> Nat]
                  /\ pc \in [Callers -> Stages]
                  /\ held \in [Callers -> Sessions \cup {None}]
                  /\ serving \in [Callers -> Callers \cup {None, Expired}]
      BY <3>1 DEF Init, Stages
    <3>3. Init => idle \in Seq(Sessions) /\ waiters \in Seq(Callers) /\ keep \in Seq(Sessions)
      BY <2>1 DEF Init
    <3>4. QED
      BY <3>1, <3>2, <3>3 DEF Init, Types
  <2>3. Init => HoldersHold
    BY DEF Init, HoldersHold, Holding
  <2>4. QED
    BY <2>2, <2>3 DEF TypeOK
<1>2. TypeOK /\ [Next]_vars => TypeOK'
  BY TypeStep, HoldersStep DEF TypeOK
<1>3. QED
  BY <1>1, <1>2, PTL DEF Spec
-----------------------------------------------------------------------------
(* A session is in one place                                               *)

(* A pool that does not sweep never has a sweep in progress. *)
NoSweep == sweepAt = 0 /\ keep = <<>> /\ victim = None

LEMMA NoSweepStep ==
  ASSUME "idle" \notin Timers, NoSweep, [Next]_vars
  PROVE  NoSweep'
<1> USE DEF NoSweep, sweepVars
<1>1. ASSUME NEW c \in Callers, CallerStep(c) PROVE NoSweep'
  <2>1. UNCHANGED sweepVars
    BY <1>1
    DEF CallerStep, Acquire, EvictDone, AcquireBody, ValidateDone, ConnectDone, ConnectFail,
        Timeout, Work, Settle, Release, ReleaseDiscard, ReleaseClean, ReleaseReset, ResetDone,
        CheckFailed, HandOver, Shelve, DiscardDone, ServeDone, ServeExpired, ServeFail, Warm,
        WarmDone
  <2>2. QED
    BY <2>1
<1>2. CASE Close
  BY <1>2 DEF Close
<1>3. ASSUME NEW s \in Sessions, CloseLogout(s) PROVE NoSweep'
  BY <1>3 DEF CloseLogout
<1>4. CASE SweepStart \/ SweepNext
  BY <1>4 DEF SweepStart, SweepNext
<1>5. CASE UNCHANGED vars
  BY <1>5 DEF vars
<1>6. QED
  BY <1>1, <1>2, <1>3, <1>4, <1>5 DEF Next

(* Two shapes of step that keep sessions apart: one caller's session       *)
(* becomes none or one that was nowhere.                                   *)
LEMMA StillApart ==
  ASSUME Exclusive, TypeOK, idle' = idle, closing' = closing,
         NEW c, NEW s, held' = [held EXCEPT ![c] = s], s = None \/ s \in Fresh
  PROVE  Exclusive'
<1>1. ASSUME NEW d \in Callers PROVE held'[d] = held[d] \/ (d = c /\ held'[d] = s)
  BY DEF TypeOK, Types
<1>2. s # None => s \notin ToSet(idle) \cup closing /\ \A d \in Callers : held[d] # s
  BY DEF Fresh
<1>3. ASSUME NEW d \in Callers, NEW e \in Callers, held'[d] = held'[e], held'[d] # None
      PROVE  d = e
  BY <1>1, <1>2, <1>3 DEF Exclusive
<1>4. ASSUME NEW d \in Callers PROVE held'[d] \notin ToSet(idle) \cup closing
  <2>1. None \notin ToSet(idle) \cup closing
    BY IdentitiesAssumption, ElementOfSeq, LenProperties DEF TypeOK, Types, ToSet
  <2>2. QED
    BY <1>1, <1>2, <2>1 DEF Exclusive
<1>5. QED
  BY <1>3, <1>4 DEF Exclusive

LEMMA ExclusiveStep ==
  ASSUME "idle" \notin Timers, TypeOK, NoSweep, Exclusive, [Next]_vars
  PROVE  Exclusive'
<1>1. idle \in Seq(Sessions) /\ held \in [Callers -> Sessions \cup {None}] /\ IsInjective(idle)
  BY DEF TypeOK, Types, Exclusive
<1>2. None \notin Sessions
  BY IdentitiesAssumption
<1>3. ToSet(idle) \subseteq Sessions
  BY <1>1, ElementOfSeq, LenProperties DEF ToSet
<1>4. ASSUME NEW c \in Callers, Acquire(c) \/ EvictDone(c) PROVE Exclusive'
  <2>1. closing' = closing
    BY <1>4 DEF Acquire, EvictDone, AcquireBody
  <2>2. CASE TakeIdle(c)
    <3>1. /\ ToSet(idle') = ToSet(idle) \ {Last(idle)}
          /\ Last(idle) \in ToSet(idle)
          /\ IsInjective(idle')
          /\ held' = [held EXCEPT ![c] = Last(idle)]
      BY <1>1, <2>2, PopSet DEF TakeIdle
    <3>2. QED
      BY <1>1, <1>2, <1>3, <2>1, <3>1 DEF Exclusive
  <2>3. CASE Refused(c) \/ Connect(c) \/ Enqueue(c)
    <3>1. idle' = idle /\ held' = [held EXCEPT ![c] = None]
      BY <2>3 DEF Refused, Connect, Enqueue
    <3>2. QED
      BY <2>1, <3>1, StillApart
  <2>4. QED
    BY <1>4, <2>2, <2>3 DEF Acquire, EvictDone, AcquireBody
<1>5. ASSUME NEW c \in Callers,
             \/ ValidateDone(c) \/ ConnectFail(c) \/ Timeout(c) \/ Work(c) \/ Settle(c)
             \/ Release(c) \/ ResetDone(c) \/ CheckFailed(c)
             \/ ServeExpired(c) \/ ServeFail(c) \/ Warm(c)
      PROVE  Exclusive'
  <2>1. UNCHANGED <<idle, closing, held>>
    BY <1>5
    DEF ValidateDone, ConnectFail, Timeout, Work, Settle, Release, ReleaseDiscard, ReleaseClean,
        ReleaseReset, ResetDone, CheckFailed, ServeExpired, ServeFail, Warm, poolVars, sessionVars,
        callVars
  <2>2. QED
    BY <2>1 DEF Exclusive
<1>6. ASSUME NEW c \in Callers, ConnectDone(c) \/ ServeDone(c) \/ DiscardDone(c) PROVE Exclusive'
  BY <1>6, StillApart DEF ConnectDone, ServeDone, DiscardDone, poolVars
<1>7. ASSUME NEW c \in Callers, HandOver(c) PROVE Exclusive'
  <2>1. /\ idle' = idle /\ closing' = closing
        /\ held' = [held EXCEPT ![c] = None, ![Head(waiters)] = held[c]]
    BY <1>7 DEF HandOver
  <2>2. ASSUME NEW d \in Callers
        PROVE  \/ held'[d] = None
               \/ d = Head(waiters) /\ held'[d] = held[c]
               \/ d # Head(waiters) /\ held'[d] = held[d] /\ d # c
    BY <1>1, <2>1
  <2>3. \A d \in Callers : held'[d] \notin ToSet(idle) \cup closing
    <3>1. None \notin ToSet(idle) \cup closing
      BY <1>2, <1>3 DEF TypeOK, Types
    <3>2. QED
      BY <2>2, <3>1 DEF Exclusive
  <2>4. ASSUME NEW d \in Callers, NEW e \in Callers, held'[d] = held'[e], held'[d] # None
        PROVE  d = e
    BY <2>2, <2>4 DEF Exclusive
  <2>5. QED
    BY <2>1, <2>3, <2>4 DEF Exclusive
<1>8. ASSUME NEW c \in Callers, Shelve(c) PROVE Exclusive'
  <2>1. held[c] \in Sessions
    BY <1>8 DEF Shelve, TypeOK, HoldersHold, Holding
  <2>2. held[c] \notin ToSet(idle) \cup closing
    BY <1>1 DEF Exclusive
  <2>3. closing' = closing /\ held' = [held EXCEPT ![c] = None] /\ idle' = Append(idle, held[c])
    BY <1>8 DEF Shelve, sessionVars
  <2>4. ToSet(idle') = ToSet(idle) \cup {held[c]} /\ IsInjective(idle')
    BY <1>1, <2>1, <2>2, <2>3, PushSet
  <2>5. ASSUME NEW d \in Callers
        PROVE  IF d = c THEN held'[d] = None ELSE held'[d] = held[d] /\ held[d] # held[c]
    BY <1>1, <1>2, <2>1, <2>3 DEF Exclusive
  <2>6. None \notin closing
    BY <1>2 DEF TypeOK, Types
  <2>7. QED
    BY <1>2, <1>3, <2>1, <2>2, <2>3, <2>4, <2>5, <2>6 DEF Exclusive
<1>9. ASSUME NEW c \in Callers, WarmDone(c) PROVE Exclusive'
  <2>1. PICK s \in Fresh : idle' = Append(idle, s)
    BY <1>9 DEF WarmDone
  <2>2. s \in Sessions /\ s \notin ToSet(idle) \cup closing /\ \A d \in Callers : held[d] # s
    BY <2>1 DEF Fresh
  <2>3. /\ closing' = closing /\ held' = held
        /\ ToSet(idle') = ToSet(idle) \cup {s} /\ IsInjective(idle')
    BY <1>1, <1>9, <2>1, <2>2, PushSet DEF WarmDone
  <2>4. QED
    BY <2>2, <2>3 DEF Exclusive
<1>10. CASE Close
  <2>1. /\ ToSet(idle') = {} /\ IsInjective(idle')
        /\ closing' = closing \cup ToSet(idle) /\ held' = held
    BY <1>10 DEF Close, ToSet, IsInjective
  <2>2. QED
    BY <2>1 DEF Exclusive
<1>11. ASSUME NEW s \in Sessions, CloseLogout(s) PROVE Exclusive'
  BY <1>11 DEF CloseLogout, Exclusive, poolVars, callVars
<1>12. CASE SweepStart \/ SweepNext
  BY <1>12 DEF SweepStart, SweepNext, NoSweep
<1>13. CASE UNCHANGED vars
  BY <1>13 DEF vars, poolVars, sessionVars, callVars, Exclusive
<1>14. QED
  BY <1>4, <1>5, <1>6, <1>7, <1>8, <1>9, <1>10, <1>11, <1>12, <1>13 DEF Next, CallerStep, Release

(* In a pool without idle sweeping a session is never with two callers, nor*)
(* at once with a caller and at rest: each await of acquire, release,      *)
(* serveWaiters, warm and close leaves it in exactly one place.            *)
THEOREM PoolExclusive == ASSUME "idle" \notin Timers PROVE Spec => []Exclusive
<1>1. Init => NoSweep /\ Exclusive
  BY DEF Init, NoSweep, Exclusive, ToSet, IsInjective
<1>2. TypeOK /\ NoSweep /\ Exclusive /\ [Next]_vars => NoSweep' /\ Exclusive'
  BY NoSweepStep, ExclusiveStep
<1>3. QED
  BY <1>1, <1>2, PoolTypeOK, PTL DEF Spec

-----------------------------------------------------------------------------
(* What a caller is given                                                  *)

LEMMA FitFacts ==
  ASSUME TypeOK, Exclusive
  PROVE  /\ idle \in Seq(Sessions) /\ ToSet(idle) \subseteq Sessions
         /\ held \in [Callers -> Sessions \cup {None}] /\ pc \in [Callers -> Stages]
         /\ uses \in [Sessions -> Nat] /\ MaxUses \in Nat
         /\ IsInjective(idle)
         /\ None \notin Sessions
         /\ \A c \in Callers : pc[c] \in Holding => held[c] \in Sessions
         /\ \A c, d \in Callers : held[c] \in Sessions /\ held[c] = held[d] => c = d
         /\ \A c \in Callers : held[c] \notin ToSet(idle) \cup closing
         /\ ToSet(idle) \cap closing = {}
<1>1. ToSet(idle) \subseteq Sessions
  BY ElementOfSeq, LenProperties DEF TypeOK, Types, ToSet
<1>2. None \notin Sessions /\ MaxUses \in Nat
  BY IdentitiesAssumption, SizesAssumption
<1>3. QED
  BY <1>1, <1>2 DEF TypeOK, Types, HoldersHold, Exclusive

(* The uses of the other sessions are untouched by a checkout or a login. *)
LEMMA OtherUses ==
  ASSUME TypeOK, NEW s, NEW n, CheckOut(s) \/ LogIn(s, n)
  PROVE  \A r \in Sessions : r # s => uses'[r] = uses[r]
BY DEF CheckOut, LogIn, TypeOK, Types

LEMMA ReadyStep ==
  ASSUME "idle" \notin Timers, TypeOK, NoSweep, Exclusive, Ready, [Next]_vars
  PROVE  Ready'
<1> USE FitFacts DEF Ready, Holding
<1>1. ASSUME NEW c \in Callers, Acquire(c) \/ EvictDone(c) PROVE Ready'
  <2>1. /\ closing' = closing /\ uses' = uses
        /\ \/ live' = live /\ dirty' = dirty
           \/ pc[c] = "evicting" /\ live' = live \ {held[c]} /\ dirty' = dirty \ {held[c]}
    BY <1>1 DEF Acquire, EvictDone, AcquireBody, LogOut
  <2>2. /\ closing' \cup dirty' \subseteq live'
        /\ ToSet(idle) \subseteq live' \ dirty'
        /\ \A d \in Callers \ {c} : /\ pc[d] \in Holding => held[d] \in live'
                                    /\ pc[d] \in {"validating", "checking"} => held[d] \notin dirty'
    BY <2>1
  <2>3. CASE TakeIdle(c)
    <3>1. ToSet(idle') \subseteq ToSet(idle) /\ Last(idle) \in ToSet(idle)
      BY <2>3, PopSet DEF TakeIdle
    <3>2. /\ held'[c] = Last(idle)
          /\ pc'[c] = "evicting" \/ (pc'[c] = "validating" /\ ~UsedUp(Last(idle)))
          /\ \A d \in Callers \ {c} : held'[d] = held[d] /\ pc'[d] = pc[d]
      BY <2>3 DEF TakeIdle
    <3>3. QED
      BY <2>1, <2>2, <3>1, <3>2 DEF UsedUp
  <2>4. CASE Refused(c) \/ Connect(c) \/ Enqueue(c)
    <3>1. /\ idle' = idle /\ pc'[c] \in {"out", "connecting", "queued"}
          /\ \A d \in Callers \ {c} : held'[d] = held[d] /\ pc'[d] = pc[d]
      BY <2>4 DEF Refused, Connect, Enqueue
    <3>2. QED
      BY <2>1, <2>2, <3>1 DEF UsedUp
  <2>5. QED
    BY <1>1, <2>3, <2>4 DEF Acquire, EvictDone, AcquireBody
<1>2. ASSUME NEW c \in Callers, ValidateDone(c) PROVE Ready'
  <2>1. \A d \in Callers \ {c} : pc'[d] = pc[d] /\ (pc[d] = "validating" => uses'[held[d]] = uses[held[d]])
    BY <1>2, OtherUses DEF ValidateDone
  <2>2. /\ UNCHANGED <<idle, live, dirty, closing, held>> /\ pc[c] \in Holding
        /\ pc'[c] \in {"leased", "evicting"}
    BY <1>2 DEF ValidateDone
  <2>3. QED
    BY <2>1, <2>2 DEF UsedUp
<1>3. ASSUME NEW c \in Callers, ConnectDone(c) PROVE Ready'
  <2>1. PICK s \in Fresh : LogIn(s, 1) /\ held' = [held EXCEPT ![c] = s]
    BY <1>3 DEF ConnectDone
  <2>2. /\ idle' = idle /\ closing' = closing /\ pc' = [pc EXCEPT ![c] = "leased"]
        /\ live' = live \cup {s} /\ dirty' = dirty \ {s}
        /\ \A d \in Callers : held[d] # s
    BY <1>3, <2>1 DEF ConnectDone, LogIn, Fresh, poolVars
  <2>3. QED
    BY <2>1, <2>2, OtherUses DEF UsedUp
<1>4. ASSUME NEW c \in Callers, ConnectFail(c) \/ Timeout(c) \/ Warm(c) PROVE Ready'
  <2>1. /\ UNCHANGED <<idle, live, dirty, uses, closing, held>>
        /\ \A d \in Callers : pc'[d] = pc[d] \/ pc'[d] \in {"out", "warming"}
    BY <1>4 DEF ConnectFail, Timeout, Warm, WarmTurn, sessionVars
  <2>2. QED
    BY <2>1 DEF UsedUp
<1>5. ASSUME NEW c \in Callers, Work(c) \/ Settle(c) PROVE Ready'
  <2>1. /\ UNCHANGED <<idle, live, uses, closing, held, pc>> /\ pc[c] = "leased"
        /\ dirty' = dirty \cup {held[c]} \/ dirty' = dirty \ {held[c]}
    BY <1>5 DEF Work, Settle, poolVars, callVars
  <2>2. QED
    BY <2>1 DEF UsedUp
<1>6. ASSUME NEW c \in Callers, Release(c) \/ ResetDone(c) \/ CheckFailed(c) PROVE Ready'
  <2>1. /\ UNCHANGED <<idle, live, uses, closing, held>> /\ pc[c] \in Holding
        /\ dirty' \subseteq dirty
        /\ pc'[c] \in {"checking", "resetting", "discarding"}
        /\ pc'[c] = "checking" => held[c] \notin dirty'
        /\ \A d \in Callers \ {c} : pc'[d] = pc[d]
    BY <1>6 DEF Release, ReleaseDiscard, ReleaseClean, ReleaseReset, ResetDone, CheckFailed,
                StartDiscard, sessionVars, poolVars
  <2>2. QED
    BY <2>1 DEF UsedUp
<1>7. ASSUME NEW c \in Callers, HandOver(c) PROVE Ready'
  <2>1. /\ UNCHANGED <<idle, live, dirty, closing>>
        /\ pc' = [pc EXCEPT ![c] = "out", ![Head(waiters)] = "leased"]
        /\ held' = [held EXCEPT ![c] = None, ![Head(waiters)] = held[c]]
        /\ CheckOut(held[c]) /\ pc[c] = "checking"
    BY <1>7 DEF HandOver
  <2>2. \A d \in Callers : \/ d # c /\ d # Head(waiters) /\ pc'[d] = pc[d] /\ held'[d] = held[d]
                           \/ d = c /\ pc'[d] = "out"
                           \/ d = Head(waiters) /\ pc'[d] = "leased" /\ held'[d] = held[c]
    BY <2>1
  <2>3. \A d \in Callers \ {c} : pc[d] \in Holding => uses'[held[d]] = uses[held[d]]
    BY <2>1, OtherUses
  <2>4. QED
    BY <2>1, <2>2, <2>3 DEF UsedUp
<1>8. ASSUME NEW c \in Callers, Shelve(c) PROVE Ready'
  <2>1. /\ UNCHANGED <<live, dirty, uses, closing>> /\ pc[c] = "checking"
        /\ idle' = Append(idle, held[c])
        /\ \A d \in Callers \ {c} : pc'[d] = pc[d] /\ held'[d] = held[d]
        /\ pc'[c] = "out"
    BY <1>8 DEF Shelve, sessionVars
  <2>2. ToSet(idle') = ToSet(idle) \cup {held[c]}
    BY <2>1, PushSet
  <2>3. QED
    BY <2>1, <2>2 DEF UsedUp
<1>9. ASSUME NEW c \in Callers, DiscardDone(c) PROVE Ready'
  <2>1. /\ UNCHANGED <<idle, uses, closing>> /\ pc[c] = "discarding"
        /\ live' = live \ {held[c]} /\ dirty' = dirty \ {held[c]}
        /\ \A d \in Callers \ {c} : pc'[d] = pc[d] /\ held'[d] = held[d]
        /\ pc'[c] \in {"serving", "out"}
    BY <1>9 DEF DiscardDone, ServeTurn, LogOut
  <2>2. QED
    BY <2>1 DEF UsedUp
<1>10. ASSUME NEW c \in Callers, ServeDone(c) PROVE Ready'
  <2>1. PICK s \in Fresh : LogIn(s, 1) /\ held' = [held EXCEPT ![serving[c]] = s]
    BY <1>10 DEF ServeDone
  <2>2. /\ idle' = idle /\ closing' = closing
        /\ live' = live \cup {s} /\ dirty' = dirty \ {s}
        /\ \A d \in Callers : held[d] # s
    BY <1>10, <2>1 DEF ServeDone, LogIn, Fresh
  <2>3. \A d \in Callers : \/ pc'[d] \in {"serving", "out"}
                           \/ pc'[d] = "leased" /\ held'[d] = s
                           \/ pc'[d] = pc[d] /\ held'[d] = held[d]
    BY <1>10, <2>1 DEF ServeDone, ServeTurn
  <2>4. QED
    BY <2>1, <2>2, <2>3, OtherUses DEF UsedUp
<1>11. ASSUME NEW c \in Callers, ServeExpired(c) PROVE Ready'
  <2>1. PICK s \in Fresh : LogIn(s, 1)
    BY <1>11 DEF ServeExpired
  <2>2. /\ idle' = idle /\ closing' = closing /\ held' = held
        /\ live' = live \cup {s} /\ dirty' = dirty \ {s}
        /\ \A d \in Callers : held[d] # s
        /\ \A d \in Callers : pc'[d] = pc[d] \/ pc'[d] \in {"serving", "out"}
    BY <1>11, <2>1 DEF ServeExpired, ServeTurn, LogIn, Fresh
  <2>3. QED
    BY <2>1, <2>2, OtherUses DEF UsedUp
<1>12. ASSUME NEW c \in Callers, ServeFail(c) PROVE Ready'
  <2>1. /\ UNCHANGED <<idle, live, dirty, uses, closing, held>>
        /\ \A d \in Callers : pc'[d] = pc[d] \/ pc'[d] \in {"out", "serving"}
    BY <1>12 DEF ServeFail, ServeTurn, sessionVars
  <2>2. QED
    BY <2>1 DEF UsedUp
<1>13. ASSUME NEW c \in Callers, WarmDone(c) PROVE Ready'
  <2>1. PICK s \in Fresh : LogIn(s, 0) /\ idle' = Append(idle, s)
    BY <1>13 DEF WarmDone
  <2>2. /\ closing' = closing /\ held' = held
        /\ live' = live \cup {s} /\ dirty' = dirty \ {s}
        /\ \A d \in Callers : held[d] # s
        /\ \A d \in Callers : pc'[d] = pc[d] \/ pc'[d] \in {"warming", "out"}
    BY <1>13, <2>1 DEF WarmDone, WarmTurn, LogIn, Fresh
  <2>3. ToSet(idle') = ToSet(idle) \cup {s}
    <3>1. s \in Sessions
      BY FreshType
    <3>2. ToSet(Append(idle, s)) = ToSet(idle) \cup {s}
      BY <3>1, PushSet
    <3>3. QED
      BY <2>1, <3>2
  <2>4. QED
    BY <2>1, <2>2, <2>3, OtherUses DEF UsedUp
<1>14. CASE Close
  <2>1. /\ UNCHANGED <<live, dirty, uses, held>> /\ ToSet(idle') = {}
        /\ closing' = closing \cup ToSet(idle)
        /\ \A d \in Callers : pc'[d] = pc[d] \/ pc'[d] = "out"
    BY <1>14 DEF Close, ToSet
  <2>2. QED
    BY <2>1 DEF UsedUp
<1>15. ASSUME NEW s \in Sessions, CloseLogout(s) PROVE Ready'
  <2>1. /\ UNCHANGED <<idle, uses, held, pc>> /\ s \in closing
        /\ closing' = closing \ {s} /\ live' = live \ {s} /\ dirty' = dirty \ {s}
    BY <1>15 DEF CloseLogout, LogOut, poolVars, callVars
  <2>2. QED
    BY <2>1 DEF UsedUp
<1>16. CASE SweepStart \/ SweepNext
  BY <1>16 DEF SweepStart, SweepNext, NoSweep
<1>17. CASE UNCHANGED vars
  BY <1>17 DEF vars, poolVars, sessionVars, callVars, UsedUp
<1>18. QED
  BY <1>1, <1>2, <1>3, <1>4, <1>5, <1>6, <1>7, <1>8, <1>9, <1>10, <1>11, <1>12, <1>13, <1>14,
     <1>15, <1>16, <1>17
  DEF Next, CallerStep, Release

LEMMA GrantStep ==
  ASSUME "idle" \notin Timers, TypeOK, NoSweep, Exclusive, Ready, [Next]_vars,
         Exclusive', TypeOK',
         NEW c \in Callers, pc[c] # "leased", pc'[c] = "leased"
  PROVE  /\ held'[c] \in live' \ (dirty' \cup closing' \cup ToSet(idle'))
         /\ \A d \in Callers \ {c} : held'[d] # held'[c]
         /\ MaxUses # 0 => uses'[held'[c]] <= MaxUses
<1>1. /\ held'[c] \in live' \ dirty'
      /\ MaxUses # 0 => uses'[held'[c]] <= MaxUses
  <2> USE FitFacts DEF Ready, Holding
  <2>1. ASSUME NEW d \in Callers, ValidateDone(d)
        PROVE  /\ held'[c] \in live' \ dirty'
               /\ MaxUses # 0 => uses'[held'[c]] <= MaxUses
    <3>1. d = c /\ CheckOut(held[c]) /\ UNCHANGED <<held, live, dirty>> /\ pc[c] = "validating"
      BY <2>1 DEF ValidateDone
    <3>2. MaxUses # 0 => uses'[held[c]] = uses[held[c]] + 1
      BY <3>1 DEF CheckOut
    <3>3. MaxUses # 0 => uses[held[c]] < MaxUses
      BY <3>1 DEF UsedUp
    <3>4. QED
      BY <3>1, <3>2, <3>3
  <2>2. ASSUME NEW d \in Callers, HandOver(d)
        PROVE  /\ held'[c] \in live' \ dirty'
               /\ MaxUses # 0 => uses'[held'[c]] <= MaxUses
    <3>1. /\ CheckOut(held[d]) /\ UNCHANGED <<live, dirty>>
          /\ pc[d] = "checking" /\ ~UsedUp(held[d])
          /\ pc' = [pc EXCEPT ![d] = "out", ![Head(waiters)] = "leased"]
          /\ held' = [held EXCEPT ![d] = None, ![Head(waiters)] = held[d]]
      BY <2>2 DEF HandOver
    <3>2. held'[c] = held[d]
      BY <3>1
    <3>3. MaxUses # 0 => uses'[held[d]] = uses[held[d]] + 1
      BY <3>1 DEF CheckOut
    <3>4. MaxUses # 0 => uses[held[d]] < MaxUses
      BY <3>1 DEF UsedUp
    <3>5. QED
      BY <3>1, <3>2, <3>3, <3>4
  <2>3. ASSUME NEW s \in Fresh, LogIn(s, 1), held'[c] = s
        PROVE  /\ held'[c] \in live' \ dirty'
               /\ MaxUses # 0 => uses'[held'[c]] <= MaxUses
    <3>1. s \in Sessions /\ held'[c] \in live' \ dirty'
      BY <2>3 DEF LogIn, Fresh
    <3>2. MaxUses # 0 => uses'[s] = 1
      BY <2>3, <3>1 DEF LogIn
    <3>3. QED
      BY <2>3, <3>1, <3>2
  <2>4. ASSUME NEW d \in Callers, ConnectDone(d)
        PROVE  /\ held'[c] \in live' \ dirty'
               /\ MaxUses # 0 => uses'[held'[c]] <= MaxUses
    <3>1. PICK s \in Fresh : LogIn(s, 1) /\ held' = [held EXCEPT ![d] = s]
      BY <2>4 DEF ConnectDone
    <3>2. c = d /\ held'[c] = s
      BY <2>4, <3>1 DEF ConnectDone
    <3>3. QED
      BY <2>3, <3>1, <3>2
  <2>5. ASSUME NEW d \in Callers, ServeDone(d)
        PROVE  /\ held'[c] \in live' \ dirty'
               /\ MaxUses # 0 => uses'[held'[c]] <= MaxUses
    <3>1. PICK s \in Fresh : LogIn(s, 1) /\ held' = [held EXCEPT ![serving[d]] = s]
      BY <2>5 DEF ServeDone
    <3>2. c = serving[d]
      BY <2>5 DEF ServeDone, ServeTurn
    <3>3. held'[c] = s
      BY <3>1, <3>2
    <3>4. QED
      BY <2>3, <3>1, <3>3
  <2>6. (\E d \in Callers : \/ ValidateDone(d) \/ HandOver(d) \/ ConnectDone(d) \/ ServeDone(d))
    <3>1. ASSUME NEW d \in Callers, Acquire(d) \/ EvictDone(d) PROVE pc'[c] # "leased"
      BY <3>1 DEF Acquire, EvictDone, AcquireBody, Refused, TakeIdle, Connect, Enqueue
    <3>2. ASSUME NEW d \in Callers,
                 \/ ConnectFail(d) \/ Timeout(d) \/ Release(d) \/ ResetDone(d) \/ CheckFailed(d)
                 \/ Shelve(d) \/ Warm(d) \/ WarmDone(d)
          PROVE  pc'[c] # "leased"
      BY <3>2 DEF ConnectFail, Timeout, Release, ReleaseDiscard, ReleaseClean, ReleaseReset,
                  ResetDone, CheckFailed, StartDiscard, Shelve, Warm, WarmDone, WarmTurn
    <3>3. ASSUME NEW d \in Callers, DiscardDone(d) \/ ServeExpired(d) \/ ServeFail(d)
          PROVE  pc'[c] # "leased"
      BY <3>3 DEF DiscardDone, ServeExpired, ServeFail, ServeTurn
    <3>4. ASSUME \/ \E d \in Callers : Work(d) \/ Settle(d)
                 \/ Close \/ \E s \in Sessions : CloseLogout(s)
                 \/ SweepStart \/ SweepNext \/ UNCHANGED vars
          PROVE  pc'[c] # "leased"
      BY <3>4 DEF Work, Settle, Close, CloseLogout, SweepStart, SweepNext, callVars, vars
    <3>5. QED
      BY <3>1, <3>2, <3>3, <3>4 DEF Next, CallerStep, Release
  <2>7. QED
    BY <2>1, <2>2, <2>4, <2>5, <2>6
<1>2. held'[c] \in Sessions
  BY DEF TypeOK, HoldersHold, Holding
<1>3. held'[c] \notin ToSet(idle)' \cup closing' /\ \A d \in Callers \ {c} : held'[d] # held'[c]
  BY <1>2, IdentitiesAssumption DEF Exclusive
<1>4. QED
  BY <1>1, <1>3

Fit == NoSweep /\ Exclusive /\ Ready

LEMMA AlwaysFit == ASSUME "idle" \notin Timers PROVE Spec => []Fit
<1>1. Init => Fit
  BY DEF Init, Fit, NoSweep, Exclusive, Ready, ToSet, IsInjective, Holding
<1>2. TypeOK /\ Fit /\ [Next]_vars => Fit'
  BY NoSweepStep, ExclusiveStep, ReadyStep DEF Fit
<1>3. QED
  BY <1>1, <1>2, PoolTypeOK, PTL DEF Spec

(* In a pool without idle sweeping every lease starts on a session that is *)
(* logged in, carries nothing uncommitted, is within maxSessionUses and is *)
(* nobody else's, whichever of the four ways it was granted.               *)
THEOREM PoolGrantsAreFit == ASSUME "idle" \notin Timers PROVE Spec => GrantsAreFit
<1>1. TypeOK /\ TypeOK' /\ Fit /\ Fit' /\ [Next]_vars =>
        [\A c \in Callers :
           pc[c] # "leased" /\ pc'[c] = "leased" =>
             /\ held'[c] \in live' \ (dirty' \cup closing' \cup ToSet(idle'))
             /\ \A d \in Callers \ {c} : held'[d] # held'[c]
             /\ MaxUses # 0 => uses'[held'[c]] <= MaxUses]_vars
  BY GrantStep DEF Fit
<1>2. QED
  BY <1>1, AlwaysFit, PoolTypeOK, PTL DEF Spec, GrantsAreFit
-----------------------------------------------------------------------------
(* Every waiter is settled once                                            *)

(* shift() *)
LEMMA ShiftSet ==
  ASSUME NEW S, NEW q \in Seq(S), q # <<>>, IsInjective(q)
  PROVE  /\ Head(q) \in S /\ Head(q) \in ToSet(q)
         /\ Tail(q) \in Seq(S)
         /\ ToSet(Tail(q)) = ToSet(q) \ {Head(q)}
         /\ IsInjective(Tail(q))
<1>1. /\ Len(q) \in Nat \ {0} /\ DOMAIN q = 1..Len(q)
      /\ Head(q) \in S /\ Tail(q) \in Seq(S)
      /\ DOMAIN Tail(q) = 1..Len(q) - 1
      /\ \A i \in 1..Len(q) - 1 : Tail(q)[i] = q[i + 1]
      /\ Head(q) = q[1]
  BY EmptySeq, LenProperties, HeadTailProperties
<1>2. /\ 1 \in 1..Len(q)
      /\ \A i \in 1..Len(q) - 1 : i + 1 \in 1..Len(q) /\ i + 1 # 1
      /\ \A i \in 1..Len(q) : i # 1 => i - 1 \in 1..Len(q) - 1 /\ (i - 1) + 1 = i
      /\ \A i, j \in 1..Len(q) - 1 : i + 1 = j + 1 => i = j
  BY <1>1
<1>3. \A i, j \in 1..Len(q) : q[i] = q[j] => i = j
  BY <1>1 DEF IsInjective
<1>4. ToSet(Tail(q)) \subseteq ToSet(q) \ {Head(q)}
  BY <1>1, <1>2, <1>3 DEF ToSet
<1>5. ToSet(q) \ {Head(q)} \subseteq ToSet(Tail(q))
  <2>1. SUFFICES ASSUME NEW i \in 1..Len(q), i # 1 PROVE q[i] \in ToSet(Tail(q))
    BY <1>1 DEF ToSet
  <2>2. i - 1 \in DOMAIN Tail(q) /\ Tail(q)[i - 1] = q[i]
    BY <1>1, <1>2, <2>1
  <2>3. QED
    BY <2>2 DEF ToSet
<1>6. IsInjective(Tail(q))
  BY <1>1, <1>2, <1>3 DEF IsInjective
<1>7. Head(q) \in ToSet(q)
  BY <1>1, <1>2 DEF ToSet
<1>8. QED
  BY <1>1, <1>4, <1>5, <1>6, <1>7

(* What the filter of the timer leaves. *)
LEMMA RemoveSet ==
  ASSUME NEW S, NEW q \in Seq(S), NEW i \in DOMAIN q, IsInjective(q)
  PROVE  /\ ToSet(RemoveAt(q, i)) = ToSet(q) \ {q[i]}
         /\ IsInjective(RemoveAt(q, i))
<1> DEFINE n == Len(q)
           r == RemoveAt(q, i)
<1>1. n \in Nat /\ i \in 1..n /\ DOMAIN q = 1..n
  BY LenProperties
<1> DEFINE a == SubSeq(q, 1, i - 1)
           b == SubSeq(q, i + 1, n)
<1>2. /\ a \in Seq(S) /\ Len(a) = i - 1 /\ \A k \in 1..i - 1 : a[k] = q[k]
  <2>1. \A k \in 1..i - 1 : q[k] \in S
    BY <1>1, ElementOfSeq
  <2>2. /\ i - 1 - 1 + 1 = i - 1 /\ (IF 1 <= i - 1 THEN i - 1 - 1 + 1 ELSE 0) = i - 1
        /\ \A k \in 1..i - 1 : 1 + k - 1 = k
    BY <1>1
  <2>3. 1 \in Int /\ i - 1 \in Int
    BY <1>1
  <2>4. QED
    BY <2>1, <2>2, <2>3, SubSeqProperties
<1>3. /\ b \in Seq(S) /\ Len(b) = n - i /\ \A k \in 1..n - i : b[k] = q[i + k]
  <2>1. \A k \in i + 1..n : q[k] \in S
    BY <1>1, ElementOfSeq
  <2>2. /\ n - (i + 1) + 1 = n - i /\ (IF i + 1 <= n THEN n - (i + 1) + 1 ELSE 0) = n - i
        /\ \A k \in 1..n - i : i + 1 + k - 1 = i + k
    BY <1>1
  <2>3. i + 1 \in Int /\ n \in Int
    BY <1>1
  <2>4. QED
    BY <2>1, <2>2, <2>3, SubSeqProperties
<1> HIDE DEF a, b, n
<1>4. /\ r \in Seq(S) /\ Len(r) = n - 1
      /\ \A k \in 1..n - 1 : r[k] = IF k < i THEN q[k] ELSE q[k + 1]
  <2>1. r = a \o b
    BY DEF RemoveAt, a, b, n
  <2>2. /\ r \in Seq(S) /\ Len(r) = (i - 1) + (n - i)
        /\ \A k \in 1..(i - 1) + (n - i) : r[k] = IF k <= i - 1 THEN a[k] ELSE b[k - (i - 1)]
    BY <1>2, <1>3, <2>1, ConcatProperties
  <2>3. (i - 1) + (n - i) = n - 1
    BY <1>1
  <2>4. ASSUME NEW k \in 1..n - 1 PROVE r[k] = IF k < i THEN q[k] ELSE q[k + 1]
    <3>1. CASE k < i
      <4>1. k <= i - 1 /\ k \in 1..i - 1
        BY <1>1, <3>1
      <4>2. QED
        BY <1>2, <2>2, <2>3, <3>1, <4>1
    <3>2. CASE ~(k < i)
      <4>1. ~(k <= i - 1) /\ k - (i - 1) \in 1..n - i /\ i + (k - (i - 1)) = k + 1
        BY <1>1, <3>2
      <4>2. QED
        BY <1>3, <2>2, <2>3, <3>2, <4>1
    <3>3. QED
      BY <3>1, <3>2
  <2>5. QED
    BY <2>2, <2>3, <2>4
<1> HIDE DEF r
<1>5. DOMAIN r = 1..n - 1
  BY <1>4, LenProperties
<1>6. \A j, k \in 1..n : q[j] = q[k] => j = k
  BY <1>1 DEF IsInjective
<1>7. ASSUME NEW k \in 1..n - 1
      PROVE  \E j \in 1..n : j # i /\ r[k] = q[j] /\ j = IF k < i THEN k ELSE k + 1
  BY <1>1, <1>4
<1>8. ASSUME NEW j \in 1..n, j # i PROVE \E k \in 1..n - 1 : r[k] = q[j]
  <2>1. CASE j < i
    <3>1. j \in 1..n - 1
      BY <1>1, <2>1
    <3>2. QED
      BY <1>4, <2>1, <3>1
  <2>2. CASE ~(j < i)
    <3>1. j - 1 \in 1..n - 1 /\ ~(j - 1 < i) /\ (j - 1) + 1 = j
      BY <1>1, <1>8, <2>2
    <3>2. QED
      BY <1>4, <3>1
  <2>3. QED
    BY <2>1, <2>2
<1>9. ToSet(r) = ToSet(q) \ {q[i]}
  <2>1. ASSUME NEW e \in ToSet(r) PROVE e \in ToSet(q) \ {q[i]}
    <3>1. PICK k \in 1..n - 1 : e = r[k]
      BY <1>5 DEF ToSet
    <3>2. PICK j \in 1..n : j # i /\ e = q[j]
      BY <1>7, <3>1
    <3>3. QED
      BY <1>1, <1>6, <3>2 DEF ToSet
  <2>2. ASSUME NEW e \in ToSet(q) \ {q[i]} PROVE e \in ToSet(r)
    <3>1. PICK j \in 1..n : e = q[j] /\ j # i
      BY <1>1 DEF ToSet
    <3>2. PICK k \in 1..n - 1 : r[k] = e
      BY <1>8, <3>1
    <3>3. QED
      BY <1>5, <3>2 DEF ToSet
  <2>3. QED
    BY <2>1, <2>2
<1>10. IsInjective(r)
  <2>1. SUFFICES ASSUME NEW k \in 1..n - 1, NEW l \in 1..n - 1, r[k] = r[l] PROVE k = l
    BY <1>5 DEF IsInjective
  <2>2. (IF k < i THEN k ELSE k + 1) = (IF l < i THEN l ELSE l + 1)
    BY <1>6, <1>7, <2>1
  <2>3. QED
    BY <1>1, <2>2
<1>11. QED
  BY <1>9, <1>10 DEF r

(* The queue, and those served, are the queued callers, each once.         *)
Queued ==
  /\ IsInjective(waiters)
  /\ \A c \in Callers : c \in ToSet(waiters) => pc[c] = "queued"
  /\ \A d \in Callers : serving[d] # None <=> pc[d] = "serving"
  /\ \A d \in Callers : serving[d] \in Callers =>
        pc[serving[d]] = "queued" /\ serving[d] \notin ToSet(waiters)
  /\ \A d, e \in Callers : serving[d] \in Callers /\ serving[d] = serving[e] => d = e
  /\ \A c \in Callers : pc[c] = "queued" =>
        c \in ToSet(waiters) \/ \E d \in Callers : serving[d] = c

LEMMA QueueFacts ==
  ASSUME TypeOK
  PROVE  /\ waiters \in Seq(Callers) /\ ToSet(waiters) \subseteq Callers
         /\ serving \in [Callers -> Callers \cup {None, Expired}]
         /\ pc \in [Callers -> Stages]
         /\ None \notin Callers /\ Expired \notin Callers /\ None # Expired
<1>1. ToSet(waiters) \subseteq Callers
  BY ElementOfSeq, LenProperties DEF TypeOK, Types, ToSet
<1>2. QED
  BY <1>1, IdentitiesAssumption DEF TypeOK, Types

(* A step that queues and serves nobody keeps the queue. *)
LEMMA QueueKept ==
  ASSUME TypeOK, Queued, waiters' = waiters, serving' = serving,
         \A c \in Callers : \/ pc'[c] = pc[c]
                            \/ {pc[c], pc'[c]} \cap {"queued", "serving"} = {}
  PROVE  Queued'
<1>1. \A c \in Callers : /\ pc'[c] = "queued" <=> pc[c] = "queued"
                         /\ pc'[c] = "serving" <=> pc[c] = "serving"
  OBVIOUS
<1>2. QED
  BY <1>1, QueueFacts DEF Queued

(* A turn of serveWaiters, after what it answered to the waiter before.    *)
LEMMA ServeTurnQueue ==
  ASSUME TypeOK, Queued, NEW c \in Callers, NEW n, NEW stage \in [Callers -> Stages],
         ServeTurn(c, n, stage), pc[c] \in {"discarding", "serving"},
         \A d \in Callers : stage[d] = IF d = serving[c] THEN stage[d] ELSE pc[d],
         serving[c] \in Callers => stage[serving[c]] \notin {"queued", "serving"}
  PROVE  Queued'
<1> USE QueueFacts
<1>1. c # serving[c] /\ c \notin ToSet(waiters)
  BY DEF Queued
<1>2. CASE /\ waiters # <<>>
           /\ waiters' = Tail(waiters)
           /\ serving' = [serving EXCEPT ![c] = Head(waiters)]
           /\ pc' = [stage EXCEPT ![c] = "serving"]
  <2>1. /\ Head(waiters) \in Callers /\ Head(waiters) \in ToSet(waiters)
        /\ ToSet(waiters') = ToSet(waiters) \ {Head(waiters)} /\ IsInjective(waiters')
    BY <1>2, ShiftSet DEF Queued
  <2>2. \A d \in Callers : serving[d] \in Callers => serving[d] # Head(waiters)
    BY <2>1 DEF Queued
  <2>3. ASSUME NEW d \in Callers
        PROVE  /\ serving'[d] = IF d = c THEN Head(waiters) ELSE serving[d]
               /\ pc'[d] = IF d = c THEN "serving" ELSE stage[d]
    BY <1>2
  <2>4. \A d \in Callers : d # c => (pc'[d] = "serving" <=> pc[d] = "serving")
    BY <2>3 DEF Queued
  <2>5. \A d \in Callers : pc'[d] = "queued" <=> pc[d] = "queued" /\ d # serving[c]
    BY <1>1, <2>3 DEF Queued
  <2>6. \A d \in Callers : serving[c] \in Callers /\ d # c => serving[d] # serving[c]
    BY DEF Queued
  <2>7. QED
    BY <1>1, <2>1, <2>2, <2>3, <2>4, <2>5, <2>6 DEF Queued
<1>3. CASE /\ waiters' = waiters
           /\ serving' = [serving EXCEPT ![c] = None]
           /\ pc' = [stage EXCEPT ![c] = "out"]
  <2>1. ASSUME NEW d \in Callers
        PROVE  /\ serving'[d] = IF d = c THEN None ELSE serving[d]
               /\ pc'[d] = IF d = c THEN "out" ELSE stage[d]
    BY <1>3
  <2>2. \A d \in Callers : d # c => (pc'[d] = "serving" <=> pc[d] = "serving")
    BY <2>1 DEF Queued
  <2>3. \A d \in Callers : pc'[d] = "queued" <=> pc[d] = "queued" /\ d # serving[c]
    BY <1>1, <2>1 DEF Queued
  <2>4. \A d \in Callers : serving[c] \in Callers /\ d # c => serving[d] # serving[c]
    BY DEF Queued
  <2>5. serving[c] \in Callers => serving[c] \notin ToSet(waiters)
    BY DEF Queued
  <2>6. QED
    BY <1>1, <1>3, <2>1, <2>2, <2>3, <2>4, <2>5 DEF Queued
<1>4. QED
  BY <1>2, <1>3 DEF ServeTurn

LEMMA QueuedStep == ASSUME TypeOK, Queued, [Next]_vars PROVE Queued'
<1> USE QueueFacts
<1>1. ASSUME NEW c \in Callers, Acquire(c) \/ EvictDone(c) PROVE Queued'
  <2>1. serving' = serving /\ pc[c] \in {"out", "evicting"}
    BY <1>1 DEF Acquire, EvictDone, AcquireBody
  <2>2. CASE Refused(c) \/ TakeIdle(c) \/ Connect(c)
    <3>1. /\ waiters' = waiters
          /\ \A d \in Callers : d # c => pc'[d] = pc[d]
          /\ pc'[c] \in {"out", "evicting", "validating", "connecting"}
      BY <2>2 DEF Refused, TakeIdle, Connect
    <3>2. QED
      BY <2>1, <3>1, QueueKept
  <2>3. CASE Enqueue(c)
    <3>1. c \notin ToSet(waiters) /\ serving[c] = None
      BY <2>1 DEF Queued
    <3>2. ToSet(waiters') = ToSet(waiters) \cup {c} /\ IsInjective(waiters')
      BY <2>3, <3>1, PushSet DEF Enqueue, Queued
    <3>3. \A d \in Callers : pc'[d] = IF d = c THEN "queued" ELSE pc[d]
      BY <2>3 DEF Enqueue
    <3>4. \A d \in Callers : serving[d] # c
      BY <2>1 DEF Queued
    <3>5. QED
      BY <2>1, <3>1, <3>2, <3>3, <3>4 DEF Queued
  <2>4. QED
    BY <1>1, <2>2, <2>3 DEF Acquire, EvictDone, AcquireBody
<1>2. ASSUME NEW c \in Callers,
             \/ ValidateDone(c) \/ ConnectDone(c) \/ ConnectFail(c) \/ Work(c) \/ Settle(c)
             \/ Release(c) \/ ResetDone(c) \/ CheckFailed(c) \/ Shelve(c) \/ Warm(c) \/ WarmDone(c)
      PROVE  Queued'
  <2>1. /\ UNCHANGED <<waiters, serving>>
        /\ \A d \in Callers : d # c => pc'[d] = pc[d]
        /\ \/ pc'[c] = pc[c]
           \/ {pc[c], pc'[c]} \cap {"queued", "serving"} = {}
    BY <1>2
    DEF ValidateDone, ConnectDone, ConnectFail, Work, Settle, Release, ReleaseDiscard, ReleaseClean,
        ReleaseReset, ResetDone, CheckFailed, StartDiscard, Shelve, Warm, WarmDone, WarmTurn,
        poolVars, callVars
  <2>2. QED
    BY <2>1, QueueKept
<1>3. ASSUME NEW c \in Callers, Timeout(c) PROVE Queued'
  <2>1. /\ pc[c] = "queued"
        /\ \A d \in Callers : pc'[d] = IF d = c THEN "out" ELSE pc[d]
        /\ \A d \in Callers : serving'[d] = IF serving[d] = c THEN Expired ELSE serving[d]
    BY <1>3 DEF Timeout
  <2>2. ToSet(waiters') = ToSet(waiters) \ {c} /\ IsInjective(waiters')
    <3>1. CASE c \notin ToSet(waiters) /\ waiters' = waiters
      BY <3>1 DEF Queued
    <3>2. ASSUME NEW i \in DOMAIN waiters, waiters[i] = c, waiters' = RemoveAt(waiters, i)
          PROVE  ToSet(waiters') = ToSet(waiters) \ {c} /\ IsInjective(waiters')
      BY <3>2, RemoveSet DEF Queued
    <3>3. QED
      BY <1>3, <3>1, <3>2 DEF Timeout
  <2>3. QED
    BY <2>1, <2>2 DEF Queued
<1>4. ASSUME NEW c \in Callers, HandOver(c) PROVE Queued'
  <2>1. /\ pc[c] = "checking" /\ waiters # <<>> /\ waiters' = Tail(waiters) /\ serving' = serving
        /\ pc' = [pc EXCEPT ![c] = "out", ![Head(waiters)] = "leased"]
    BY <1>4 DEF HandOver
  <2>2. /\ Head(waiters) \in Callers /\ Head(waiters) \in ToSet(waiters)
        /\ ToSet(waiters') = ToSet(waiters) \ {Head(waiters)} /\ IsInjective(waiters')
    BY <2>1, ShiftSet DEF Queued
  <2>3. pc[Head(waiters)] = "queued" /\ Head(waiters) # c
    BY <2>1, <2>2 DEF Queued
  <2>4. \A d \in Callers : pc'[d] = IF d = Head(waiters) THEN "leased"
                                   ELSE IF d = c THEN "out" ELSE pc[d]
    BY <2>1, <2>2, <2>3
  <2>5. \A d \in Callers : serving[d] # Head(waiters)
    BY <2>2 DEF Queued
  <2>6. QED
    BY <2>1, <2>2, <2>3, <2>4, <2>5 DEF Queued
<1>5. ASSUME NEW c \in Callers, DiscardDone(c) PROVE Queued'
  <2>1. ServeTurn(c, created, pc) /\ pc[c] = "discarding" /\ serving[c] \notin Callers
    BY <1>5 DEF DiscardDone, Queued
  <2>2. QED
    BY <2>1, ServeTurnQueue
<1>6. ASSUME NEW c \in Callers, ServeDone(c) PROVE Queued'
  <2> DEFINE stage == [pc EXCEPT ![serving[c]] = "leased"]
  <2>1. /\ stage \in [Callers -> Stages]
        /\ \A d \in Callers : stage[d] = IF d = serving[c] THEN "leased" ELSE pc[d]
    BY DEF Stages
  <2>2. ServeTurn(c, created, stage) /\ pc[c] = "serving"
    BY <1>6 DEF ServeDone
  <2> HIDE DEF stage
  <2>3. QED
    BY <2>1, <2>2, ServeTurnQueue
<1>7. ASSUME NEW c \in Callers, ServeExpired(c) PROVE Queued'
  <2>1. ServeTurn(c, created, pc) /\ pc[c] = "serving" /\ serving[c] \notin Callers
    BY <1>7 DEF ServeExpired
  <2>2. QED
    BY <2>1, ServeTurnQueue
<1>8. ASSUME NEW c \in Callers, ServeFail(c) PROVE Queued'
  <2> DEFINE stage == [d \in Callers |-> IF d = serving[c] THEN "out" ELSE pc[d]]
  <2>1. /\ stage \in [Callers -> Stages]
        /\ \A d \in Callers : stage[d] = IF d = serving[c] THEN "out" ELSE pc[d]
    BY DEF Stages
  <2>2. ServeTurn(c, created - 1, stage) /\ pc[c] = "serving"
    BY <1>8 DEF ServeFail
  <2> HIDE DEF stage
  <2>3. QED
    BY <2>1, <2>2, ServeTurnQueue
<1>9. CASE Close
  <2>1. /\ waiters' = <<>> /\ serving' = serving
        /\ \A d \in Callers : pc'[d] = IF d \in ToSet(waiters) THEN "out" ELSE pc[d]
    BY <1>9 DEF Close
  <2>2. ToSet(waiters') = {} /\ IsInjective(waiters')
    BY <2>1 DEF ToSet, IsInjective
  <2>3. QED
    BY <2>1, <2>2 DEF Queued
<1>10. CASE (\E s \in Sessions : CloseLogout(s)) \/ SweepStart \/ SweepNext \/ UNCHANGED vars
  <2>1. UNCHANGED <<waiters, serving, pc>>
    BY <1>10 DEF CloseLogout, SweepStart, SweepNext, vars, poolVars, callVars
  <2>2. QED
    BY <2>1, QueueKept
<1>11. QED
  BY <1>1, <1>2, <1>3, <1>4, <1>5, <1>6, <1>7, <1>8, <1>9, <1>10 DEF Next, CallerStep, Release

LEMMA AlwaysQueued == Spec => []Queued
<1>1. Init => Queued
  BY IdentitiesAssumption DEF Init, Queued, ToSet, IsInjective
<1>2. QED
  BY <1>1, QueuedStep, PoolTypeOK, PTL DEF Spec

(* The promise of a queued acquire is in the queue, or with one release    *)
(* that logs in for it, once: with any timers, sweeping included, and      *)
(* whatever fails, it is neither forgotten nor settled twice.              *)
THEOREM PoolTracksWaiters == Spec => []EveryWaiterTracked
<1>1. ASSUME TypeOK, Queued, NEW c \in Callers
      PROVE  LET places  == {i \in DOMAIN waiters : waiters[i] = c}
                 servers == {d \in Callers : serving[d] = c}
             IN  Cardinality(places) + Cardinality(servers) = IF pc[c] = "queued" THEN 1 ELSE 0
  <2> DEFINE places  == {i \in DOMAIN waiters : waiters[i] = c}
             servers == {d \in Callers : serving[d] = c}
  <2>1. IF c \in ToSet(waiters) THEN \E i : places = {i} ELSE places = {}
    BY <1>1 DEF Queued, IsInjective, ToSet
  <2>2. IF \E d \in Callers : serving[d] = c THEN \E d : servers = {d} ELSE servers = {}
    <3>1. CASE \E d \in Callers : serving[d] = c
      <4>1. PICK d \in Callers : serving[d] = c
        BY <3>1
      <4>2. servers = {d}
        BY <1>1, <4>1 DEF Queued
      <4>3. QED
        BY <3>1, <4>2
    <3>2. QED
      BY <3>1
  <2>3. c \in ToSet(waiters) => servers = {}
    BY <1>1 DEF Queued
  <2>4. pc[c] = "queued" <=> c \in ToSet(waiters) \/ \E d \in Callers : serving[d] = c
    BY <1>1 DEF Queued
  <2>5. Cardinality({}) = 0 /\ \A x : Cardinality({x}) = 1
    BY FS_EmptySet, FS_Singleton
  <2> HIDE DEF places, servers
  <2>6. Cardinality(places) + Cardinality(servers) = IF pc[c] = "queued" THEN 1 ELSE 0
    <3>1. CASE c \in ToSet(waiters)
      <4>1. pc[c] = "queued" /\ Cardinality(servers) = 0 /\ Cardinality(places) = 1
        BY <2>1, <2>3, <2>4, <2>5, <3>1
      <4>2. QED
        BY <4>1
    <3>2. CASE c \notin ToSet(waiters) /\ \E d \in Callers : serving[d] = c
      <4>1. pc[c] = "queued" /\ Cardinality(servers) = 1 /\ Cardinality(places) = 0
        BY <2>1, <2>2, <2>4, <2>5, <3>2
      <4>2. QED
        BY <4>1
    <3>3. CASE c \notin ToSet(waiters) /\ ~\E d \in Callers : serving[d] = c
      <4>1. pc[c] # "queued" /\ Cardinality(servers) = 0 /\ Cardinality(places) = 0
        BY <2>1, <2>2, <2>4, <2>5, <3>3
      <4>2. QED
        BY <4>1
    <3>4. QED
      BY <3>1, <3>2, <3>3
  <2>7. QED
    BY <2>6 DEF places, servers
<1>2. TypeOK /\ Queued => EveryWaiterTracked
  BY <1>1 DEF EveryWaiterTracked
<1>3. QED
  BY <1>2, AlwaysQueued, PoolTypeOK, PTL

-----------------------------------------------------------------------------
(* The capacity in use                                                     *)

(* An operation that works on no session has none. *)
EmptyHanded == \A c \in Callers : pc[c] \notin Holding => held[c] = None

LEMMA EmptyHandedStep ==
  ASSUME TypeOK, Queued, EmptyHanded, [Next]_vars
  PROVE  EmptyHanded'
<1> USE QueueFacts DEF Holding
<1>0. held \in [Callers -> Sessions \cup {None}]
  BY DEF TypeOK, Types
<1>1. ASSUME NEW c \in Callers, Acquire(c) \/ EvictDone(c) PROVE EmptyHanded'
  <2>1. /\ \A d \in Callers : d # c => pc'[d] = pc[d] /\ held'[d] = held[d]
        /\ held'[c] = None \/ pc'[c] \in {"evicting", "validating"}
    BY <1>0, <1>1
    DEF Acquire, EvictDone, AcquireBody, Refused, TakeIdle, Connect, Enqueue
  <2>2. QED
    BY <2>1 DEF EmptyHanded
<1>2. ASSUME NEW c \in Callers,
             \/ ValidateDone(c) \/ ConnectDone(c) \/ ConnectFail(c) \/ Timeout(c) \/ Work(c)
             \/ Settle(c) \/ Release(c) \/ ResetDone(c) \/ CheckFailed(c) \/ Shelve(c)
             \/ Warm(c) \/ WarmDone(c)
      PROVE  EmptyHanded'
  <2>1. /\ \A d \in Callers : d # c => pc'[d] = pc[d] /\ held'[d] = held[d]
        /\ \/ held'[c] = None
           \/ pc'[c] \in Holding
           \/ pc[c] \notin Holding /\ held'[c] = held[c]
    BY <1>0, <1>2
    DEF ValidateDone, ConnectDone, ConnectFail, Timeout, Work, Settle, Release, ReleaseDiscard,
        ReleaseClean, ReleaseReset, ResetDone, CheckFailed, StartDiscard, Shelve, Warm, WarmDone,
        WarmTurn, callVars
  <2>2. QED
    BY <2>1 DEF EmptyHanded
<1>3. ASSUME NEW c \in Callers, HandOver(c) PROVE EmptyHanded'
  <2>1. \A d \in Callers : \/ pc'[d] = "leased"
                           \/ pc'[d] = pc[d] /\ held'[d] = held[d]
                           \/ held'[d] = None
    BY <1>0, <1>3 DEF HandOver
  <2>2. QED
    BY <2>1 DEF EmptyHanded
<1>4. ASSUME NEW c \in Callers,
             DiscardDone(c) \/ ServeDone(c) \/ ServeExpired(c) \/ ServeFail(c)
      PROVE  EmptyHanded'
  <2>1. serving[c] \in Callers => pc[serving[c]] = "queued"
    BY DEF Queued
  <2>2. pc[c] = "serving" => held[c] = None
    BY DEF EmptyHanded
  <2>3. \A d \in Callers : serving[c] = d => held[d] = None
    BY <2>1 DEF EmptyHanded
  <2>4. \A d \in Callers : \/ pc'[d] = "leased"
                           \/ pc'[d] = pc[d] /\ held'[d] = held[d]
                           \/ held'[d] = None
    <3>1. CASE DiscardDone(c)
      BY <1>0, <3>1 DEF DiscardDone, ServeTurn
    <3>2. CASE ServeDone(c)
      <4>1. pc[c] = "serving" /\ c # serving[c]
        BY <2>1, <3>2 DEF ServeDone
      <4>2. QED
        BY <1>0, <2>2, <3>2, <4>1 DEF ServeDone, ServeTurn
    <3>3. CASE ServeExpired(c) \/ ServeFail(c)
      BY <1>0, <2>2, <2>3, <3>3 DEF ServeExpired, ServeFail, ServeTurn
    <3>4. QED
      BY <1>4, <3>1, <3>2, <3>3
  <2>5. QED
    BY <2>4 DEF EmptyHanded
<1>5. CASE Close
  BY <1>5 DEF Close, EmptyHanded, Queued
<1>6. CASE (\E s \in Sessions : CloseLogout(s)) \/ SweepStart \/ SweepNext \/ UNCHANGED vars
  <2>1. UNCHANGED <<held, pc>>
    BY <1>6 DEF CloseLogout, SweepStart, SweepNext, vars, callVars
  <2>2. QED
    BY <2>1 DEF EmptyHanded
<1>7. QED
  BY <1>1, <1>2, <1>3, <1>4, <1>5, <1>6 DEF Next, CallerStep, Release

LEMMA AlwaysEmptyHanded == Spec => []EmptyHanded
<1>1. Init => EmptyHanded
  BY DEF Init, EmptyHanded
<1>2. QED
  BY <1>1, EmptyHandedStep, AlwaysQueued, PoolTypeOK, PTL DEF Spec

(* The sessions #created counts, and what it is made of. *)
Counted == live \ Leaving

Balance(n, C, K) == IsFiniteSet(C) /\ IsFiniteSet(K) /\ n = Cardinality(C) + Cardinality(K)

LEMMA BalanceSteps ==
  ASSUME NEW n, NEW C, NEW K, Balance(n, C, K)
  PROVE  /\ n \in Nat
         /\ \A c : c \notin C => Balance(n + 1, C \cup {c}, K)
         /\ \A s : s \notin K => Balance(n + 1, C, K \cup {s})
         /\ \A c \in C : n - 1 \in Nat /\ Balance(n - 1, C \ {c}, K)
         /\ \A s \in K : n - 1 \in Nat /\ Balance(n - 1, C, K \ {s})
<1>1. Cardinality(C) \in Nat /\ Cardinality(K) \in Nat /\ n = Cardinality(C) + Cardinality(K)
  BY FS_CardinalityType DEF Balance
<1>2. \A c : c \notin C => Balance(n + 1, C \cup {c}, K)
  <2>1. SUFFICES ASSUME NEW c, c \notin C PROVE Balance(n + 1, C \cup {c}, K)
    OBVIOUS
  <2>2. IsFiniteSet(C \cup {c}) /\ Cardinality(C \cup {c}) = Cardinality(C) + 1
    BY <2>1, FS_AddElement DEF Balance
  <2>3. n + 1 = (Cardinality(C) + 1) + Cardinality(K)
    BY <1>1
  <2>4. QED
    BY <1>1, <2>2, <2>3 DEF Balance
<1>3. \A s : s \notin K => Balance(n + 1, C, K \cup {s})
  <2>1. SUFFICES ASSUME NEW s, s \notin K PROVE Balance(n + 1, C, K \cup {s})
    OBVIOUS
  <2>2. IsFiniteSet(K \cup {s}) /\ Cardinality(K \cup {s}) = Cardinality(K) + 1
    BY <2>1, FS_AddElement DEF Balance
  <2>3. n + 1 = (Cardinality(K) + 1) + Cardinality(C)
    BY <1>1
  <2>4. QED
    BY <1>1, <2>2, <2>3 DEF Balance
<1>4. \A c \in C : n - 1 \in Nat /\ Balance(n - 1, C \ {c}, K)
  <2>1. SUFFICES ASSUME NEW c \in C PROVE n - 1 \in Nat /\ Balance(n - 1, C \ {c}, K)
    OBVIOUS
  <2>2. IsFiniteSet(C \ {c}) /\ Cardinality(C \ {c}) = Cardinality(C) - 1
    BY FS_RemoveElement DEF Balance
  <2>3. Cardinality(C \ {c}) \in Nat
    BY <2>2, FS_CardinalityType
  <2>4. QED
    BY <1>1, <2>2, <2>3 DEF Balance
<1>5. \A s \in K : n - 1 \in Nat /\ Balance(n - 1, C, K \ {s})
  <2>1. SUFFICES ASSUME NEW s \in K PROVE n - 1 \in Nat /\ Balance(n - 1, C, K \ {s})
    OBVIOUS
  <2>2. IsFiniteSet(K \ {s}) /\ Cardinality(K \ {s}) = Cardinality(K) - 1
    BY FS_RemoveElement DEF Balance
  <2>3. Cardinality(K \ {s}) \in Nat
    BY <2>2, FS_CardinalityType
  <2>4. QED
    BY <1>1, <2>2, <2>3 DEF Balance
<1>6. QED
  BY <1>1, <1>2, <1>3, <1>4, <1>5

(* #idle is emptied at once. *)
LEMMA BalanceAll ==
  ASSUME NEW n, NEW C, NEW K, Balance(n, C, K),
         NEW q \in Seq(K), IsInjective(q)
  PROVE  Len(q) <= n /\ Balance(n - Len(q), C, K \ ToSet(q))
<1>1. Len(q) \in Nat /\ DOMAIN q = 1..Len(q) /\ q \in [1..Len(q) -> K]
  BY LenProperties
<1>2. ToSet(q) \subseteq K
  BY <1>1 DEF ToSet
<1>3. q \in Bijection(1..Len(q), ToSet(q))
  <2>1. q \in [1..Len(q) -> ToSet(q)]
    BY <1>1 DEF ToSet
  <2>2. \A e \in ToSet(q) : \E i \in 1..Len(q) : q[i] = e
    BY <1>1 DEF ToSet
  <2>3. QED
    BY <2>1, <2>2 DEF Bijection, Injection, Surjection
<1>4. Cardinality(ToSet(q)) = Len(q)
  BY <1>1, <1>3, FS_CountingElements DEF ExistsBijection
<1>5. /\ IsFiniteSet(K \ ToSet(q))
      /\ Cardinality(K \ ToSet(q)) = Cardinality(K) - Cardinality(K \cap ToSet(q))
  BY FS_Difference DEF Balance
<1>6. K \cap ToSet(q) = ToSet(q)
  BY <1>2
<1>7. Cardinality(K \ ToSet(q)) \in Nat /\ Cardinality(C) \in Nat /\ Cardinality(K) \in Nat
  BY <1>5, FS_CardinalityType DEF Balance
<1>8. Cardinality(K \ ToSet(q)) = Cardinality(K) - Len(q)
  BY <1>4, <1>5, <1>6
<1>9. n = Cardinality(C) + Cardinality(K) /\ IsFiniteSet(C)
  BY DEF Balance
<1>10. Len(q) <= n /\ n - Len(q) = Cardinality(C) + Cardinality(K \ ToSet(q))
  <2> DEFINE m == Cardinality(K \ ToSet(q))
             k == Cardinality(K)
             i == Cardinality(C)
  <2>1. m \in Nat /\ k \in Nat /\ i \in Nat /\ m = k - Len(q) /\ n = i + k
    BY <1>7, <1>8, <1>9
  <2> HIDE DEF m, k, i
  <2>2. Len(q) <= n /\ n - Len(q) = i + m
    BY <1>1, <2>1
  <2>3. QED
    BY <2>2 DEF m, i
<1>11. QED
  BY <1>5, <1>9, <1>10 DEF Balance

CountsRight == Balance(created, Creating, Counted) /\ created <= MaxSize

(* What the counting of each operation rests on. *)
LEMMA CountFacts ==
  ASSUME TypeOK, Fit, CountsRight
  PROVE  /\ pc \in [Callers -> Stages] /\ held \in [Callers -> Sessions \cup {None}]
         /\ idle \in Seq(Counted) /\ IsInjective(idle) /\ ToSet(idle) \subseteq Counted
         /\ created \in Nat
         /\ \A c \in Callers : pc[c] \in Holding \ {"evicting", "discarding"} => held[c] \in Counted
         /\ \A c, d \in Callers : held[c] \in Sessions /\ held[c] = held[d] => c = d
         /\ \A c \in Callers : pc[c] \in Holding => held[c] \in Sessions
         /\ \A c \in Callers : held[c] \notin ToSet(idle) \cup closing
         /\ MaxSize \in Nat /\ WarmTarget \in Nat /\ WarmTarget <= MaxSize
<1>1. /\ pc \in [Callers -> Stages] /\ held \in [Callers -> Sessions \cup {None}]
      /\ idle \in Seq(Sessions) /\ IsInjective(idle) /\ None \notin Sessions
      /\ \A c \in Callers : pc[c] \in Holding => held[c] \in Sessions
      /\ \A c, d \in Callers : held[c] \in Sessions /\ held[c] = held[d] => c = d
      /\ \A c \in Callers : held[c] \notin ToSet(idle) \cup closing
      /\ ToSet(idle) \cap closing = {} /\ ToSet(idle) \subseteq Sessions
  BY FitFacts DEF Fit
<1>2. ToSet(idle) \subseteq live /\ \A c \in Callers : pc[c] \in Holding => held[c] \in live
  BY DEF Fit, Ready
<1>3. ToSet(idle) \subseteq Counted
  BY <1>1, <1>2 DEF Counted, Leaving
<1>4. \A c \in Callers : pc[c] \in Holding \ {"evicting", "discarding"} => held[c] \in Counted
  BY <1>1, <1>2 DEF Counted, Leaving, Holding
<1>5. idle \in Seq(Counted)
  <2>1. /\ Len(idle) \in Nat /\ idle \in [1..Len(idle) -> Sessions]
    BY <1>1, LenProperties
  <2>2. idle \in [1..Len(idle) -> Counted]
    BY <1>3, <2>1 DEF ToSet
  <2>3. QED
    BY <2>1, <2>2, SeqDef
<1>6. created \in Nat
  BY BalanceSteps DEF CountsRight
<1>7. MaxSize \in Nat /\ WarmTarget \in Nat /\ WarmTarget <= MaxSize
  BY SizesAssumption DEF WarmTarget
<1>8. QED
  BY <1>1, <1>3, <1>4, <1>5, <1>6, <1>7

(* The counted sessions after a step, one by one. *)
IsCounted(s) ==
  s \in live \ closing /\ \A d \in Callers : pc[d] \in {"evicting", "discarding"} => held[d] # s

LEMMA CountedOneByOne == \A s : s \in Counted <=> IsCounted(s)
BY DEF Counted, Leaving, IsCounted

LEMMA CountedAfter ==
  ASSUME NEW K, \A s : s \in K <=> IsCounted(s)'
  PROVE  Counted' = K
BY DEF Counted, Leaving, IsCounted

LEMMA CreatingAfter ==
  ASSUME NEW C, C \subseteq Callers,
         \A c \in Callers : c \in C <=> pc'[c] \in {"connecting", "warming", "serving"}
  PROVE  Creating' = C
BY DEF Creating

LEMMA CountStep ==
  ASSUME "idle" \notin Timers, TypeOK, Fit, Queued, EmptyHanded, CountsRight, [Next]_vars
  PROVE  CountsRight'
<1> USE CountFacts, CountedOneByOne DEF Holding
<1>a. Balance(created, Creating, Counted) /\ created <= MaxSize /\ Creating \subseteq Callers
  BY DEF CountsRight, Creating
<1>b. Less(1) = IF created >= 1 THEN created - 1 ELSE 0
  BY DEF Less
(* What the count becomes when one session stops, or one login begins. *)
<1>c. \A s \in Counted : Less(1) = created - 1 /\ Balance(Less(1), Creating, Counted \ {s})
  <2>1. SUFFICES ASSUME NEW s \in Counted
                 PROVE  Less(1) = created - 1 /\ Balance(Less(1), Creating, Counted \ {s})
    OBVIOUS
  <2>2. created - 1 \in Nat /\ Balance(created - 1, Creating, Counted \ {s})
    BY <1>a, BalanceSteps
  <2>3. Less(1) = created - 1
    BY <1>b, <2>2
  <2>4. QED
    BY <2>2, <2>3
<1>1. ASSUME NEW c \in Callers, Acquire(c) \/ EvictDone(c) PROVE CountsRight'
  <2>1. /\ closing' = closing /\ pc[c] \in {"out", "evicting"} /\ c \notin Creating
        /\ \A s : s \in live' <=> s \in live /\ ~(pc[c] = "evicting" /\ s = held[c])
    BY <1>1 DEF Acquire, EvictDone, AcquireBody, LogOut, Creating
  <2>2. ASSUME \A d \in Callers : d # c => pc'[d] = pc[d] /\ held'[d] = held[d]
        PROVE  \A s : IsCounted(s)' <=>
                 s \in Counted /\ (pc'[c] \in {"evicting", "discarding"} => held'[c] # s)
    BY <2>1, <2>2 DEF IsCounted
  <2>3. CASE TakeIdle(c)
    <3>1. /\ Last(idle) \in ToSet(idle) /\ held'[c] = Last(idle)
          /\ \A d \in Callers : d # c => pc'[d] = pc[d] /\ held'[d] = held[d]
          /\ \/ pc'[c] = "evicting" /\ created' = Less(1)
             \/ pc'[c] = "validating" /\ created' = created
      BY <2>3, PopSet DEF TakeIdle
    <3>2. Creating' = Creating
      BY <2>1, <3>1, CreatingAfter, <1>a DEF Creating
    <3>3. CASE pc'[c] = "evicting" /\ created' = Less(1)
      <4>1. Counted' = Counted \ {Last(idle)}
        BY <2>2, <3>1, <3>3, CountedAfter
      <4>2. QED
        <5>1. Less(1) = created - 1 /\ Balance(Less(1), Creating, Counted \ {Last(idle)})
          BY <1>c, <3>1
        <5>2. Less(1) <= MaxSize
          BY <1>a, <5>1
        <5>3. QED
          BY <3>2, <3>3, <4>1, <5>1, <5>2 DEF CountsRight
    <3>4. CASE pc'[c] = "validating" /\ created' = created
      <4>1. Counted' = Counted
        BY <2>2, <3>1, <3>4, CountedAfter
      <4>2. QED
        BY <1>a, <3>2, <3>4, <4>1 DEF CountsRight
    <3>5. QED
      BY <3>1, <3>3, <3>4
  <2>4. CASE Refused(c) \/ Enqueue(c)
    <3>1. /\ \A d \in Callers : d # c => pc'[d] = pc[d] /\ held'[d] = held[d]
          /\ pc'[c] \in {"out", "queued"} /\ created' = created
      BY <2>4 DEF Refused, Enqueue
    <3>2. Creating' = Creating
      BY <2>1, <3>1, CreatingAfter, <1>a DEF Creating
    <3>3. Counted' = Counted
      BY <2>2, <3>1, CountedAfter
    <3>4. QED
      BY <1>a, <3>1, <3>2, <3>3 DEF CountsRight
  <2>5. CASE Connect(c)
    <3>1. /\ \A d \in Callers : d # c => pc'[d] = pc[d] /\ held'[d] = held[d]
          /\ pc'[c] = "connecting" /\ created' = created + 1 /\ created < MaxSize
      BY <2>5 DEF Connect
    <3>2. Creating' = Creating \cup {c}
      BY <2>1, <3>1, CreatingAfter, <1>a DEF Creating
    <3>3. Counted' = Counted
      BY <2>2, <3>1, CountedAfter
    <3>4. QED
      BY <1>a, <2>1, <3>1, <3>2, <3>3, BalanceSteps DEF CountsRight
  <2>6. QED
    BY <1>1, <2>3, <2>4, <2>5 DEF Acquire, EvictDone, AcquireBody
(* A session begins to leave. *)
<1>2. ASSUME NEW c \in Callers, live' = live, closing' = closing, held' = held,
             pc[c] \in Holding \ {"evicting", "discarding"},
             pc'[c] \in {"evicting", "discarding"}, created' = Less(1),
             \A d \in Callers : d # c => pc'[d] = pc[d]
      PROVE  CountsRight'
  <2>1. Creating' = Creating
    BY <1>2, CreatingAfter, <1>a DEF Creating
  <2>2. Counted' = Counted \ {held[c]}
    <3>1. \A s : IsCounted(s)' <=> s \in Counted /\ s # held[c]
      BY <1>2 DEF IsCounted
    <3>2. QED
      BY <3>1, CountedAfter
  <2>3. held[c] \in Counted
    BY <1>2
  <2>4. QED
    BY <1>2, <1>a, <1>c, <2>1, <2>2, <2>3 DEF CountsRight
(* Nothing is begun or left. *)
<1>3. ASSUME live' = live, closing' = closing, created' = created,
             \A c \in Callers : /\ pc'[c] \in {"connecting", "warming", "serving"} <=>
                                     pc[c] \in {"connecting", "warming", "serving"}
                                /\ pc'[c] \in {"evicting", "discarding"} <=>
                                     pc[c] \in {"evicting", "discarding"}
                                /\ pc[c] \in {"evicting", "discarding"} => held'[c] = held[c]
      PROVE  CountsRight'
  <2>1. Creating' = Creating
    BY <1>3, CreatingAfter, <1>a DEF Creating
  <2>2. Counted' = Counted
    <3>1. \A s : IsCounted(s)' <=> s \in Counted
      BY <1>3 DEF IsCounted
    <3>2. QED
      BY <3>1, CountedAfter
  <2>3. QED
    BY <1>3, <1>a, <2>1, <2>2 DEF CountsRight
<1>4. ASSUME NEW c \in Callers,
             \/ ValidateDone(c) \/ Release(c) \/ ResetDone(c) \/ CheckFailed(c)
      PROVE  CountsRight'
  <2>1. /\ live' = live /\ closing' = closing /\ held' = held
        /\ \A d \in Callers : d # c => pc'[d] = pc[d]
        /\ pc[c] \in Holding \ {"evicting", "discarding"}
        /\ \/ pc'[c] \in {"evicting", "discarding"} /\ created' = Less(1)
           \/ pc'[c] \in Holding \ {"evicting", "discarding"} /\ created' = created
    BY <1>4
    DEF ValidateDone, Release, ReleaseDiscard, ReleaseClean, ReleaseReset, ResetDone, CheckFailed,
        StartDiscard, sessionVars, poolVars
  <2>2. CASE pc'[c] \in {"evicting", "discarding"} /\ created' = Less(1)
    BY <1>2, <2>1, <2>2
  <2>3. CASE pc'[c] \in Holding \ {"evicting", "discarding"} /\ created' = created
    BY <1>3, <2>1, <2>3
  <2>4. QED
    BY <2>1, <2>2, <2>3
<1>5. ASSUME NEW c \in Callers,
             Timeout(c) \/ Work(c) \/ Settle(c) \/ HandOver(c) \/ Shelve(c)
      PROVE  CountsRight'
  <2>1. CASE Timeout(c) \/ Work(c) \/ Settle(c) \/ Shelve(c)
    <3>1. /\ live' = live /\ closing' = closing /\ created' = created
          /\ \A d \in Callers : d # c => pc'[d] = pc[d] /\ held'[d] = held[d]
          /\ {pc[c], pc'[c]} \subseteq {"queued", "out", "leased", "checking"}
      BY <2>1 DEF Timeout, Work, Settle, Shelve, sessionVars, poolVars, callVars
    <3>2. QED
      BY <1>3, <3>1
  <2>2. CASE HandOver(c)
    <3>1. /\ waiters # <<>> /\ Queued
          /\ live' = live /\ closing' = closing /\ created' = created /\ pc[c] = "checking"
          /\ pc' = [pc EXCEPT ![c] = "out", ![Head(waiters)] = "leased"]
          /\ held' = [held EXCEPT ![c] = None, ![Head(waiters)] = held[c]]
      BY <2>2 DEF HandOver
    <3>2. Head(waiters) \in Callers /\ pc[Head(waiters)] = "queued"
      <4>1. waiters \in Seq(Callers) /\ IsInjective(waiters)
        BY QueueFacts DEF Queued
      <4>2. QED
        BY <3>1, <4>1, ShiftSet DEF Queued
    <3>3. \A d \in Callers : \/ d \in {c, Head(waiters)} /\ {pc[d], pc'[d]} \subseteq
                                                            {"queued", "out", "leased", "checking"}
                             \/ pc'[d] = pc[d] /\ held'[d] = held[d]
      BY <3>1, <3>2
    <3>4. QED
      BY <1>3, <3>1, <3>3
  <2>3. QED
    BY <1>5, <2>1, <2>2
<1>6. ASSUME NEW c \in Callers, ConnectDone(c) PROVE CountsRight'
  <2>1. PICK s \in Fresh : LogIn(s, 1) /\ held' = [held EXCEPT ![c] = s]
    BY <1>6 DEF ConnectDone
  <2>2. /\ s \notin live /\ s \notin closing /\ s \notin Counted
        /\ \A d \in Callers : held[d] # s
    BY <2>1 DEF Fresh, Counted
  <2>3. /\ pc[c] = "connecting" /\ c \in Creating
        /\ pc' = [pc EXCEPT ![c] = "leased"]
        /\ live' = live \cup {s} /\ closing' = closing /\ created' = created
    BY <1>6, <2>1 DEF ConnectDone, LogIn, poolVars, Creating
  <2>4. Creating' = Creating \ {c}
    BY <2>3, CreatingAfter, <1>a DEF Creating
  <2>5. Counted' = Counted \cup {s}
    <3>1. \A t : IsCounted(t)' <=> t \in Counted \/ t = s
      BY <2>1, <2>2, <2>3 DEF IsCounted
    <3>2. QED
      BY <3>1, CountedAfter
  <2>6. Balance(created - 1, Creating \ {c}, Counted)
    BY <1>a, <2>3, BalanceSteps
  <2>7. Balance(created - 1 + 1, Creating \ {c}, Counted \cup {s})
    BY <2>2, <2>6, BalanceSteps
  <2>8. created - 1 + 1 = created
    OBVIOUS
  <2>9. QED
    BY <1>a, <2>3, <2>4, <2>5, <2>7, <2>8 DEF CountsRight
<1>7. ASSUME NEW c \in Callers, ConnectFail(c) PROVE CountsRight'
  <2>1. /\ c \in Creating /\ pc' = [pc EXCEPT ![c] = "out"] /\ created' = created - 1
        /\ UNCHANGED <<live, closing, held>> /\ pc[c] \in {"connecting", "warming"}
    BY <1>7 DEF ConnectFail, Creating, sessionVars
  <2>2. Creating' = Creating \ {c}
    BY <2>1, CreatingAfter, <1>a DEF Creating
  <2>3. Counted' = Counted
    <3>1. \A t : IsCounted(t)' <=> t \in Counted
      BY <2>1 DEF IsCounted
    <3>2. QED
      BY <3>1, CountedAfter
  <2>4. QED
    BY <1>a, <2>1, <2>2, <2>3, BalanceSteps DEF CountsRight
(* A turn of serveWaiters on what the answer to the waiter before has left. *)
<1>8. ASSUME NEW c \in Callers, NEW n, NEW stage \in [Callers -> Stages], ServeTurn(c, n, stage),
             NEW K, Balance(n, Creating \ {c}, K), n <= MaxSize,
             \A s : s \in K <=> IsCounted(s)',
             \A d \in Callers : d # c => (stage[d] \in {"connecting", "warming", "serving"} <=>
                                            d \in Creating)
      PROVE  CountsRight'
  <2>1. Counted' = K
    BY <1>8, CountedAfter
  <2>2. n \in Nat
    BY <1>8, BalanceSteps
  <2>3. CASE n < MaxSize /\ created' = n + 1 /\ pc' = [stage EXCEPT ![c] = "serving"]
    <3>1. Creating' = (Creating \ {c}) \cup {c}
      <4> DEFINE C == (Creating \ {c}) \cup {c}
      <4>1. \A d \in Callers : pc'[d] = IF d = c THEN "serving" ELSE stage[d]
        BY <2>3
      <4>2. /\ C \subseteq Callers
            /\ \A d \in Callers : d \in C <=> pc'[d] \in {"connecting", "warming", "serving"}
        BY <1>a, <1>8, <4>1
      <4> HIDE DEF C
      <4>3. Creating' = C
        BY <4>2, CreatingAfter
      <4>4. QED
        BY <4>3 DEF C
    <3>2. Balance(n + 1, (Creating \ {c}) \cup {c}, K)
      BY <1>8, BalanceSteps
    <3>3. QED
      BY <2>1, <2>2, <2>3, <3>1, <3>2 DEF CountsRight
  <2>4. CASE created' = n /\ pc' = [stage EXCEPT ![c] = "out"]
    <3>1. Creating' = Creating \ {c}
      <4>1. \A d \in Callers : pc'[d] = IF d = c THEN "out" ELSE stage[d]
        BY <2>4
      <4>2. \A d \in Callers : d \in Creating \ {c} <=>
                               pc'[d] \in {"connecting", "warming", "serving"}
        BY <1>8, <4>1
      <4>3. QED
        BY <1>a, <4>2, CreatingAfter
    <3>2. QED
      BY <1>8, <2>1, <2>4, <3>1 DEF CountsRight
  <2>5. QED
    BY <1>8, <2>3, <2>4 DEF ServeTurn
<1>9. ASSUME NEW c \in Callers, DiscardDone(c) PROVE CountsRight'
  <2>1. /\ pc[c] = "discarding" /\ ServeTurn(c, created, pc)
        /\ live' = live \ {held[c]} /\ closing' = closing
        /\ held' = [held EXCEPT ![c] = None]
    BY <1>9 DEF DiscardDone, LogOut
  <2>2. Creating \ {c} = Creating
    BY <2>1 DEF Creating
  <2>3. /\ pc'[c] \in {"serving", "out"}
        /\ \A d \in Callers : d # c => pc'[d] = pc[d] /\ held'[d] = held[d]
    BY <2>1 DEF ServeTurn
  <2>4. \A s : s \in Counted <=> IsCounted(s)'
    BY <2>1, <2>3 DEF IsCounted
  <2>5. \A d \in Callers : d # c => (pc[d] \in {"connecting", "warming", "serving"} <=> d \in Creating)
    BY DEF Creating
  <2>6. Balance(created, Creating \ {c}, Counted) /\ created <= MaxSize
    BY <1>a, <2>2
  <2>7. QED
    BY <1>8, <2>1, <2>4, <2>5, <2>6
<1>10. ASSUME NEW c \in Callers, ServeDone(c) \/ ServeExpired(c) PROVE CountsRight'
  <2> DEFINE stage == IF serving[c] = Expired THEN pc ELSE [pc EXCEPT ![serving[c]] = "leased"]
  <2>1. PICK s \in Fresh : /\ LogIn(s, 1)
                           /\ \/ held' = held
                              \/ serving[c] # Expired /\ held' = [held EXCEPT ![serving[c]] = s]
    BY <1>10 DEF ServeDone, ServeExpired
  <2>2. /\ s \notin live /\ s \notin closing /\ s \notin Counted
        /\ \A d \in Callers : held[d] # s
    BY <2>1 DEF Fresh, Counted
  <2>3. /\ pc[c] = "serving" /\ c \in Creating /\ ServeTurn(c, created, stage)
        /\ live' = live \cup {s} /\ closing' = closing
    BY <1>10, <2>1 DEF ServeDone, ServeExpired, LogIn, Creating
  <2>4. serving[c] \in Callers => pc[serving[c]] = "queued"
    BY <2>3 DEF Queued
  <2>5. /\ stage \in [Callers -> Stages]
        /\ \A d \in Callers : \/ stage[d] = pc[d]
                              \/ d = serving[c] /\ pc[d] = "queued" /\ stage[d] = "leased"
    BY <2>4 DEF Stages
  <2> HIDE DEF stage
  <2>6. \A d \in Callers : d # c => (stage[d] \in {"connecting", "warming", "serving"} <=> d \in Creating)
    BY <2>5 DEF Creating
  <2>7. \A d \in Callers : \/ pc'[d] \in {"serving", "out"} /\ d = c
                           \/ pc'[d] = stage[d]
    BY <2>3, <2>5 DEF ServeTurn
  <2>8. \A d \in Callers : \/ held'[d] = held[d]
                           \/ d = serving[c] /\ held'[d] = s
    BY <2>1
  <2>9. \A d \in Callers : pc'[d] \in {"evicting", "discarding"} <=> pc[d] \in {"evicting", "discarding"}
    BY <2>3, <2>5, <2>7
  <2>10. \A d \in Callers : pc[d] \in {"evicting", "discarding"} => held'[d] = held[d]
    BY <2>4, <2>8
  <2>11. \A t : t \in Counted \cup {s} <=> IsCounted(t)'
    BY <2>2, <2>3, <2>9, <2>10 DEF IsCounted
  <2>12. Balance(created - 1, Creating \ {c}, Counted)
    BY <1>a, <2>3, BalanceSteps
  <2>13. Balance(created - 1 + 1, Creating \ {c}, Counted \cup {s})
    BY <2>2, <2>12, BalanceSteps
  <2>14. created - 1 + 1 = created
    OBVIOUS
  <2>15. Balance(created, Creating \ {c}, Counted \cup {s}) /\ created <= MaxSize
    BY <1>a, <2>13, <2>14
  <2>16. QED
    BY <1>8, <2>3, <2>5, <2>6, <2>11, <2>15
<1>11. ASSUME NEW c \in Callers, ServeFail(c) PROVE CountsRight'
  <2> DEFINE stage == [d \in Callers |-> IF d = serving[c] THEN "out" ELSE pc[d]]
  <2>1. /\ pc[c] = "serving" /\ c \in Creating /\ ServeTurn(c, created - 1, stage)
        /\ UNCHANGED <<live, closing, held>>
    BY <1>11 DEF ServeFail, Creating, sessionVars
  <2>2. serving[c] \in Callers => pc[serving[c]] = "queued"
    BY <2>1 DEF Queued
  <2>3. /\ stage \in [Callers -> Stages]
        /\ \A d \in Callers : \/ stage[d] = pc[d]
                              \/ d = serving[c] /\ pc[d] = "queued" /\ stage[d] = "out"
    BY <2>2 DEF Stages
  <2> HIDE DEF stage
  <2>4. \A d \in Callers : d # c => (stage[d] \in {"connecting", "warming", "serving"} <=> d \in Creating)
    BY <2>3 DEF Creating
  <2>5. \A d \in Callers : \/ pc'[d] \in {"serving", "out"} /\ d = c
                           \/ pc'[d] = stage[d]
    BY <2>1, <2>3 DEF ServeTurn
  <2>6. \A d \in Callers : pc'[d] \in {"evicting", "discarding"} <=> pc[d] \in {"evicting", "discarding"}
    BY <2>1, <2>3, <2>5
  <2>7. \A t : t \in Counted <=> IsCounted(t)'
    BY <2>1, <2>6 DEF IsCounted
  <2>8. Balance(created - 1, Creating \ {c}, Counted) /\ created - 1 <= MaxSize
    BY <1>a, <2>1, BalanceSteps
  <2>9. QED
    BY <1>8, <2>1, <2>3, <2>4, <2>7, <2>8
<1>12. ASSUME NEW c \in Callers, Warm(c) PROVE CountsRight'
  <2>1. /\ pc[c] = "out" /\ c \notin Creating /\ UNCHANGED <<live, closing, held>>
        /\ \A d \in Callers : d # c => pc'[d] = pc[d]
        /\ \/ created < WarmTarget /\ created' = created + 1 /\ pc'[c] = "warming"
           \/ created' = created /\ pc'[c] = "out"
    BY <1>12 DEF Warm, WarmTurn, Creating, sessionVars
  <2>2. CASE created < WarmTarget /\ created' = created + 1 /\ pc'[c] = "warming"
    <3>1. Creating' = Creating \cup {c}
      BY <1>a, <2>1, <2>2, CreatingAfter DEF Creating
    <3>2. \A t : t \in Counted <=> IsCounted(t)'
      BY <2>1, <2>2 DEF IsCounted
    <3>3. Counted' = Counted
      BY <3>2, CountedAfter
    <3>4. Balance(created + 1, Creating \cup {c}, Counted) /\ created + 1 <= MaxSize
      BY <1>a, <2>1, <2>2, BalanceSteps
    <3>5. QED
      BY <2>2, <3>1, <3>3, <3>4 DEF CountsRight
  <2>3. CASE created' = created /\ pc'[c] = "out"
    BY <1>3, <2>1, <2>3
  <2>4. QED
    BY <2>1, <2>2, <2>3
<1>13. ASSUME NEW c \in Callers, WarmDone(c) PROVE CountsRight'
  <2>1. PICK s \in Fresh : LogIn(s, 0)
    BY <1>13 DEF WarmDone
  <2>2. /\ s \notin live /\ s \notin closing /\ s \notin Counted
        /\ \A d \in Callers : held[d] # s
    BY <2>1 DEF Fresh, Counted
  <2>3. /\ pc[c] = "warming" /\ c \in Creating /\ live' = live \cup {s}
        /\ UNCHANGED <<closing, held>>
        /\ \A d \in Callers : d # c => pc'[d] = pc[d]
        /\ \/ created < WarmTarget /\ created' = created + 1 /\ pc'[c] = "warming"
           \/ created' = created /\ pc'[c] = "out"
    BY <1>13, <2>1 DEF WarmDone, WarmTurn, LogIn, Creating
  <2>4. Counted' = Counted \cup {s}
    <3>1. \A t : t \in Counted \cup {s} <=> IsCounted(t)'
      BY <2>2, <2>3 DEF IsCounted
    <3>2. QED
      BY <3>1, CountedAfter
  <2>5. CASE created < WarmTarget /\ created' = created + 1 /\ pc'[c] = "warming"
    <3>1. Creating' = Creating
      BY <1>a, <2>3, <2>5, CreatingAfter DEF Creating
    <3>2. Balance(created + 1, Creating, Counted \cup {s}) /\ created + 1 <= MaxSize
      BY <1>a, <2>2, <2>5, BalanceSteps
    <3>3. QED
      BY <2>4, <2>5, <3>1, <3>2 DEF CountsRight
  <2>6. CASE created' = created /\ pc'[c] = "out"
    <3>1. Creating' = Creating \ {c}
      BY <1>a, <2>3, <2>6, CreatingAfter DEF Creating
    <3>2. Balance(created - 1, Creating \ {c}, Counted)
      BY <1>a, <2>3, BalanceSteps
    <3>3. Balance(created - 1 + 1, Creating \ {c}, Counted \cup {s})
      BY <2>2, <3>2, BalanceSteps
    <3>4. created - 1 + 1 = created
      OBVIOUS
    <3>5. QED
      BY <1>a, <2>4, <2>6, <3>1, <3>3, <3>4 DEF CountsRight
  <2>7. QED
    BY <2>3, <2>5, <2>6
<1>14. CASE Close
  <2>1. /\ live' = live /\ held' = held /\ closing' = closing \cup ToSet(idle)
        /\ created' = Less(Len(idle))
        /\ \A d \in Callers : pc'[d] = IF d \in ToSet(waiters) THEN "out" ELSE pc[d]
    BY <1>14 DEF Close
  <2>2. \A d \in Callers : d \in ToSet(waiters) => pc[d] = "queued"
    BY DEF Queued
  <2>3. Creating' = Creating
    BY <1>a, <2>1, <2>2, CreatingAfter DEF Creating
  <2>4. Counted' = Counted \ ToSet(idle)
    <3>1. \A t : t \in Counted \ ToSet(idle) <=> IsCounted(t)'
      BY <2>1, <2>2 DEF IsCounted
    <3>2. QED
      BY <3>1, CountedAfter
  <2>5. Len(idle) <= created /\ Balance(created - Len(idle), Creating, Counted \ ToSet(idle))
    BY <1>a, BalanceAll
  <2>6. Len(idle) \in Nat
    BY LenProperties
  <2>7. created' = created - Len(idle) /\ created' <= MaxSize
    BY <1>a, <2>1, <2>5, <2>6 DEF Less
  <2>8. QED
    BY <2>3, <2>4, <2>5, <2>7 DEF CountsRight
<1>15. ASSUME NEW s \in Sessions, CloseLogout(s) PROVE CountsRight'
  <2>1. /\ s \in closing /\ live' = live \ {s} /\ closing' = closing \ {s}
        /\ UNCHANGED <<created, held, pc>>
    BY <1>15 DEF CloseLogout, LogOut, poolVars, callVars
  <2>2. Creating' = Creating
    BY <2>1 DEF Creating
  <2>3. Counted' = Counted
    <3>1. \A t : t \in Counted <=> IsCounted(t)'
      BY <2>1 DEF IsCounted
    <3>2. QED
      BY <3>1, CountedAfter
  <2>4. QED
    BY <1>a, <2>1, <2>2, <2>3 DEF CountsRight
<1>16. CASE SweepStart \/ SweepNext
  BY <1>16 DEF SweepStart, SweepNext, Fit, NoSweep
<1>17. CASE UNCHANGED vars
  BY <1>3, <1>17 DEF vars, poolVars, sessionVars, callVars
<1>18. QED
  BY <1>1, <1>4, <1>5, <1>6, <1>7, <1>9, <1>10, <1>11, <1>12, <1>13, <1>14, <1>15, <1>16, <1>17
  DEF Next, CallerStep, Release

LEMMA AlwaysCountsRight == ASSUME "idle" \notin Timers PROVE Spec => []CountsRight
<1>1. Init => CountsRight
  <2>1. SUFFICES ASSUME Init PROVE CountsRight
    OBVIOUS
  <2>2. Creating = {} /\ Counted = {}
    BY <2>1 DEF Init, Creating, Counted
  <2>3. IsFiniteSet({}) /\ Cardinality({}) = 0
    BY FS_EmptySet
  <2>4. created = 0 /\ created <= MaxSize
    BY <2>1, SizesAssumption DEF Init
  <2>5. QED
    BY <2>2, <2>3, <2>4 DEF CountsRight, Balance
<1>2. QED
  BY <1>1, CountStep, AlwaysFit, AlwaysQueued, AlwaysEmptyHanded, PoolTypeOK, PTL DEF Spec

(* In a pool without idle sweeping #created, read before every decision to *)
(* log in and changed before and after awaits by acquire, release, warm,   *)
(* serveWaiters and close, is exact whatever fails and whichever acquires  *)
(* time out, and never exceeds maxSize.                                    *)
THEOREM PoolAccounting == ASSUME "idle" \notin Timers PROVE Spec => []Accounting
<1>1. CountsRight => Accounting
  BY DEF CountsRight, Balance, Counted, Accounting
<1>2. QED
  BY <1>1, AlwaysCountsRight, PTL

-----------------------------------------------------------------------------
(* No session is left behind                                               *)

(* Where a session may be. *)
Somewhere(s) ==
  \/ s \in ToSet(idle) \cup closing \cup abandoned
  \/ \E c \in Callers : held[c] = s

AllSomewhere == \A s \in live : Somewhere(s)

LEMMA SomewhereStep ==
  ASSUME "idle" \notin Timers, TypeOK, Fit, Queued, EmptyHanded, AllSomewhere, [Next]_vars
  PROVE  AllSomewhere'
<1> USE FitFacts, QueueFacts DEF Fit
<1>1. ASSUME NEW c \in Callers, Acquire(c) \/ EvictDone(c) PROVE AllSomewhere'
  <2>1. /\ closing' = closing /\ abandoned' = abandoned /\ pc[c] \in {"out", "evicting"}
        /\ \A s \in live' : s \in live /\ ~(pc[c] = "evicting" /\ s = held[c])
    BY <1>1 DEF Acquire, EvictDone, AcquireBody, LogOut
  <2>2. pc[c] = "out" => held[c] = None
    BY DEF EmptyHanded, Holding
  <2>3. /\ \A d \in Callers : d # c => held'[d] = held[d]
        /\ ToSet(idle) \subseteq ToSet(idle') \cup {held'[c]}
    <3>1. CASE TakeIdle(c)
      BY <3>1, PopSet DEF TakeIdle
    <3>2. CASE Refused(c) \/ Connect(c) \/ Enqueue(c)
      BY <3>2 DEF Refused, Connect, Enqueue
    <3>3. QED
      BY <1>1, <3>1, <3>2 DEF Acquire, EvictDone, AcquireBody
  <2>4. None \notin live
    BY DEF TypeOK, Types
  <2>5. QED
    BY <2>1, <2>2, <2>3, <2>4 DEF AllSomewhere, Somewhere
<1>2. ASSUME NEW c \in Callers,
             \/ ValidateDone(c) \/ ConnectFail(c) \/ Timeout(c) \/ Work(c) \/ Settle(c)
             \/ Release(c) \/ ResetDone(c) \/ CheckFailed(c) \/ ServeFail(c) \/ Warm(c)
      PROVE  AllSomewhere'
  <2>1. UNCHANGED <<live, idle, closing, abandoned, held>>
    BY <1>2
    DEF ValidateDone, ConnectFail, Timeout, Work, Settle, Release, ReleaseDiscard, ReleaseClean,
        ReleaseReset, ResetDone, CheckFailed, ServeFail, Warm, poolVars, sessionVars, lostVars,
        callVars
  <2>2. QED
    BY <2>1 DEF AllSomewhere, Somewhere
<1>3. ASSUME NEW c \in Callers, ServeExpired(c) PROVE AllSomewhere'
  <2>1. PICK s \in Fresh : live' = live \cup {s} /\ abandoned' = abandoned \cup {s}
    BY <1>3 DEF ServeExpired, LogIn
  <2>2. UNCHANGED <<idle, closing, held>>
    BY <1>3 DEF ServeExpired
  <2>3. QED
    BY <2>1, <2>2 DEF AllSomewhere, Somewhere
(* Somebody who had none gets a session that is new. *)
<1>4. ASSUME NEW d \in Callers, held[d] = None, NEW s, live' = live \cup {s}, idle' = idle,
             closing' = closing, abandoned' = abandoned, held' = [held EXCEPT ![d] = s]
      PROVE  AllSomewhere'
  <2>1. None \notin live
    BY DEF TypeOK, Types
  <2>2. held'[d] = s /\ \A e \in Callers : e # d => held'[e] = held[e]
    BY <1>4
  <2>3. QED
    BY <1>4, <2>1, <2>2 DEF AllSomewhere, Somewhere
<1>5. ASSUME NEW c \in Callers, ConnectDone(c) PROVE AllSomewhere'
  <2>1. held[c] = None
    BY <1>5 DEF ConnectDone, EmptyHanded, Holding
  <2>2. QED
    BY <1>4, <1>5, <2>1 DEF ConnectDone, LogIn, poolVars, lostVars
<1>6. ASSUME NEW c \in Callers, ServeDone(c) PROVE AllSomewhere'
  <2>1. serving[c] \in Callers /\ pc[serving[c]] = "queued"
    BY <1>6 DEF ServeDone, Queued
  <2>2. held[serving[c]] = None
    BY <2>1 DEF EmptyHanded, Holding
  <2>3. QED
    BY <1>4, <1>6, <2>1, <2>2 DEF ServeDone, LogIn, lostVars
<1>7. ASSUME NEW c \in Callers, HandOver(c) PROVE AllSomewhere'
  <2>1. /\ waiters # <<>> /\ UNCHANGED <<live, idle, closing, abandoned>>
        /\ held' = [held EXCEPT ![c] = None, ![Head(waiters)] = held[c]]
    BY <1>7 DEF HandOver, lostVars
  <2>2. Head(waiters) \in Callers /\ pc[Head(waiters)] = "queued"
    <3>1. IsInjective(waiters)
      BY DEF Queued
    <3>2. QED
      BY <2>1, <3>1, ShiftSet DEF Queued
  <2>3. held[Head(waiters)] = None /\ None \notin live
    BY <2>2 DEF EmptyHanded, Holding, TypeOK, Types
  <2>4. /\ held'[Head(waiters)] = held[c]
        /\ \A d \in Callers \ {c, Head(waiters)} : held'[d] = held[d]
    BY <2>1, <2>2
  <2>5. QED
    BY <2>1, <2>2, <2>3, <2>4 DEF AllSomewhere, Somewhere
<1>8. ASSUME NEW c \in Callers, Shelve(c) PROVE AllSomewhere'
  <2>1. /\ live' = live /\ closing' = closing /\ abandoned' = abandoned /\ held[c] \in Sessions
        /\ idle' = Append(idle, held[c])
        /\ \A d \in Callers : d # c => held'[d] = held[d]
    BY <1>8 DEF Shelve, sessionVars, lostVars, Holding
  <2>2. ToSet(idle') = ToSet(idle) \cup {held[c]}
    BY <2>1, PushSet
  <2>3. QED
    BY <2>1, <2>2 DEF AllSomewhere, Somewhere
<1>9. ASSUME NEW c \in Callers, DiscardDone(c) PROVE AllSomewhere'
  BY <1>9 DEF DiscardDone, LogOut, AllSomewhere, Somewhere
<1>10. ASSUME NEW c \in Callers, WarmDone(c) PROVE AllSomewhere'
  <2>1. PICK s \in Fresh : LogIn(s, 0) /\ idle' = Append(idle, s)
    BY <1>10 DEF WarmDone
  <2>2. ToSet(idle') = ToSet(idle) \cup {s}
    BY <2>1, FreshType, PushSet
  <2>3. live' = live \cup {s} /\ closing' = closing /\ abandoned' = abandoned /\ held' = held
    BY <1>10, <2>1 DEF WarmDone, LogIn, lostVars
  <2>4. QED
    BY <2>2, <2>3 DEF AllSomewhere, Somewhere
<1>11. CASE Close
  BY <1>11 DEF Close, lostVars, AllSomewhere, Somewhere
<1>12. ASSUME NEW s \in Sessions, CloseLogout(s) PROVE AllSomewhere'
  BY <1>12 DEF CloseLogout, LogOut, poolVars, callVars, AllSomewhere, Somewhere
<1>13. CASE SweepStart \/ SweepNext
  BY <1>13 DEF SweepStart, SweepNext, NoSweep
<1>14. CASE UNCHANGED vars
  BY <1>14 DEF vars, poolVars, sessionVars, lostVars, callVars, AllSomewhere, Somewhere
<1>15. QED
  BY <1>1, <1>2, <1>3, <1>5, <1>6, <1>7, <1>8, <1>9, <1>10, <1>11, <1>12, <1>13, <1>14
  DEF Next, CallerStep, Release

(* A session the pool has lost is in no place of it. *)
LostApart ==
  /\ abandoned \subseteq live /\ orphans \cap live = {}
  /\ abandoned \cap (ToSet(idle) \cup closing) = {}
  /\ \A c \in Callers : held[c] \notin abandoned

LEMMA LostApartStep ==
  ASSUME "idle" \notin Timers, TypeOK, Fit, LostApart, [Next]_vars
  PROVE  LostApart'
<1> USE FitFacts DEF Fit
<1>0. None \notin abandoned /\ \A s \in Fresh : s \in Sessions /\ s \notin live \cup orphans
  BY DEF TypeOK, Types, Fresh
(* Three shapes of step: nothing is logged in or out, a new session is     *)
(* logged in, and one that is not abandoned is logged out.                 *)
<1>1. ASSUME UNCHANGED <<live, orphans, abandoned>>,
             ToSet(idle') \cup closing' \subseteq ToSet(idle) \cup closing \cup {held[c] : c \in Callers},
             \A c \in Callers : \/ held'[c] \in ToSet(idle) \cup {None}
                                \/ \E d \in Callers : held'[c] = held[d]
      PROVE  LostApart'
  BY <1>0, <1>1 DEF LostApart
<1>2. ASSUME NEW s \in Fresh, live' = live \cup {s}, UNCHANGED <<closing, lostVars>>,
             ToSet(idle') \subseteq ToSet(idle) \cup {s},
             \A c \in Callers : held'[c] \in {held[c], s}
      PROVE  LostApart'
  BY <1>0, <1>2 DEF LostApart, lostVars
<1>3. ASSUME NEW s \in Sessions, s \notin abandoned, LogOut({s}), abandoned' = abandoned,
             ToSet(idle') \subseteq ToSet(idle), closing' \subseteq closing,
             \A c \in Callers : held'[c] \in ToSet(idle) \cup {None, held[c]}
      PROVE  LostApart'
  BY <1>0, <1>3 DEF LostApart, LogOut
<1>4. ASSUME NEW c \in Callers, AcquireBody(c)
      PROVE  /\ ToSet(idle') \subseteq ToSet(idle) /\ closing' = closing /\ abandoned' = abandoned
             /\ \A d \in Callers : held'[d] \in ToSet(idle) \cup {None, held[d]}
  <2>1. CASE TakeIdle(c)
    <3>1. ToSet(idle') \subseteq ToSet(idle) /\ Last(idle) \in ToSet(idle)
      BY <2>1, PopSet DEF TakeIdle
    <3>2. QED
      BY <1>4, <2>1, <3>1 DEF AcquireBody, TakeIdle
  <2>2. CASE Refused(c) \/ Connect(c) \/ Enqueue(c)
    BY <1>4, <2>2 DEF AcquireBody, Refused, Connect, Enqueue
  <2>3. QED
    BY <1>4, <2>1, <2>2 DEF AcquireBody
<1>5. ASSUME NEW c \in Callers, Acquire(c) PROVE LostApart'
  <2>1. AcquireBody(c) /\ UNCHANGED <<live, orphans>>
    BY <1>5 DEF Acquire
  <2>2. QED
    BY <1>1, <1>4, <2>1
<1>6. ASSUME NEW c \in Callers, EvictDone(c) PROVE LostApart'
  <2>1. AcquireBody(c) /\ LogOut({held[c]}) /\ held[c] \in Sessions /\ held[c] \notin abandoned
    BY <1>6 DEF EvictDone, Holding, LostApart
  <2>2. QED
    BY <1>3, <1>4, <2>1
<1>7. ASSUME NEW c \in Callers,
             \/ ValidateDone(c) \/ ConnectFail(c) \/ Timeout(c) \/ Work(c) \/ Settle(c)
             \/ Release(c) \/ ResetDone(c) \/ CheckFailed(c) \/ ServeFail(c) \/ Warm(c)
      PROVE  LostApart'
  <2>1. UNCHANGED <<live, idle, closing, orphans, abandoned, held>>
    BY <1>7
    DEF ValidateDone, ConnectFail, Timeout, Work, Settle, Release, ReleaseDiscard, ReleaseClean,
        ReleaseReset, ResetDone, CheckFailed, ServeFail, Warm, poolVars, sessionVars, lostVars,
        callVars
  <2>2. QED
    BY <2>1 DEF LostApart
<1>8. ASSUME NEW c \in Callers, HandOver(c) PROVE LostApart'
  <2>1. UNCHANGED <<live, idle, closing, orphans, abandoned>>
    BY <1>8 DEF HandOver, lostVars
  <2>2. \A d \in Callers : held'[d] \in {None, held[c], held[d]}
    BY <1>8 DEF HandOver
  <2>3. QED
    BY <1>1, <2>1, <2>2
<1>9. ASSUME NEW c \in Callers, Shelve(c) PROVE LostApart'
  <2>1. /\ UNCHANGED <<live, closing, orphans, abandoned>> /\ held[c] \in Sessions
        /\ idle' = Append(idle, held[c])
        /\ \A d \in Callers : held'[d] \in {None, held[d]}
    BY <1>9 DEF Shelve, sessionVars, lostVars, Holding
  <2>2. ToSet(idle') = ToSet(idle) \cup {held[c]}
    BY <2>1, PushSet
  <2>3. QED
    BY <1>1, <2>1, <2>2
<1>10. ASSUME NEW c \in Callers, ConnectDone(c) \/ ServeDone(c) \/ WarmDone(c) PROVE LostApart'
  <2>1. PICK s \in Fresh : /\ live' = live \cup {s}
                           /\ idle' = idle \/ idle' = Append(idle, s)
                           /\ \A d \in Callers : held'[d] \in {held[d], s}
    BY <1>10 DEF ConnectDone, ServeDone, WarmDone, LogIn, poolVars
  <2>2. UNCHANGED <<closing, lostVars>>
    BY <1>10 DEF ConnectDone, ServeDone, WarmDone
  <2>3. ToSet(idle') \subseteq ToSet(idle) \cup {s}
    <3>1. s \in Sessions
      BY FreshType
    <3>2. ToSet(Append(idle, s)) = ToSet(idle) \cup {s}
      BY <3>1, PushSet
    <3>3. QED
      BY <2>1, <3>2
  <2>4. QED
    BY <1>2, <2>1, <2>2, <2>3
<1>11. ASSUME NEW c \in Callers, DiscardDone(c) PROVE LostApart'
  <2>1. LogOut({held[c]}) /\ held[c] \in Sessions /\ held[c] \notin abandoned
    BY <1>11 DEF DiscardDone, Holding, LostApart
  <2>2. /\ UNCHANGED <<idle, closing, abandoned>>
        /\ \A d \in Callers : held'[d] \in {None, held[d]}
    BY <1>11 DEF DiscardDone
  <2>3. QED
    BY <1>3, <2>1, <2>2
<1>12. ASSUME NEW c \in Callers, ServeExpired(c) PROVE LostApart'
  <2>1. PICK s \in Fresh : live' = live \cup {s} /\ abandoned' = abandoned \cup {s}
    BY <1>12 DEF ServeExpired, LogIn
  <2>2. UNCHANGED <<idle, closing, orphans, held>>
    BY <1>12 DEF ServeExpired
  <2>3. s \notin ToSet(idle) \cup closing /\ \A d \in Callers : held[d] # s
    BY <2>1 DEF Fresh
  <2>4. QED
    BY <1>0, <2>1, <2>2, <2>3 DEF LostApart
<1>13. CASE Close
  <2>1. /\ UNCHANGED <<live, orphans, abandoned, held>>
        /\ ToSet(idle') = {} /\ closing' = closing \cup ToSet(idle)
    BY <1>13 DEF Close, lostVars, ToSet
  <2>2. QED
    BY <1>1, <2>1
<1>14. ASSUME NEW s \in Sessions, CloseLogout(s) PROVE LostApart'
  <2>1. /\ LogOut({s}) /\ s \in closing /\ closing' \subseteq closing
        /\ UNCHANGED <<idle, abandoned, held>>
    BY <1>14 DEF CloseLogout, poolVars, callVars
  <2>2. s \notin abandoned
    BY <2>1 DEF LostApart
  <2>3. QED
    BY <1>3, <2>1, <2>2
<1>15. CASE SweepStart \/ SweepNext
  BY <1>15 DEF SweepStart, SweepNext, NoSweep
<1>16. CASE UNCHANGED vars
  BY <1>16 DEF vars, poolVars, sessionVars, lostVars, callVars, LostApart
<1>17. QED
  BY <1>5, <1>6, <1>7, <1>8, <1>9, <1>10, <1>11, <1>12, <1>13, <1>14, <1>15, <1>16
  DEF Next, CallerStep, Release

(* Without idle sweeping, whatever fails, times out and closes and in      *)
(* whatever order the operations of the callers go on: every client that   *)
(* is logged in is counted, and is at rest, with one caller or being       *)
(* closed, unless it was resolved to a waiter that had timed out; a        *)
(* session whose logout failed is none of them, and is not leased again.   *)
THEOREM PoolCountsEverySession ==
  ASSUME "idle" \notin Timers
  PROVE  Spec => []EverySessionCounted
<1>1. Init => AllSomewhere /\ LostApart
  BY IdentitiesAssumption DEF Init, AllSomewhere, LostApart
<1>2. TypeOK /\ Fit /\ Queued /\ EmptyHanded /\ AllSomewhere /\ LostApart /\ [Next]_vars =>
        AllSomewhere' /\ LostApart'
  BY SomewhereStep, LostApartStep
<1>3. TypeOK /\ Fit /\ EmptyHanded /\ AllSomewhere /\ LostApart => NoSessionLost
  <2>1. SUFFICES ASSUME TypeOK, Fit, EmptyHanded, AllSomewhere, LostApart PROVE NoSessionLost
    OBVIOUS
  <2>2. None \notin live /\ ToSet(idle) \cup closing \subseteq live
    BY <2>1, IdentitiesAssumption DEF TypeOK, Types, Fit, Ready
  <2>3. \A c \in Callers : held[c] # None => held[c] \in live
    BY <2>1 DEF EmptyHanded, Fit, Ready
  <2>4. live \subseteq Places \cup abandoned
    BY <2>1, <2>2 DEF AllSomewhere, Somewhere, Places
  <2>5. Places \subseteq live
    BY <2>2, <2>3 DEF Places
  <2>6. abandoned \subseteq live /\ orphans \cap live = {} /\ abandoned \cap Places = {}
    BY <2>1 DEF LostApart, Places
  <2>7. QED
    BY <2>4, <2>5, <2>6 DEF NoSessionLost
<1>4. QED
  BY <1>1, <1>2, <1>3, PoolAccounting, AlwaysFit, AlwaysQueued, AlwaysEmptyHanded, PoolTypeOK, PTL
  DEF Spec, EverySessionCounted
-----------------------------------------------------------------------------
(* The pool implements its promise                                         *)

(* The lease of a caller, as LeasesAsPromised reads it off the pool. *)
LeaseOf(c) == IF pc[c] = "leased" THEN held[c] ELSE None

OnLease == {LeaseOf(c) : c \in Callers} \ {None}

LEMMA LeaseFacts ==
  ASSUME TypeOK, Fit, CountsRight
  PROVE  /\ OnLease \subseteq Counted /\ IsFiniteSet(OnLease) /\ Cardinality(OnLease) \in Nat
         /\ Cardinality(OnLease) <= MaxSize
         /\ \A c \in Callers : pc[c] = "leased" => held[c] \in Sessions
<1>1. \A c \in Callers : pc[c] = "leased" => held[c] \in Counted /\ held[c] \in Sessions
  BY CountFacts DEF Holding
<1>2. OnLease \subseteq Counted
  BY <1>1 DEF OnLease, LeaseOf
<1>3. /\ IsFiniteSet(Counted) /\ created = Cardinality(Creating) + Cardinality(Counted)
      /\ Cardinality(Creating) \in Nat /\ Cardinality(Counted) \in Nat /\ created <= MaxSize
  BY FS_CardinalityType DEF CountsRight, Balance
<1>4. /\ IsFiniteSet(OnLease) /\ Cardinality(OnLease) <= Cardinality(Counted)
      /\ Cardinality(OnLease) \in Nat
  BY <1>2, <1>3, FS_Subset, FS_CardinalityType
<1>5. Cardinality(OnLease) <= MaxSize
  BY <1>3, <1>4, SizesAssumption
<1>6. QED
  BY <1>1, <1>2, <1>4, <1>5

(* Leases counts with its own copy of the operator. *)
LEMMA SameCardinality == \A S : Promise!Cardinality(S) = Cardinality(S)
BY DEF Promise!Cardinality, Cardinality

LEMMA LeaseBound == TypeOK /\ Fit /\ CountsRight => Cardinality(OnLease) <= MaxSize
BY LeaseFacts

LEMMA LeaseBoundAfter == TypeOK' /\ Fit' /\ CountsRight' => (Cardinality(OnLease) <= MaxSize)'
BY LeaseBound, PTL

(* The three shapes a step has for those who hold leases: one is granted,  *)
(* one is given back, or all stay as they are and a session nobody holds   *)
(* may be aborted or logged out.                                           *)
SameLeases(S) == \A d \in Callers \ S : LeaseOf(d)' = LeaseOf(d)

LEMMA StepGrants ==
  ASSUME TypeOK, Fit, CountsRight, TypeOK', Fit', CountsRight',
         NEW c \in Callers, pc[c] # "leased", pc'[c] = "leased", SameLeases({c}),
         held'[c] \in Sessions \ dirty, dirty' = dirty
  PROVE  Promise!Grant(c)
<1> DEFINE lease == [d \in Callers |-> IF pc[d] = "leased" THEN held[d] ELSE None]
           s == held'[c]
<1>1. lease' = [lease EXCEPT ![c] = s] /\ lease[c] = None
  <2>1. \A d \in Callers : lease'[d] = IF d = c THEN s ELSE lease[d]
    BY DEF SameLeases, LeaseOf
  <2>2. lease[c] = None
    OBVIOUS
  <2>3. /\ lease' = [d \in Callers |-> lease'[d]]
        /\ [lease EXCEPT ![c] = s] = [d \in Callers |-> IF d = c THEN s ELSE lease[d]]
    OBVIOUS
  <2> HIDE DEF lease, s
  <2>4. QED
    BY <2>1, <2>2, <2>3
<1>2. None \notin Sessions
  BY IdentitiesAssumption
<1>3. \A d \in Callers : d # c /\ pc'[d] = "leased" => held'[d] # s
  BY <1>2 DEF Fit, Exclusive
<1>4. s \notin OnLease
  BY <1>2, <1>3 DEF OnLease, SameLeases, LeaseOf
<1>5. OnLease' = OnLease \cup {s}
  BY <1>2 DEF OnLease, SameLeases, LeaseOf
<1>6. Cardinality(OnLease) < MaxSize
  <2>1. IsFiniteSet(OnLease) /\ Cardinality(OnLease) \in Nat
    BY LeaseFacts
  <2>2. Cardinality(OnLease') = Cardinality(OnLease) + 1
    BY <1>4, <1>5, <2>1, FS_AddElement
  <2>3. (Cardinality(OnLease) <= MaxSize)'
    BY LeaseBoundAfter
  <2>4. Cardinality(OnLease') <= MaxSize
    BY <2>3
  <2>5. QED
    BY <2>1, <2>2, <2>4, SizesAssumption
<1>7. Promise!Leased = OnLease
  BY DEF Promise!Leased, OnLease, LeaseOf
<1>8. s \in Sessions \ (Promise!Leased \cup dirty)
  BY <1>4, <1>7
<1>9. \E t \in Sessions \ (Promise!Leased \cup dirty) : lease' = [lease EXCEPT ![c] = t]
  <2> HIDE DEF s, lease
  <2>1. QED
    BY <1>1, <1>8
<1>10. Promise!Cardinality(Promise!Leased) < MaxSize /\ lease[c] = None /\ UNCHANGED dirty
  <2>1. Promise!Cardinality(Promise!Leased) = Cardinality(OnLease)
    BY <1>7, SameCardinality
  <2> HIDE DEF lease
  <2>2. QED
    BY <1>1, <1>6, <2>1
<1>11. QED
  BY <1>9, <1>10, Zenon DEF Promise!Grant

LEMMA StepGivesBack ==
  ASSUME TypeOK, NEW c \in Callers, pc[c] = "leased", pc'[c] # "leased", SameLeases({c}),
         held[c] \in Sessions, dirty' = dirty
  PROVE  Promise!GiveBack(c)
BY IdentitiesAssumption DEF Promise!GiveBack, SameLeases, LeaseOf

LEMMA StepKeeps ==
  ASSUME TypeOK, SameLeases({}), NEW s, s \notin OnLease, dirty' \in {dirty, dirty \ {s}}
  PROVE  [Promise!Next]_(Promise!vars)
<1> DEFINE lease == [d \in Callers |-> IF pc[d] = "leased" THEN held[d] ELSE None]
<1>1. lease' = lease
  BY DEF SameLeases, LeaseOf
<1>2. CASE dirty' = dirty
  BY <1>1, <1>2 DEF Promise!vars
<1>3. CASE dirty' = dirty \ {s} /\ s \in dirty
  <2>1. s \in Sessions
    BY <1>3 DEF TypeOK, Types
  <2>2. Promise!Leased = OnLease
    BY DEF Promise!Leased, OnLease, LeaseOf
  <2>3. Promise!Clean(s)
    BY <1>1, <1>3, <2>2 DEF Promise!Clean
  <2>4. QED
    BY <2>1, <2>3 DEF Promise!Next
<1>4. QED
  BY <1>2, <1>3

LEMMA StepStays ==
  ASSUME SameLeases({}), dirty' = dirty
  PROVE  [Promise!Next]_(Promise!vars)
BY DEF SameLeases, LeaseOf, Promise!vars

LEMMA LeaseStep ==
  ASSUME "idle" \notin Timers, TypeOK, Fit, Queued, CountsRight, [Next]_vars,
         TypeOK', Fit', CountsRight'
  PROVE  [Promise!Next]_(Promise!vars)
<1>0. /\ pc \in [Callers -> Stages] /\ held \in [Callers -> Sessions \cup {None}]
      /\ None \notin Sessions /\ idle \in Seq(Sessions)
      /\ \A c \in Callers : pc[c] \in Holding => held[c] \in Sessions \cap live
      /\ \A c, d \in Callers : held[c] \in Sessions /\ held[c] = held[d] => c = d
      /\ ToSet(idle) \cup closing \cup dirty \subseteq live
      /\ \A c \in Callers : held[c] \notin ToSet(idle) \cup closing
  BY FitFacts DEF Fit, Ready
<1>1. ASSUME NEW c \in Callers, pc[c] # "leased", pc'[c] = "leased", SameLeases({c}), dirty' = dirty
      PROVE  [Promise!Next]_(Promise!vars)
  <2>1. held'[c] \in live' \ dirty'
    BY <1>1, GrantStep DEF Fit
  <2>2. held'[c] \in Sessions
    BY <1>1 DEF TypeOK, HoldersHold, Holding
  <2>3. Promise!Grant(c)
    BY <1>1, <2>1, <2>2, StepGrants
  <2>4. QED
    BY <2>3 DEF Promise!Next
(* Sessions in other hands than a lease's. *)
<1>2. ASSUME NEW c \in Callers, pc[c] \in Holding, pc[c] # "leased" PROVE held[c] \notin OnLease
  BY <1>0, <1>2 DEF OnLease, LeaseOf, Holding
<1>3. OnLease \subseteq live /\ OnLease \cap closing = {}
  BY <1>0 DEF OnLease, LeaseOf, Holding
<1>4. ASSUME NEW c \in Callers, Acquire(c) \/ EvictDone(c) PROVE [Promise!Next]_(Promise!vars)
  <2>1. SameLeases({})
    BY <1>0, <1>4
    DEF SameLeases, LeaseOf, Acquire, EvictDone, AcquireBody, Refused, TakeIdle, Connect, Enqueue
  <2>2. \/ dirty' = dirty
        \/ pc[c] = "evicting" /\ dirty' = dirty \ {held[c]}
    BY <1>4 DEF Acquire, EvictDone, LogOut
  <2>3. CASE dirty' = dirty
    BY <2>1, <2>3, StepStays
  <2>4. QED
    BY <1>2, <2>1, <2>2, <2>3, StepKeeps DEF Holding
<1>5. ASSUME NEW c \in Callers,
             \/ ConnectFail(c) \/ Timeout(c) \/ CheckFailed(c) \/ Shelve(c) \/ Warm(c)
      PROVE  [Promise!Next]_(Promise!vars)
  <2>1. SameLeases({}) /\ dirty' = dirty
    BY <1>0, <1>5
    DEF SameLeases, LeaseOf, ConnectFail, Timeout, CheckFailed, StartDiscard, Shelve, Warm,
        WarmTurn, sessionVars
  <2>2. QED
    BY <2>1, StepStays
<1>6. ASSUME NEW c \in Callers, ResetDone(c) PROVE [Promise!Next]_(Promise!vars)
  <2>1. /\ SameLeases({}) /\ pc[c] = "resetting"
        /\ dirty' \in {dirty, dirty \ {held[c]}}
    BY <1>0, <1>6 DEF SameLeases, LeaseOf, ResetDone, StartDiscard
  <2>2. QED
    BY <1>2, <2>1, StepKeeps DEF Holding
<1>7. ASSUME NEW c \in Callers, ValidateDone(c) PROVE [Promise!Next]_(Promise!vars)
  <2>1. CASE pc' = [pc EXCEPT ![c] = "leased"]
    <3>1. pc[c] # "leased" /\ pc'[c] = "leased" /\ SameLeases({c}) /\ dirty' = dirty
      BY <1>0, <1>7, <2>1 DEF SameLeases, LeaseOf, ValidateDone
    <3>2. QED
      BY <1>1, <3>1
  <2>2. CASE pc' = [pc EXCEPT ![c] = "evicting"]
    <3>1. SameLeases({}) /\ dirty' = dirty
      BY <1>0, <1>7, <2>2 DEF SameLeases, LeaseOf, ValidateDone
    <3>2. QED
      BY <3>1, StepStays
  <2>3. QED
    BY <1>7, <2>1, <2>2 DEF ValidateDone
(* A login finds nothing to end. *)
<1>8. ASSUME NEW s \in Fresh, NEW n, LogIn(s, n) PROVE dirty' = dirty
  <2>1. s \notin live
    BY DEF Fresh
  <2>2. QED
    BY <1>0, <1>8, <2>1 DEF LogIn
<1>9. ASSUME NEW c \in Callers, ConnectDone(c) PROVE [Promise!Next]_(Promise!vars)
  <2>1. /\ dirty' = dirty
        /\ \E s : held' = [held EXCEPT ![c] = s]
        /\ pc' = [pc EXCEPT ![c] = "leased"] /\ pc[c] = "connecting"
    BY <1>8, <1>9 DEF ConnectDone
  <2>2. pc[c] # "leased" /\ pc'[c] = "leased" /\ SameLeases({c})
    BY <1>0, <2>1 DEF SameLeases, LeaseOf
  <2>3. QED
    BY <1>1, <2>1, <2>2
<1>10. ASSUME NEW c \in Callers, HandOver(c) PROVE [Promise!Next]_(Promise!vars)
  <2>1. /\ Head(waiters) \in Callers /\ pc[Head(waiters)] = "queued"
    BY <1>10, ShiftSet, QueueFacts DEF HandOver, Queued
  <2>2. /\ dirty' = dirty /\ pc[c] = "checking"
        /\ pc' = [pc EXCEPT ![c] = "out", ![Head(waiters)] = "leased"]
        /\ held' = [held EXCEPT ![c] = None, ![Head(waiters)] = held[c]]
    BY <1>10 DEF HandOver
  <2>3. pc'[Head(waiters)] = "leased" /\ SameLeases({Head(waiters)})
    BY <1>0, <2>1, <2>2 DEF SameLeases, LeaseOf
  <2>4. QED
    BY <1>1, <2>1, <2>2, <2>3
<1>11. ASSUME NEW c \in Callers, ServeDone(c) PROVE [Promise!Next]_(Promise!vars)
  <2>1. /\ serving[c] \in Callers /\ pc[serving[c]] = "queued"
    BY <1>11, QueueFacts DEF ServeDone, Queued
  <2>2. PICK s \in Fresh : LogIn(s, 1) /\ held' = [held EXCEPT ![serving[c]] = s]
    BY <1>11 DEF ServeDone
  <2>3. /\ dirty' = dirty /\ pc[c] = "serving"
        /\ \E x \in {"serving", "out"} :
              pc' = [[pc EXCEPT ![serving[c]] = "leased"] EXCEPT ![c] = x]
    BY <1>8, <1>11, <2>2 DEF ServeDone, ServeTurn
  <2>4. pc'[serving[c]] = "leased" /\ SameLeases({serving[c]})
    BY <1>0, <2>1, <2>2, <2>3 DEF SameLeases, LeaseOf
  <2>5. QED
    BY <1>1, <2>1, <2>3, <2>4
<1>12. ASSUME NEW c \in Callers, DiscardDone(c) PROVE [Promise!Next]_(Promise!vars)
  <2>1. /\ pc[c] = "discarding" /\ dirty' = dirty \ {held[c]}
        /\ held' = [held EXCEPT ![c] = None]
        /\ \E x \in {"serving", "out"} : pc' = [pc EXCEPT ![c] = x]
    BY <1>12 DEF DiscardDone, ServeTurn, LogOut
  <2>2. SameLeases({})
    BY <1>0, <2>1 DEF SameLeases, LeaseOf
  <2>3. QED
    BY <1>2, <2>1, <2>2, StepKeeps DEF Holding
<1>13. ASSUME NEW c \in Callers, ServeExpired(c) PROVE [Promise!Next]_(Promise!vars)
  <2>1. /\ dirty' = dirty /\ held' = held /\ pc[c] = "serving"
        /\ \E x \in {"serving", "out"} : pc' = [pc EXCEPT ![c] = x]
    BY <1>8, <1>13 DEF ServeExpired, ServeTurn
  <2>2. SameLeases({})
    BY <1>0, <2>1 DEF SameLeases, LeaseOf
  <2>3. QED
    BY <2>1, <2>2, StepStays
<1>14. ASSUME NEW c \in Callers, ServeFail(c) PROVE [Promise!Next]_(Promise!vars)
  <2>1. serving[c] \in Callers => pc[serving[c]] = "queued"
    BY DEF Queued
  <2>2. /\ dirty' = dirty /\ held' = held /\ pc[c] = "serving"
        /\ \A d \in Callers : pc'[d] = pc[d] \/ {pc[d], pc'[d]} \subseteq {"queued", "out", "serving"}
    BY <1>0, <1>14, <2>1 DEF ServeFail, ServeTurn, sessionVars
  <2>3. SameLeases({})
    BY <2>2 DEF SameLeases, LeaseOf
  <2>4. QED
    BY <2>2, <2>3, StepStays
<1>15. ASSUME NEW c \in Callers, WarmDone(c) PROVE [Promise!Next]_(Promise!vars)
  <2>1. dirty' = dirty /\ SameLeases({})
    <3>1. dirty' = dirty /\ held' = held /\ pc[c] = "warming"
          /\ \E x \in {"warming", "out"} : pc' = [pc EXCEPT ![c] = x]
      BY <1>8, <1>15 DEF WarmDone, WarmTurn
    <3>2. QED
      BY <1>0, <3>1 DEF SameLeases, LeaseOf
  <2>2. QED
    BY <2>1, StepStays
<1>16. ASSUME NEW c \in Callers, Work(c) \/ Settle(c) PROVE [Promise!Next]_(Promise!vars)
  <2>1. /\ pc[c] = "leased" /\ UNCHANGED <<pc, held>> /\ held[c] \in Sessions
        /\ \/ Work(c) /\ dirty' = dirty \cup {held[c]}
           \/ Settle(c) /\ dirty' = dirty \ {held[c]}
    BY <1>0, <1>16 DEF Work, Settle, callVars, Holding
  <2>2. Promise!Change(c) \/ Promise!Settle(c)
    BY <1>0, <2>1 DEF Promise!Change, Promise!Settle
  <2>3. QED
    BY <2>2 DEF Promise!Next
<1>17. ASSUME NEW c \in Callers, Release(c) PROVE [Promise!Next]_(Promise!vars)
  <2>1. /\ pc[c] = "leased" /\ pc'[c] # "leased" /\ SameLeases({c}) /\ held[c] \in Sessions
        /\ dirty' = dirty
    BY <1>0, <1>17
    DEF Release, ReleaseDiscard, ReleaseClean, ReleaseReset, StartDiscard, SameLeases, LeaseOf,
        sessionVars, Holding
  <2>2. Promise!GiveBack(c)
    BY <2>1, StepGivesBack
  <2>3. QED
    BY <2>2 DEF Promise!Next
<1>18. CASE Close
  <2>1. dirty' = dirty /\ held' = held
        /\ \A d \in Callers : pc'[d] = pc[d] \/ (pc[d] = "queued" /\ pc'[d] = "out")
    BY <1>18 DEF Close, Queued
  <2>2. SameLeases({})
    BY <2>1 DEF SameLeases, LeaseOf
  <2>3. QED
    BY <2>1, <2>2, StepStays
<1>19. ASSUME NEW s \in Sessions, CloseLogout(s) PROVE [Promise!Next]_(Promise!vars)
  <2>1. SameLeases({}) /\ dirty' = dirty \ {s} /\ s \notin OnLease
    BY <1>3, <1>19 DEF SameLeases, LeaseOf, CloseLogout, LogOut, callVars
  <2>2. QED
    BY <2>1, StepKeeps
<1>20. ~SweepStart /\ ~SweepNext
  BY DEF SweepStart, SweepNext, Fit, NoSweep
<1>21. CASE UNCHANGED vars
  <2>1. SameLeases({}) /\ dirty' = dirty
    BY <1>21 DEF SameLeases, LeaseOf, vars, callVars, sessionVars
  <2>2. QED
    BY <2>1, StepStays
<1>22. QED
  BY <1>4, <1>5, <1>6, <1>7, <1>9, <1>10, <1>11, <1>12, <1>13, <1>14, <1>15, <1>16, <1>17, <1>18,
     <1>19, <1>20, <1>21
  DEF Next, CallerStep

(* In a pool without idle sweeping, with its queue, timers, failing logins *)
(* and resets, and close(), callers see leases as Leases promises them: at *)
(* most maxSize, one holder to a session, and none on a session with the   *)
(* uncommitted changes of an earlier holder.                               *)
THEOREM PoolKeepsItsPromise == ASSUME "idle" \notin Timers PROVE Spec => LeasesAsPromised
<1>1. Init => Promise!Init
  BY DEF Init, Promise!Init
<1>2. TypeOK /\ Fit /\ Queued /\ CountsRight /\ TypeOK' /\ Fit' /\ CountsRight'
        /\ [Next]_vars => [Promise!Next]_(Promise!vars)
  BY LeaseStep
<1>3. QED
  BY <1>1, <1>2, AlwaysFit, AlwaysQueued, AlwaysCountsRight, PoolTypeOK, PTL
  DEF Spec, LeasesAsPromised, Promise!Spec
-----------------------------------------------------------------------------
(* The queue is first in, first out                                        *)

(* Who leaves the queue in a step: nobody, the oldest, one whose timer     *)
(* fires, or all of them.                                                  *)
LEMMA QueueMoves ==
  ASSUME TypeOK, Queued, [Next]_vars
  PROVE  \/ ToSet(waiters) \subseteq ToSet(waiters')
         \/ waiters # <<>> /\ waiters' = Tail(waiters)
         \/ \E c \in Callers : ToSet(waiters') = ToSet(waiters) \ {c} /\ pc'[c] = "out"
         \/ ToSet(waiters') = {}
<1> USE QueueFacts
<1>1. ASSUME NEW c \in Callers, Acquire(c) \/ EvictDone(c)
      PROVE  ToSet(waiters) \subseteq ToSet(waiters')
  <2>1. CASE Enqueue(c)
    BY <2>1, PushSet DEF Enqueue
  <2>2. CASE Refused(c) \/ TakeIdle(c) \/ Connect(c)
    BY <2>2 DEF Refused, TakeIdle, Connect
  <2>3. QED
    BY <1>1, <2>1, <2>2 DEF Acquire, EvictDone, AcquireBody
<1>2. ASSUME NEW c \in Callers, NEW n, NEW stage, ServeTurn(c, n, stage)
      PROVE  waiters' = waiters \/ (waiters # <<>> /\ waiters' = Tail(waiters))
  BY <1>2 DEF ServeTurn
<1>3. ASSUME NEW c \in Callers, DiscardDone(c) \/ ServeDone(c) \/ ServeExpired(c) \/ ServeFail(c)
      PROVE  waiters' = waiters \/ (waiters # <<>> /\ waiters' = Tail(waiters))
  BY <1>2, <1>3 DEF DiscardDone, ServeDone, ServeExpired, ServeFail
<1>4. ASSUME NEW c \in Callers, HandOver(c) PROVE waiters # <<>> /\ waiters' = Tail(waiters)
  BY <1>4 DEF HandOver
<1>5. ASSUME NEW c \in Callers, Timeout(c)
      PROVE  ToSet(waiters') = ToSet(waiters) \ {c} /\ pc'[c] = "out"
  <2>1. pc'[c] = "out"
    BY <1>5 DEF Timeout
  <2>2. CASE c \notin ToSet(waiters) /\ waiters' = waiters
    BY <2>1, <2>2
  <2>3. ASSUME NEW i \in DOMAIN waiters, waiters[i] = c, waiters' = RemoveAt(waiters, i)
        PROVE  ToSet(waiters') = ToSet(waiters) \ {c}
    BY <2>3, RemoveSet DEF Queued
  <2>4. QED
    BY <1>5, <2>1, <2>2, <2>3 DEF Timeout
<1>6. CASE Close
  BY <1>6 DEF Close, ToSet
<1>7. ASSUME NEW c \in Callers,
             \/ ValidateDone(c) \/ ConnectDone(c) \/ ConnectFail(c) \/ Work(c) \/ Settle(c)
             \/ Release(c) \/ ResetDone(c) \/ CheckFailed(c) \/ Shelve(c) \/ Warm(c) \/ WarmDone(c)
      PROVE  waiters' = waiters
  BY <1>7
  DEF ValidateDone, ConnectDone, ConnectFail, Work, Settle, Release, ReleaseDiscard, ReleaseClean,
      ReleaseReset, ResetDone, CheckFailed, Shelve, Warm, WarmDone, poolVars
<1>8. CASE (\E s \in Sessions : CloseLogout(s)) \/ SweepStart \/ SweepNext \/ UNCHANGED vars
  BY <1>8 DEF CloseLogout, SweepStart, SweepNext, vars, poolVars
<1>9. QED
  BY <1>1, <1>3, <1>4, <1>5, <1>6, <1>7, <1>8 DEF Next, CallerStep

LEMMA InOrder ==
  ASSUME TypeOK, Queued, [Next]_vars,
         NEW i \in DOMAIN waiters, NEW j \in DOMAIN waiters, i < j,
         waiters[i] \in ToSet(waiters'), waiters[j] \notin ToSet(waiters')
  PROVE  pc'[waiters[j]] = "out"
<1>1. waiters \in Seq(Callers) /\ waiters[j] \in ToSet(waiters)
  BY QueueFacts DEF ToSet
<1>2. CASE waiters # <<>> /\ waiters' = Tail(waiters)
  <2>1. ToSet(waiters') = ToSet(waiters) \ {Head(waiters)}
    BY <1>1, <1>2, ShiftSet DEF Queued
  <2>2. Len(waiters) \in Nat \ {0} /\ DOMAIN waiters = 1..Len(waiters) /\ Head(waiters) = waiters[1]
    BY <1>1, <1>2, EmptySeq, LenProperties, HeadTailProperties
  <2>3. 1 \in DOMAIN waiters /\ waiters[j] = waiters[1]
    BY <1>1, <2>1, <2>2
  <2>4. j = 1
    BY <2>3 DEF Queued, IsInjective
  <2>5. QED
    BY <2>2, <2>4
<1>3. ASSUME NEW c \in Callers, ToSet(waiters') = ToSet(waiters) \ {c}, pc'[c] = "out"
      PROVE  pc'[waiters[j]] = "out"
  BY <1>1, <1>3
<1>4. QED
  BY <1>1, <1>2, <1>3, QueueMoves

(* With any timers, sweeping and failures a release never serves a caller  *)
(* while one that asked before it waits: who leaves the queue ahead of an  *)
(* older waiter is one whose timer fired.                                  *)
THEOREM PoolNoOvertaking == Spec => NoOvertaking
<1>1. TypeOK /\ Queued /\ [Next]_vars =>
        [\A i, j \in DOMAIN waiters :
           i < j /\ waiters[i] \in ToSet(waiters') /\ waiters[j] \notin ToSet(waiters')
             => pc'[waiters[j]] = "out"]_vars
  BY InOrder
<1>2. QED
  BY <1>1, AlwaysQueued, PoolTypeOK, PTL DEF Spec, NoOvertaking

-----------------------------------------------------------------------------
(* Waiters are attended to                                                 *)

(* close() rejects the queue, and nobody queues after it. *)
ClosedEmpty == closed => waiters = <<>>

LEMMA ClosedEmptyStep ==
  ASSUME TypeOK, Queued, ClosedEmpty, [Next]_vars
  PROVE  ClosedEmpty'
<1> USE DEF ClosedEmpty
<1>1. ASSUME NEW c \in Callers, NEW n, NEW stage, ServeTurn(c, n, stage), closed' = closed
      PROVE  ClosedEmpty'
  BY <1>1 DEF ServeTurn
<1>2. ASSUME NEW c \in Callers, DiscardDone(c) \/ ServeDone(c) \/ ServeExpired(c) \/ ServeFail(c)
      PROVE  ClosedEmpty'
  BY <1>1, <1>2 DEF DiscardDone, ServeDone, ServeExpired, ServeFail
<1>3. ASSUME NEW c \in Callers, Acquire(c) \/ EvictDone(c) PROVE ClosedEmpty'
  BY <1>3 DEF Acquire, EvictDone, AcquireBody, Refused, TakeIdle, Connect, Enqueue
<1>4. ASSUME NEW c \in Callers, HandOver(c) PROVE ClosedEmpty'
  BY <1>4 DEF HandOver
<1>5. ASSUME NEW c \in Callers, Timeout(c) PROVE ClosedEmpty'
  <2>1. closed' = closed
    BY <1>5 DEF Timeout
  <2>2. ASSUME closed PROVE waiters' = waiters
    <3>1. DOMAIN waiters = {}
      BY <2>2
    <3>2. QED
      BY <1>5, <3>1 DEF Timeout
  <2>3. QED
    BY <2>1, <2>2
<1>6. CASE Close
  BY <1>6 DEF Close
<1>7. ASSUME NEW c \in Callers,
             \/ ValidateDone(c) \/ ConnectDone(c) \/ ConnectFail(c) \/ Work(c) \/ Settle(c)
             \/ Release(c) \/ ResetDone(c) \/ CheckFailed(c) \/ Shelve(c) \/ Warm(c) \/ WarmDone(c)
      PROVE  ClosedEmpty'
  BY <1>7
  DEF ValidateDone, ConnectDone, ConnectFail, Work, Settle, Release, ReleaseDiscard, ReleaseClean,
      ReleaseReset, ResetDone, CheckFailed, Shelve, Warm, WarmDone, poolVars
<1>8. CASE (\E s \in Sessions : CloseLogout(s)) \/ SweepStart \/ SweepNext \/ UNCHANGED vars
  BY <1>8 DEF CloseLogout, SweepStart, SweepNext, vars, poolVars
<1>9. QED
  BY <1>2, <1>3, <1>4, <1>5, <1>6, <1>7, <1>8 DEF Next, CallerStep

(* The lost sessions are counted. *)
LEMMA LostFacts ==
  ASSUME TypeOK, Fit, LostApart, CountsRight
  PROVE  /\ abandoned \subseteq Counted /\ IsFiniteSet(abandoned)
         /\ Cardinality(abandoned) \in Nat
         /\ Cardinality(abandoned) <= Cardinality(Counted)
         /\ Cardinality(Counted) \in Nat /\ Cardinality(Counted) <= MaxSize
<1>1. abandoned \subseteq Counted
  BY DEF LostApart, Counted, Leaving
<1>2. /\ IsFiniteSet(Counted) /\ created = Cardinality(Creating) + Cardinality(Counted)
      /\ Cardinality(Creating) \in Nat /\ Cardinality(Counted) \in Nat /\ created <= MaxSize
  BY FS_CardinalityType DEF CountsRight, Balance
<1>3. /\ IsFiniteSet(abandoned) /\ Cardinality(abandoned) <= Cardinality(Counted)
      /\ Cardinality(abandoned) \in Nat
  BY <1>1, <1>2, FS_Subset, FS_CardinalityType
<1>4. Cardinality(Counted) <= MaxSize
  BY <1>2, SizesAssumption
<1>5. QED
  BY <1>1, <1>2, <1>3, <1>4

Busy == \E c \in Callers : pc[c] \notin {"out", "queued"}

(* When the capacity is in use, not all of it lost, and nothing is at      *)
(* rest, somebody logs in or has a session that is not being logged out.   *)
LEMMA FullMeansBusy ==
  ASSUME TypeOK, Fit, EmptyHanded, AllSomewhere, LostApart, CountsRight,
         idle = <<>>, created >= MaxSize
  PROVE  Busy \/ Cardinality(abandoned) = MaxSize
<1> SUFFICES ASSUME ~Busy PROVE Cardinality(abandoned) = MaxSize
  OBVIOUS
<1>1. Creating = {}
  BY DEF Busy, Creating
<1>2. ASSUME NEW s \in Counted PROVE s \in abandoned
  <2>1. s \in live /\ s \in Sessions /\ IsCounted(s)
    BY CountedOneByOne DEF IsCounted, TypeOK, Types
  <2>2. ToSet(idle) = {}
    BY DEF ToSet
  <2>3. ASSUME NEW d \in Callers, held[d] = s PROVE FALSE
    <3>1. pc[d] \in Holding
      BY <2>1, <2>3, IdentitiesAssumption DEF EmptyHanded
    <3>2. QED
      BY <3>1 DEF Busy, Holding
  <2>4. QED
    BY <2>1, <2>2, <2>3 DEF AllSomewhere, Somewhere, IsCounted
<1>3. abandoned = Counted
  BY <1>2, LostFacts
<1>4. created = Cardinality(Counted) /\ created <= MaxSize
  <2>1. Cardinality(Creating) = 0
    BY <1>1, FS_EmptySet
  <2>2. created = Cardinality(Creating) + Cardinality(Counted) /\ created <= MaxSize
    BY DEF CountsRight, Balance
  <2>3. Cardinality(Counted) \in Nat
    BY LostFacts
  <2>4. QED
    BY <2>1, <2>2, <2>3
<1>5. Cardinality(Counted) \in Nat /\ MaxSize \in Nat
  BY LostFacts, SizesAssumption
<1>6. QED
  BY <1>3, <1>4, <1>5

Invariants ==
  TypeOK /\ Fit /\ Queued /\ EmptyHanded /\ AllSomewhere /\ LostApart /\ CountsRight /\ ClosedEmpty

LEMMA FullMeansBusyAfter ==
  Invariants' => (idle = <<>> /\ created >= MaxSize => Busy \/ Cardinality(abandoned) = MaxSize)'
<1>1. Invariants => (idle = <<>> /\ created >= MaxSize => Busy \/ Cardinality(abandoned) = MaxSize)
  BY FullMeansBusy DEF Invariants
<1>2. QED
  BY <1>1, PTL

LEMMA AttendedStep ==
  ASSUME "idle" \notin Timers, Invariants, Invariants', Attended, [Next]_vars,
         ~\E c \in Callers : ConnectFail(c) \/ ServeFail(c) \/ WarmDone(c),
         Cardinality(abandoned') # MaxSize
  PROVE  Attended'
<1> USE DEF Invariants
<1>0. /\ pc \in [Callers -> Stages] /\ ClosedEmpty /\ (waiters # <<>> => idle = <<>> /\ Busy)
      /\ idle' = <<>> /\ created' >= MaxSize => Busy'
  BY FullMeansBusyAfter DEF TypeOK, Types, Attended, Busy
<1>1. SUFFICES ASSUME waiters' # <<>> PROVE idle' = <<>> /\ Busy'
  BY DEF Attended, Busy
(* Nothing comes to rest, and whoever ends an operation was not alone or   *)
(* gives another caller something to do.                                   *)
<1>2. ASSUME waiters # <<>>, idle' = idle,
             NEW c \in Callers, pc[c] # "out" => pc'[c] \notin {"out", "queued"},
             \A d \in Callers : d # c => pc'[d] = pc[d]
      PROVE  idle' = <<>> /\ Busy'
  BY <1>0, <1>2 DEF Busy
<1>3. ASSUME NEW c \in Callers, Acquire(c) \/ EvictDone(c) PROVE idle' = <<>> /\ Busy'
  <2>1. CASE Enqueue(c)
    <3>1. idle' = <<>> /\ created' >= MaxSize
      BY <2>1 DEF Enqueue
    <3>2. QED
      BY <1>0, <3>1
  <2>2. CASE Refused(c) \/ TakeIdle(c) \/ Connect(c)
    <3>1. waiters' = waiters /\ waiters # <<>> /\ idle = <<>> /\ ~closed
      BY <1>0, <1>1, <2>2 DEF Refused, TakeIdle, Connect, ClosedEmpty
    <3>2. Connect(c)
      BY <2>2, <3>1 DEF Refused, TakeIdle
    <3>3. idle' = idle /\ pc'[c] = "connecting"
      BY <1>0, <3>2 DEF Connect
    <3>4. QED
      BY <3>1, <3>3 DEF Busy
  <2>3. QED
    BY <1>3, <2>1, <2>2 DEF Acquire, EvictDone, AcquireBody
<1>4. ASSUME NEW c \in Callers,
             \/ ValidateDone(c) \/ ConnectDone(c) \/ Work(c) \/ Settle(c)
             \/ Release(c) \/ ResetDone(c) \/ CheckFailed(c) \/ Warm(c)
      PROVE  idle' = <<>> /\ Busy'
  <2>1. /\ waiters' = waiters /\ idle' = idle
        /\ pc[c] # "out" => pc'[c] \notin {"out", "queued"}
        /\ \A d \in Callers : d # c => pc'[d] = pc[d]
    BY <1>0, <1>4
    DEF ValidateDone, ConnectDone, Work, Settle, Release, ReleaseDiscard, ReleaseClean,
        ReleaseReset, ResetDone, CheckFailed, StartDiscard, Warm, WarmTurn, poolVars, callVars
  <2>2. QED
    BY <1>1, <1>2, <2>1
<1>5. ASSUME NEW c \in Callers, HandOver(c) PROVE idle' = <<>> /\ Busy'
  <2>1. waiters # <<>> /\ idle' = idle /\ pc' = [pc EXCEPT ![c] = "out", ![Head(waiters)] = "leased"]
    BY <1>5 DEF HandOver
  <2>2. Head(waiters) \in Callers
    BY <2>1, QueueFacts, HeadTailProperties
  <2>3. pc'[Head(waiters)] = "leased"
    BY <1>0, <2>1, <2>2
  <2>4. QED
    BY <1>0, <2>1, <2>2, <2>3 DEF Busy
<1>6. ASSUME NEW c \in Callers, Shelve(c) PROVE idle' = <<>> /\ Busy'
  BY <1>1, <1>6 DEF Shelve
<1>7. ASSUME NEW c \in Callers, DiscardDone(c) PROVE idle' = <<>> /\ Busy'
  <2>1. /\ waiters # <<>> /\ idle = <<>> /\ idle' = idle /\ ~closed /\ pc[c] = "discarding"
        /\ ServeTurn(c, created, pc)
    BY <1>0, <1>1, <1>7 DEF DiscardDone, ServeTurn, ClosedEmpty
  <2>2. CASE pc' = [pc EXCEPT ![c] = "serving"]
    <3>1. pc'[c] = "serving"
      BY <1>0, <2>2
    <3>2. QED
      BY <2>1, <3>1 DEF Busy
  <2>3. CASE created >= MaxSize /\ created' = created
    BY <1>0, <2>1, <2>3
  <2>4. QED
    BY <2>1, <2>2, <2>3 DEF ServeTurn
<1>8. ASSUME NEW c \in Callers, ServeDone(c) PROVE idle' = <<>> /\ Busy'
  <2> DEFINE e == serving[c]
             stage == [pc EXCEPT ![e] = "leased"]
  <2>1. pc[c] = "serving" /\ e \in Callers /\ pc[e] = "queued" /\ e # c
    BY <1>8, QueueFacts DEF ServeDone, Queued
  <2>2. idle' = idle /\ ServeTurn(c, created, stage)
    BY <1>8 DEF ServeDone
  <2>3. stage[e] = "leased"
    BY <1>0, <2>1
  <2>4. stage \in [Callers -> Stages]
    BY <1>0 DEF Stages
  <2> HIDE DEF e, stage
  <2>5. waiters # <<>> /\ pc'[e] = "leased"
    BY <1>1, <2>1, <2>2, <2>3, <2>4 DEF ServeTurn
  <2>6. QED
    BY <1>0, <2>1, <2>2, <2>5 DEF Busy
<1>9. ASSUME NEW c \in Callers, Timeout(c) PROVE idle' = <<>> /\ Busy'
  <2>1. waiters = <<>> => waiters' = waiters
    <3>1. waiters = <<>> => DOMAIN waiters = {}
      OBVIOUS
    <3>2. QED
      BY <1>9, <3>1 DEF Timeout
  <2>2. idle' = idle /\ pc[c] = "queued" /\ \A d \in Callers : d # c => pc'[d] = pc[d]
    BY <1>0, <1>9 DEF Timeout
  <2>3. PICK d \in Callers : pc[d] \notin {"out", "queued"}
    BY <1>0, <1>1, <2>1 DEF Busy
  <2>4. QED
    BY <1>0, <1>1, <2>1, <2>2, <2>3 DEF Busy
<1>10. CASE Close
  BY <1>1, <1>10 DEF Close
<1>11. CASE (\E s \in Sessions : CloseLogout(s)) \/ UNCHANGED vars
  <2>1. UNCHANGED <<idle, waiters, pc>>
    BY <1>11 DEF CloseLogout, vars, poolVars, callVars
  <2>2. QED
    BY <1>0, <1>1, <2>1 DEF Busy
<1>12. ~SweepStart /\ ~SweepNext
  BY DEF SweepStart, SweepNext, Fit, NoSweep
<1>13. ASSUME NEW c \in Callers, ServeExpired(c) PROVE idle' = <<>> /\ Busy'
  <2>1. /\ waiters # <<>> /\ idle = <<>> /\ idle' = idle /\ ~closed
        /\ ServeTurn(c, created, pc)
    BY <1>0, <1>1, <1>13 DEF ServeExpired, ServeTurn, ClosedEmpty
  <2>2. CASE pc' = [pc EXCEPT ![c] = "serving"]
    <3>1. pc'[c] = "serving"
      BY <1>0, <2>2
    <3>2. QED
      BY <2>1, <3>1 DEF Busy
  <2>3. CASE created >= MaxSize /\ created' = created
    BY <1>0, <2>1, <2>3
  <2>4. QED
    BY <2>1, <2>2, <2>3 DEF ServeTurn
<1>14. QED
  BY <1>3, <1>4, <1>5, <1>6, <1>7, <1>8, <1>9, <1>10, <1>11, <1>12, <1>13 DEF Next, CallerStep

(* In a pool without idle sweeping whoever queues has somebody at work who *)
(* will look at the queue, whatever is released, discarded, evicted, given *)
(* up or timed out meanwhile: only a login that fails, and warm(), which   *)
(* put nothing in the waiter's place, can leave it without, or the loss of *)
(* the whole capacity to waiters that had timed out.                       *)
THEOREM PoolNoStrandedWaiter == ASSUME "idle" \notin Timers PROVE Spec => NoStrandedWaiter
<1>1. Init => AllSomewhere /\ LostApart /\ ClosedEmpty
  BY IdentitiesAssumption DEF Init, AllSomewhere, LostApart, ClosedEmpty
<1>2. TypeOK /\ Fit /\ Queued /\ EmptyHanded /\ AllSomewhere /\ LostApart /\ ClosedEmpty
        /\ [Next]_vars => AllSomewhere' /\ LostApart' /\ ClosedEmpty'
  BY SomewhereStep, LostApartStep, ClosedEmptyStep
<1>3. Spec => []Invariants
  BY <1>1, <1>2, AlwaysFit, AlwaysQueued, AlwaysEmptyHanded, AlwaysCountsRight, PoolTypeOK, PTL
  DEF Spec, Invariants
<1>4. Invariants /\ Invariants' /\ [Next]_vars =>
          [Attended /\ ~Attended' =>
             \/ \E c \in Callers : ConnectFail(c) \/ ServeFail(c) \/ WarmDone(c)
             \/ Cardinality(abandoned') = MaxSize]_vars
  BY AttendedStep
<1>5. QED
  BY <1>3, <1>4, PTL DEF Spec, NoStrandedWaiter
=============================================================================
