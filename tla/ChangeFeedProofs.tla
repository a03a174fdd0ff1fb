-------------------------- MODULE ChangeFeedProofs --------------------------
(***************************************************************************)
(* Proofs about the promise to subscribers, for every set of publishers.   *)
(***************************************************************************)
EXTENDS ChangeFeed, FiniteSetTheorems, TLAPS

\* Everything a publisher owes carries the same state, so it owes each
\* signal at most once.
OneStateOwed ==
    \A p \in Publishers : \A n, m \in owed[p] : n[2] = m[2]

FeedInv == FeedTypeOK /\ OneStateOwed /\ AdEdgesBalance

-----------------------------------------------------------------------------
\* The default state is a state.
LEMMA DefaultType == NoPlayback \in PlaybackStates
BY DEF NoPlayback, PlaybackStates, Texts, Statuses, NoVolume

\* What a publication owes is well typed, and is about the new state.
LEMMA DebtType ==
    ASSUME NEW old \in PlaybackStates, NEW new \in PlaybackStates
    PROVE  /\ Debt(old, new) \in SUBSET (Signals \X PlaybackStates)
           /\ \A n \in Debt(old, new) : n[2] = new
BY DEF Debt, Edges, Signals

\* The client's variables keep their types.
LEMMA FeedTypeStep ==
    ASSUME FeedTypeOK, [Next]_feedVars
    PROVE  FeedTypeOK'
<1>1. ASSUME NEW p \in Publishers, Publish(p)
      PROVE  FeedTypeOK'
  <2>1. Debt(current, current') \in SUBSET (Signals \X PlaybackStates)
    BY <1>1, DebtType DEF FeedTypeOK, Publish
  <2> QED
    BY <1>1, <2>1 DEF FeedTypeOK, Publish
<1>2. ASSUME NEW p \in Publishers, Notify(p)
      PROVE  FeedTypeOK'
  <2>1. PICK n \in owed[p] :
             /\ owed' = [owed EXCEPT ![p] = @ \ {n}]
             /\ seen' = IF n[1] = "state" THEN n[2] ELSE seen
             /\ ads' = ads + AdStep(n[1])
             /\ UNCHANGED current
    BY <1>2 DEF Notify
  <2>2. n[1] \in Signals /\ n[2] \in PlaybackStates
    BY DEF FeedTypeOK
  <2>3. owed' \in [Publishers -> SUBSET (Signals \X PlaybackStates)]
    BY <2>1 DEF FeedTypeOK
  <2>4. seen' \in PlaybackStates
    BY <2>1, <2>2 DEF FeedTypeOK
  <2>5. ads' \in Int
    BY <2>1 DEF FeedTypeOK, AdStep
  <2> QED
    BY <2>1, <2>3, <2>4, <2>5 DEF FeedTypeOK
<1>3. CASE UNCHANGED feedVars
  BY <1>3 DEF FeedTypeOK, feedVars
<1> QED
  BY <1>1, <1>2, <1>3 DEF Next

\* Whoever owes anything owes the state notification, once.
LEMMA OneStateOwedStep ==
    ASSUME FeedTypeOK, OneStateOwed, [Next]_feedVars
    PROVE  OneStateOwed'
<1>1. ASSUME NEW p \in Publishers, Publish(p)
      PROVE  OneStateOwed'
  <2>1. \A n \in Debt(current, current') : n[2] = current'
    BY <1>1, DebtType DEF FeedTypeOK, Publish
  <2> QED
    BY <1>1, <2>1 DEF OneStateOwed, FeedTypeOK, Publish
<1>2. ASSUME NEW p \in Publishers, Notify(p)
      PROVE  OneStateOwed'
  BY <1>2 DEF OneStateOwed, FeedTypeOK, Notify
<1>3. CASE UNCHANGED feedVars
  BY <1>3 DEF OneStateOwed, feedVars
<1> QED
  BY <1>1, <1>2, <1>3 DEF Next

-----------------------------------------------------------------------------
\* How the set of publishers that owe a signal changes.
LEMMA OwesAfterPublish ==
    ASSUME FeedTypeOK, NEW p \in Publishers, Publish(p),
           NEW s \in {"adStarted", "adEnded"}
    PROVE  /\ p \notin Owes(s)
           /\ Owes(s)' = IF s \in Edges(current, current') THEN Owes(s) \cup {p}
                         ELSE Owes(s)
<1>1. owed[p] = {} /\ owed' = [owed EXCEPT ![p] = Debt(current, current')]
  BY DEF Publish
<1>2. (\E n \in Debt(current, current') : n[1] = s) <=> s \in Edges(current, current')
  <2>1. ASSUME s \in Edges(current, current')
        PROVE  \E n \in Debt(current, current') : n[1] = s
    <3>1. <<s, current'>> \in Debt(current, current')
      BY <2>1 DEF Debt
    <3> QED
      BY <3>1
  <2>2. ASSUME NEW n \in Debt(current, current'), n[1] = s
        PROVE  s \in Edges(current, current')
    BY <2>2 DEF Debt
  <2> QED
    BY <2>1, <2>2
<1>3. \A q \in Publishers : owed'[q] = IF q = p THEN Debt(current, current') ELSE owed[q]
  BY <1>1 DEF FeedTypeOK
<1>4. p \notin Owes(s)
  BY <1>1 DEF Owes
<1>5. ASSUME NEW q \in Publishers
      PROVE  q \in Owes(s)' <=> \/ q = p /\ s \in Edges(current, current')
                                \/ q # p /\ q \in Owes(s)
  BY <1>2, <1>3 DEF Owes
<1>6. Owes(s) \subseteq Publishers /\ Owes(s)' \subseteq Publishers
  BY DEF Owes
<1> QED
  BY <1>4, <1>5, <1>6

\* A notification takes one publisher out of those that owe its signal.
LEMMA OwesAfterNotify ==
    ASSUME FeedTypeOK, OneStateOwed, NEW p \in Publishers, NEW n \in owed[p],
           owed' = [owed EXCEPT ![p] = @ \ {n}],
           NEW s \in {"adStarted", "adEnded"}
    PROVE  /\ n[1] = s => p \in Owes(s)
           /\ Owes(s)' = IF n[1] = s THEN Owes(s) \ {p} ELSE Owes(s)
<1>1. \A q \in Publishers : owed'[q] = IF q = p THEN owed[q] \ {n} ELSE owed[q]
  BY DEF FeedTypeOK
<1>2. n[1] = s => p \in Owes(s)
  BY DEF Owes
<1>3. ASSUME NEW m \in owed[p], m[1] = n[1]
      PROVE  m = n
  <2>1. m \in Signals \X PlaybackStates /\ n \in Signals \X PlaybackStates
    BY DEF FeedTypeOK
  <2>2. m[2] = n[2]
    BY DEF OneStateOwed
  <2> QED
    BY <1>3, <2>1, <2>2
<1>4. (\E m \in owed[p] \ {n} : m[1] = s) <=> (n[1] # s /\ \E m \in owed[p] : m[1] = s)
  BY <1>3
<1>5. ASSUME NEW q \in Publishers
      PROVE  q \in Owes(s)' <=> IF q = p THEN n[1] # s /\ q \in Owes(s) ELSE q \in Owes(s)
  BY <1>1, <1>4 DEF Owes
<1>6. Owes(s) \subseteq Publishers /\ Owes(s)' \subseteq Publishers
  BY DEF Owes
<1> QED
  BY <1>2, <1>5, <1>6
-----------------------------------------------------------------------------
\* The publishers that owe a signal are a finite set.
LEMMA OwesFinite ==
    ASSUME IsFiniteSet(Publishers), NEW s
    PROVE  IsFiniteSet(Owes(s)) /\ Cardinality(Owes(s)) \in Nat
BY FS_Subset, FS_CardinalityType DEF Owes

\* Every step of the promise keeps the advertisement edges balanced.
LEMMA AdEdgesBalanceStep ==
    ASSUME IsFiniteSet(Publishers), FeedTypeOK, OneStateOwed, AdEdgesBalance,
           [Next]_feedVars
    PROVE  AdEdgesBalance'
<1> DEFINE S == Owes("adStarted")
           E == Owes("adEnded")
<1>0. /\ IsFiniteSet(S) /\ Cardinality(S) \in Nat
      /\ IsFiniteSet(E) /\ Cardinality(E) \in Nat
      /\ ads \in Int
  BY OwesFinite DEF FeedTypeOK
<1>1. ASSUME NEW p \in Publishers, Publish(p)
      PROVE  AdEdgesBalance'
  <2>1. /\ p \notin S /\ p \notin E
        /\ S' = IF "adStarted" \in Edges(current, current') THEN S \cup {p} ELSE S
        /\ E' = IF "adEnded" \in Edges(current, current') THEN E \cup {p} ELSE E
    BY <1>1, OwesAfterPublish
  <2>2. /\ current.isAd \in BOOLEAN /\ current'.isAd \in BOOLEAN
        /\ ads' = ads
    BY <1>1 DEF FeedTypeOK, PlaybackStates, Publish
  <2>3. /\ "adStarted" \in Edges(current, current') <=> ~current.isAd /\ current'.isAd
        /\ "adEnded" \in Edges(current, current') <=> current.isAd /\ ~current'.isAd
    BY DEF Edges
  <2>4. /\ Cardinality(S \cup {p}) = Cardinality(S) + 1
        /\ Cardinality(E \cup {p}) = Cardinality(E) + 1
    BY <1>0, <2>1, FS_AddElement
  <2>5. /\ Cardinality(S') = IF ~current.isAd /\ current'.isAd
                             THEN Cardinality(S) + 1 ELSE Cardinality(S)
        /\ Cardinality(E') = IF current.isAd /\ ~current'.isAd
                             THEN Cardinality(E) + 1 ELSE Cardinality(E)
    BY <2>1, <2>3, <2>4
  <2> HIDE DEF S, E
  <2>6. /\ ads + Cardinality(S) - Cardinality(E) = IF current.isAd THEN 1 ELSE 0
        /\ AdEdgesBalance' <=> ads' + Cardinality(S') - Cardinality(E')
                                 = IF current'.isAd THEN 1 ELSE 0
    BY DEF AdEdgesBalance, S, E
  <2> QED
    BY <1>0, <2>2, <2>5, <2>6
<1>2. ASSUME NEW p \in Publishers, Notify(p)
      PROVE  AdEdgesBalance'
  <2>1. PICK n \in owed[p] : /\ owed' = [owed EXCEPT ![p] = @ \ {n}]
                             /\ ads' = ads + AdStep(n[1])
                             /\ current' = current
    BY <1>2 DEF Notify
  <2>2. /\ n[1] = "adStarted" => p \in S
        /\ n[1] = "adEnded" => p \in E
        /\ S' = IF n[1] = "adStarted" THEN S \ {p} ELSE S
        /\ E' = IF n[1] = "adEnded" THEN E \ {p} ELSE E
    BY <2>1, OwesAfterNotify
  <2>3. /\ Cardinality(S') = IF n[1] = "adStarted" THEN Cardinality(S) - 1
                             ELSE Cardinality(S)
        /\ Cardinality(E') = IF n[1] = "adEnded" THEN Cardinality(E) - 1
                             ELSE Cardinality(E)
    BY <1>0, <2>2, FS_RemoveElement
  <2> HIDE DEF S, E
  <2>4. /\ ads + Cardinality(S) - Cardinality(E) = IF current.isAd THEN 1 ELSE 0
        /\ AdEdgesBalance' <=> ads' + Cardinality(S') - Cardinality(E')
                                 = IF current'.isAd THEN 1 ELSE 0
    BY DEF AdEdgesBalance, S, E
  <2> QED
    BY <1>0, <2>1, <2>3, <2>4 DEF AdStep
<1>3. CASE UNCHANGED feedVars
  <2>1. S' = S /\ E' = E /\ ads' = ads /\ current' = current
    BY <1>3 DEF feedVars, Owes
  <2> QED
    BY <2>1 DEF AdEdgesBalance
<1> QED
  BY <1>1, <1>2, <1>3 DEF Next

\* The invariant holds before anything is published.
LEMMA FeedInvInit ==
    ASSUME Init
    PROVE  FeedInv
<1>1. FeedTypeOK
  BY DefaultType DEF Init, FeedTypeOK
<1>2. OneStateOwed
  BY DEF Init, OneStateOwed
<1>3. Owes("adStarted") = {} /\ Owes("adEnded") = {}
  BY DEF Init, Owes
<1>4. AdEdgesBalance
  BY <1>3, FS_EmptySet DEF Init, AdEdgesBalance, NoPlayback
<1> QED
  BY <1>1, <1>2, <1>4 DEF FeedInv

\* The advertisement edges delivered and owed add up to the current state,
\* for any finite number of publishers in any interleaving.
THEOREM FeedAdEdges ==
    IsFiniteSet(Publishers) => (SafetySpec => []AdEdgesBalance)
<1> SUFFICES ASSUME IsFiniteSet(Publishers)
             PROVE  SafetySpec => []AdEdgesBalance
  OBVIOUS
<1>1. Init => FeedInv
  BY FeedInvInit
<1>2. FeedInv /\ [Next]_feedVars => FeedInv'
  BY FeedTypeStep, OneStateOwedStep, AdEdgesBalanceStep DEF FeedInv
<1>3. FeedInv => AdEdgesBalance
  BY DEF FeedInv
<1> QED
  BY <1>1, <1>2, <1>3, PTL DEF SafetySpec

-----------------------------------------------------------------------------
\* What a sole publisher still owes includes the current state.
SoleInv(p) ==
    /\ FeedTypeOK
    /\ owed[p] = {} => seen = current
    /\ owed[p] # {} => /\ <<"state", current>> \in owed[p]
                       /\ \A n \in owed[p] : n[2] = current

\* With a single publisher the subscriber is current whenever nothing is
\* owed: only the overtaking of one publisher by another makes the last
\* pushed state differ from the one LatestState() returns.
THEOREM SolePublisherInOrder ==
    ASSUME NEW p, Publishers = {p}
    PROVE  SafetySpec => []SettledSubscriberIsCurrent
<1>1. Init => SoleInv(p)
  BY DefaultType DEF Init, SoleInv, FeedTypeOK
<1>2. SoleInv(p) /\ [Next]_feedVars => SoleInv(p)'
  <2> SUFFICES ASSUME SoleInv(p), [Next]_feedVars
               PROVE  SoleInv(p)'
    OBVIOUS
  <2>0. FeedTypeOK /\ FeedTypeOK'
    BY FeedTypeStep DEF SoleInv
  <2>1. CASE Publish(p)
    <3>1. owed'[p] = Debt(current, current')
      BY <2>0, <2>1 DEF Publish, FeedTypeOK
    <3>2. <<"state", current'>> \in owed'[p] /\ \A n \in owed'[p] : n[2] = current'
      BY <3>1 DEF Debt
    <3> QED
      BY <2>0, <3>2 DEF SoleInv
  <2>2. CASE Notify(p)
    <3>1. PICK n \in owed[p] :
               /\ n[1] = "state" => owed[p] = {n}
               /\ owed' = [owed EXCEPT ![p] = @ \ {n}]
               /\ seen' = IF n[1] = "state" THEN n[2] ELSE seen
               /\ current' = current
      BY <2>2 DEF Notify
    <3>2. owed'[p] = owed[p] \ {n}
      BY <2>0, <3>1 DEF FeedTypeOK
    <3>3. <<"state", current>> \in owed[p] /\ \A m \in owed[p] : m[2] = current
      BY DEF SoleInv
    <3>4. CASE n[1] = "state"
      BY <2>0, <3>1, <3>2, <3>3, <3>4 DEF SoleInv
    <3>5. CASE n[1] # "state"
      <4>1. n # <<"state", current>>
        BY <3>5
      <4> QED
        BY <2>0, <3>1, <3>2, <3>3, <4>1 DEF SoleInv
    <3> QED
      BY <3>4, <3>5
  <2>3. CASE UNCHANGED feedVars
    BY <2>0, <2>3 DEF SoleInv, feedVars
  <2> QED
    BY <2>1, <2>2, <2>3 DEF Next
<1>3. SoleInv(p) => SettledSubscriberIsCurrent
  BY DEF SoleInv, SettledSubscriberIsCurrent
<1> QED
  BY <1>1, <1>2, <1>3, PTL DEF SafetySpec
=============================================================================
