---------------------------- MODULE SignalProofs ----------------------------
(***************************************************************************)
(* Proofs about Signal, for any publishers, finitely many clients and any  *)
(* bounds.  Each part of the inductive invariant is preserved by a lemma of *)
(* its own; the lemmas about what slots have heard come last.              *)
(***************************************************************************)
EXTENDS Signal, FiniteSetTheorems, SequenceTheorems, TLAPS

USE SignalAssumption DEF Threads, Tokens, Values

\* If there is room for one more connection, a token is left for it.
LEMMA RoomLeft ==
    ASSUME TypeOK, Room
    PROVE  next < MaxToken
<1>1. IsFiniteSet({c \in Clients : pc[c] = "connecting"})
  BY FS_Subset
<1>2. Cardinality({c \in Clients : pc[c] = "connecting"}) \in Nat
  BY <1>1, FS_CardinalityType
<1> QED
  BY <1>2 DEF Room, TypeOK

\* What a slot has heard, after one more value.
LEMMA HeardAppend ==
    ASSUME NEW h \in Seq(Heard), NEW x \in Heard
    PROVE  /\ Append(h, x) \in Seq(Heard)
           /\ Len(h) \in Nat /\ DOMAIN h = 1 .. Len(h)
           /\ DOMAIN Append(h, x) = 1 .. (Len(h) + 1)
           /\ \A i \in DOMAIN h : Append(h, x)[i] = h[i]
           /\ Append(h, x)[Len(h) + 1] = x
BY AppendProperties

\* Each kind of thread keeps to its places.
PlacesOK ==
    /\ \A c \in Clients : pc[c] \in ClientPlaces
    /\ \A p \in Publishers : pc[p] \in PublisherPlaces
    /\ pc \in [Threads -> ClientPlaces \cup PublisherPlaces]

\* The rest of TypeOK.
DataOK ==
    /\ current \in Values
    /\ next \in 0 .. MaxToken /\ slots \subseteq 1 .. next
    /\ mu \in Clients \cup {Nobody}
    /\ back \in [Threads -> {"idle", "callback", "replayed"}]
    /\ target \in [Threads -> 0 .. MaxToken]
    /\ arg \in [Clients -> Values]
    /\ payload \in [Publishers -> Values]
    /\ pending \in [Publishers -> SUBSET (1 .. next)]
    /\ held \subseteq 1 .. next
    /\ stays \in [Publishers -> SUBSET (1 .. next)]
    /\ heard \in [Tokens -> Seq(Heard)]

\* A client that moves to one of its places leaves every thread in place.
LEMMA ClientGoes ==
    ASSUME PlacesOK, NEW c \in Clients, NEW place \in ClientPlaces, Goto(c, place)
    PROVE  PlacesOK'
BY DEF PlacesOK, Goto

\* A publisher that moves to one of its places leaves every thread in place.
LEMMA PublisherGoes ==
    ASSUME PlacesOK, NEW p \in Publishers, NEW place \in PublisherPlaces, Goto(p, place)
    PROVE  PlacesOK'
BY DEF PlacesOK, Goto

\* A new signal has no slots and its variables have their types.
LEMMA TypeInit == Init => TypeOK
BY DEF Init, TypeOK, ClientPlaces, PublisherPlaces

\* Every step keeps the types; Room is what keeps tokens within the bound.
LEMMA TypeStep ==
    ASSUME TypeOK, BackPlaces, MutexHeld, NewSlotHidden, [Next]_vars
    PROVE  TypeOK'
<1>0. TypeOK <=> PlacesOK /\ DataOK
  BY DEF TypeOK, PlacesOK, DataOK
<1>00. TypeOK' <=> PlacesOK' /\ DataOK'
  BY DEF TypeOK, PlacesOK, DataOK
<1> USE <1>0
<1>1. ASSUME NEW c \in Clients, Connect(c)
      PROVE  TypeOK'
  <2>1. PlacesOK'
    BY <1>1 DEF Connect, PlacesOK
  <2>2. DataOK'
    BY <1>1, RoomLeft DEF Connect, DataOK
  <2> QED
    BY <1>00, <2>1, <2>2
<1>2. ASSUME NEW c \in Clients, ReadLatest(c)
      PROVE  TypeOK'
  <2>1. PlacesOK'
    BY <1>2, ClientGoes DEF ReadLatest, ClientPlaces
  <2>2. DataOK'
    BY <1>2 DEF ReadLatest, DataOK
  <2> QED
    BY <1>00, <2>1, <2>2
<1>3. ASSUME NEW c \in Clients, LockAndPush(c)
      PROVE  TypeOK'
  <2>1. PlacesOK'
    BY <1>3, ClientGoes DEF LockAndPush, ClientPlaces
  <2>2. DataOK'
    BY <1>3 DEF LockAndPush, DataOK
  <2> QED
    BY <1>00, <2>1, <2>2
<1>4. ASSUME NEW c \in Clients, Replay(c)
      PROVE  TypeOK'
  <2>1. PlacesOK'
    BY <1>4, ClientGoes DEF Replay, ClientPlaces
  <2>2. <<"replay", arg[c]>> \in Heard
    BY DEF Heard, DataOK
  <2>3. \A j \in Tokens : Append(heard[j], <<"replay", arg[c]>>) \in Seq(Heard)
    BY <2>2, HeardAppend DEF DataOK
  <2>4. heard' \in [Tokens -> Seq(Heard)]
    BY <1>4, <2>3 DEF Replay, DataOK
  <2>5. DataOK'
    BY <1>4, <2>4 DEF Replay, DataOK
  <2> QED
    BY <1>00, <2>1, <2>5
<1>5. ASSUME NEW c \in Clients, EndReplay(c)
      PROVE  TypeOK'
  <2>1. PlacesOK'
    BY <1>5, ClientGoes DEF EndReplay, ClientPlaces
  <2>0. next \in 1 .. next
    BY <1>5 DEF EndReplay, MutexHeld, InReplay, NewSlotHidden, DataOK
  <2>2. DataOK'
    BY <1>5, <2>0 DEF EndReplay, DataOK
  <2> QED
    BY <1>00, <2>1, <2>2
<1>6. ASSUME NEW t \in Threads, NEW k \in held, BeginDisconnect(t, k)
      PROVE  TypeOK'
  <2>1. PlacesOK'
    <3>1. CASE t \in Clients
      BY <1>6, <3>1, ClientGoes DEF BeginDisconnect, ClientPlaces
    <3>2. CASE t \in Publishers
      BY <1>6, <3>2, PublisherGoes DEF BeginDisconnect, PublisherPlaces
    <3> QED
      BY <3>1, <3>2
  <2>2. DataOK'
    <3>1. stays' \in [Publishers -> SUBSET (1 .. next)]
      BY <1>6 DEF BeginDisconnect, DataOK
    <3>2. k \in 0 .. MaxToken
      BY DEF DataOK
    <3>3. pc[t] \in {"idle", "callback", "replayed"}
      BY <1>6 DEF BeginDisconnect
    <3>4. /\ target' \in [Threads -> 0 .. MaxToken]
          /\ back' \in [Threads -> {"idle", "callback", "replayed"}]
      BY <1>6, <3>2, <3>3 DEF BeginDisconnect, DataOK
    <3>5. held' \subseteq 1 .. next
      BY <1>6 DEF BeginDisconnect, DataOK
    <3>6. UNCHANGED <<current, slots, next, mu, arg, payload, pending, heard>>
      BY <1>6 DEF BeginDisconnect
    <3> QED
      BY <3>1, <3>4, <3>5, <3>6 DEF DataOK
  <2> QED
    BY <1>00, <2>1, <2>2
<1>7. ASSUME NEW t \in Threads, FinishDisconnect(t)
      PROVE  TypeOK'
  <2>1. PlacesOK'
    <3>1. CASE t \in Clients
      <4>1. back[t] \in ClientPlaces
        BY <1>7, <3>1 DEF FinishDisconnect, BackPlaces, ClientPlaces
      <4> QED
        BY <1>7, <3>1, <4>1, ClientGoes DEF FinishDisconnect
    <3>2. CASE t \in Publishers
      <4>1. back[t] \in PublisherPlaces
        BY <1>7, <3>2 DEF FinishDisconnect, BackPlaces, PublisherPlaces
      <4> QED
        BY <1>7, <3>2, <4>1, PublisherGoes DEF FinishDisconnect
    <3> QED
      BY <3>1, <3>2
  <2>2. DataOK'
    BY <1>7 DEF FinishDisconnect, DataOK
  <2> QED
    BY <1>00, <2>1, <2>2
<1>8. ASSUME NEW c \in Clients, Clear(c)
      PROVE  TypeOK'
  <2>1. PlacesOK'
    BY <1>8 DEF Clear, PlacesOK
  <2>2. DataOK'
    BY <1>8 DEF Clear, DataOK
  <2> QED
    BY <1>00, <2>1, <2>2
<1>9. ASSUME NEW p \in Publishers, PublishState(p)
      PROVE  TypeOK'
  <2>1. PlacesOK'
    BY <1>9, PublisherGoes DEF PublishState, PublisherPlaces
  <2>2. DataOK'
    <3>1. current + 1 \in Values
      BY <1>9 DEF PublishState, DataOK
    <3>2. /\ current' \in Values
          /\ payload' \in [Publishers -> Values]
      BY <1>9, <3>1 DEF PublishState, DataOK
    <3> QED
      BY <1>9, <3>2 DEF PublishState, DataOK
  <2> QED
    BY <1>00, <2>1, <2>2
<1>10. ASSUME NEW p \in Publishers, TakeSnapshot(p)
      PROVE  TypeOK'
  <2>1. PlacesOK'
    BY <1>10, PublisherGoes DEF TakeSnapshot, PublisherPlaces
  <2>2. DataOK'
    BY <1>10 DEF TakeSnapshot, DataOK
  <2> QED
    BY <1>00, <2>1, <2>2
<1>11. ASSUME NEW p \in Publishers, NEW k \in pending[p], Invoke(p, k)
      PROVE  TypeOK'
  <2>1. PlacesOK'
    BY <1>11, PublisherGoes DEF Invoke, PublisherPlaces
  <2>2. <<"emit", payload[p]>> \in Heard
    BY DEF Heard, DataOK
  <2>3. \A j \in Tokens : Append(heard[j], <<"emit", payload[p]>>) \in Seq(Heard)
    BY <2>2, HeardAppend DEF DataOK
  <2>4. heard' \in [Tokens -> Seq(Heard)]
    BY <1>11, <2>3 DEF Invoke, DataOK
  <2>5. DataOK'
    BY <1>11, <2>4 DEF Invoke, DataOK
  <2> QED
    BY <1>00, <2>1, <2>5
<1>12. ASSUME NEW p \in Publishers, CallbackReturns(p)
      PROVE  TypeOK'
  <2>1. PlacesOK'
    BY <1>12, PublisherGoes DEF CallbackReturns, PublisherPlaces
  <2>2. DataOK'
    BY <1>12 DEF CallbackReturns, DataOK
  <2> QED
    BY <1>00, <2>1, <2>2
<1>13. ASSUME NEW p \in Publishers, EndEmit(p)
      PROVE  TypeOK'
  <2>1. PlacesOK'
    BY <1>13, PublisherGoes DEF EndEmit, PublisherPlaces
  <2>2. DataOK'
    BY <1>13 DEF EndEmit, DataOK
  <2> QED
    BY <1>00, <2>1, <2>2
<1>14. CASE UNCHANGED vars
  <2>1. PlacesOK' /\ DataOK'
    BY <1>14 DEF vars, PlacesOK, DataOK
  <2> QED
    BY <1>00, <2>1
<1> QED
  BY <1>1, <1>2, <1>3, <1>4, <1>5, <1>6, <1>7, <1>8, <1>9, <1>10, <1>11, <1>12, <1>13, <1>14
     DEF Next, ClientStep, PublisherStep
-----------------------------------------------------------------------------
(* The control of ConnectAndReplay and disconnect.                           *)

\* Who holds the mutex, and where a disconnecting thread came from, stay in step
\* with the places of the threads.
LEMMA ControlStep ==
    ASSUME TypeOK, MutexHeld, BackPlaces, [Next]_vars
    PROVE  (MutexHeld /\ BackPlaces)'
<1>1. ASSUME NEW c \in Clients, Connect(c)
      PROVE  (MutexHeld /\ BackPlaces)'
  BY <1>1 DEF Connect, MutexHeld, BackPlaces, InReplay, TypeOK, Goto, ClientPlaces, PublisherPlaces
<1>2. ASSUME NEW c \in Clients, ReadLatest(c)
      PROVE  (MutexHeld /\ BackPlaces)'
  BY <1>2 DEF ReadLatest, MutexHeld, BackPlaces, InReplay, TypeOK, Goto, ClientPlaces,
              PublisherPlaces
<1>3. ASSUME NEW c \in Clients, LockAndPush(c)
      PROVE  (MutexHeld /\ BackPlaces)'
  BY <1>3 DEF LockAndPush, MutexHeld, BackPlaces, InReplay, TypeOK, Goto, ClientPlaces,
              PublisherPlaces
<1>4. ASSUME NEW c \in Clients, Replay(c)
      PROVE  (MutexHeld /\ BackPlaces)'
  BY <1>4 DEF Replay, MutexHeld, BackPlaces, InReplay, TypeOK, Goto, ClientPlaces, PublisherPlaces
<1>5. ASSUME NEW c \in Clients, EndReplay(c)
      PROVE  (MutexHeld /\ BackPlaces)'
  BY <1>5 DEF EndReplay, MutexHeld, BackPlaces, InReplay, TypeOK, Goto, ClientPlaces,
              PublisherPlaces
<1>6. ASSUME NEW t \in Threads, NEW k \in held, BeginDisconnect(t, k)
      PROVE  (MutexHeld /\ BackPlaces)'
  BY <1>6 DEF BeginDisconnect, MutexHeld, BackPlaces, InReplay, TypeOK, Goto, ClientPlaces,
              PublisherPlaces
<1>7. ASSUME NEW t \in Threads, FinishDisconnect(t)
      PROVE  (MutexHeld /\ BackPlaces)'
  BY <1>7 DEF FinishDisconnect, MutexHeld, BackPlaces, InReplay, TypeOK, Goto, ClientPlaces,
              PublisherPlaces
<1>8. ASSUME NEW c \in Clients, Clear(c)
      PROVE  (MutexHeld /\ BackPlaces)'
  BY <1>8 DEF Clear, MutexHeld, BackPlaces, InReplay, TypeOK, Goto, ClientPlaces, PublisherPlaces
<1>9. ASSUME NEW p \in Publishers, PublishState(p)
      PROVE  (MutexHeld /\ BackPlaces)'
  BY <1>9 DEF PublishState, MutexHeld, BackPlaces, InReplay, TypeOK, Goto, ClientPlaces,
              PublisherPlaces
<1>10. ASSUME NEW p \in Publishers, TakeSnapshot(p)
       PROVE  (MutexHeld /\ BackPlaces)'
  BY <1>10 DEF TakeSnapshot, MutexHeld, BackPlaces, InReplay, TypeOK, Goto, ClientPlaces,
               PublisherPlaces
<1>11. ASSUME NEW p \in Publishers, NEW k \in pending[p], Invoke(p, k)
       PROVE  (MutexHeld /\ BackPlaces)'
  BY <1>11 DEF Invoke, MutexHeld, BackPlaces, InReplay, TypeOK, Goto, ClientPlaces, PublisherPlaces
<1>12. ASSUME NEW p \in Publishers, CallbackReturns(p)
       PROVE  (MutexHeld /\ BackPlaces)'
  BY <1>12 DEF CallbackReturns, MutexHeld, BackPlaces, InReplay, TypeOK, Goto, ClientPlaces,
               PublisherPlaces
<1>13. ASSUME NEW p \in Publishers, EndEmit(p)
       PROVE  (MutexHeld /\ BackPlaces)'
  BY <1>13 DEF EndEmit, MutexHeld, BackPlaces, InReplay, TypeOK, Goto, ClientPlaces, PublisherPlaces
<1>14. CASE UNCHANGED vars
  BY <1>14 DEF vars, MutexHeld, BackPlaces, InReplay, TypeOK, Goto, ClientPlaces, PublisherPlaces
<1> QED
  BY <1>1, <1>2, <1>3, <1>4, <1>5, <1>6, <1>7, <1>8, <1>9,
     <1>10, <1>11, <1>12, <1>13, <1>14
     DEF Next, ClientStep, PublisherStep

\* A token that is being disconnected is held by nobody, and what is held is
\* still connected.
LEMMA TargetStep ==
    ASSUME TypeOK, MutexHeld, NewSlotHidden, TargetsGone, HeldConnected, [Next]_vars
    PROVE  (TargetsGone /\ HeldConnected)'
<1>1. ASSUME NEW c \in Clients, Connect(c)
      PROVE  (TargetsGone /\ HeldConnected)'
  BY <1>1 DEF Connect, TargetsGone, HeldConnected, TypeOK
<1>2. ASSUME NEW c \in Clients, ReadLatest(c)
      PROVE  (TargetsGone /\ HeldConnected)'
  BY <1>2 DEF ReadLatest, TargetsGone, HeldConnected, TypeOK
<1>3. ASSUME NEW c \in Clients, LockAndPush(c)
      PROVE  (TargetsGone /\ HeldConnected)'
  BY <1>3 DEF LockAndPush, TargetsGone, HeldConnected, TypeOK
<1>4. ASSUME NEW c \in Clients, Replay(c)
      PROVE  (TargetsGone /\ HeldConnected)'
  BY <1>4 DEF Replay, TargetsGone, HeldConnected, TypeOK
<1>5. ASSUME NEW c \in Clients, EndReplay(c)
      PROVE  (TargetsGone /\ HeldConnected)'
  <2>1. mu = c /\ mu # Nobody
    BY <1>5 DEF EndReplay, MutexHeld, InReplay
  <2>2. next \in slots /\ \A t \in Threads : target[t] # next
    BY <2>1 DEF NewSlotHidden
  <2> QED
    BY <1>5, <2>2 DEF EndReplay, TargetsGone, HeldConnected, TypeOK
<1>6. ASSUME NEW t \in Threads, NEW k \in held, BeginDisconnect(t, k)
      PROVE  (TargetsGone /\ HeldConnected)'
  BY <1>6 DEF BeginDisconnect, TargetsGone, HeldConnected, TypeOK
<1>7. ASSUME NEW t \in Threads, FinishDisconnect(t)
      PROVE  (TargetsGone /\ HeldConnected)'
  BY <1>7 DEF FinishDisconnect, TargetsGone, HeldConnected, TypeOK
<1>8. ASSUME NEW c \in Clients, Clear(c)
      PROVE  (TargetsGone /\ HeldConnected)'
  BY <1>8 DEF Clear, TargetsGone, HeldConnected, TypeOK
<1>9. ASSUME NEW p \in Publishers, PublishState(p)
      PROVE  (TargetsGone /\ HeldConnected)'
  BY <1>9 DEF PublishState, TargetsGone, HeldConnected, TypeOK
<1>10. ASSUME NEW p \in Publishers, TakeSnapshot(p)
       PROVE  (TargetsGone /\ HeldConnected)'
  BY <1>10 DEF TakeSnapshot, TargetsGone, HeldConnected, TypeOK
<1>11. ASSUME NEW p \in Publishers, NEW k \in pending[p], Invoke(p, k)
       PROVE  (TargetsGone /\ HeldConnected)'
  BY <1>11 DEF Invoke, TargetsGone, HeldConnected, TypeOK
<1>12. ASSUME NEW p \in Publishers, CallbackReturns(p)
       PROVE  (TargetsGone /\ HeldConnected)'
  BY <1>12 DEF CallbackReturns, TargetsGone, HeldConnected, TypeOK
<1>13. ASSUME NEW p \in Publishers, EndEmit(p)
       PROVE  (TargetsGone /\ HeldConnected)'
  BY <1>13 DEF EndEmit, TargetsGone, HeldConnected, TypeOK
<1>14. CASE UNCHANGED vars
  BY <1>14 DEF vars, TargetsGone, HeldConnected, TypeOK
<1> QED
  BY <1>1, <1>2, <1>3, <1>4, <1>5, <1>6, <1>7, <1>8, <1>9,
     <1>10, <1>11, <1>12, <1>13, <1>14
     DEF Next, ClientStep, PublisherStep

\* While ConnectAndReplay holds the mutex, nobody else knows its new slot.
LEMMA HiddenStep ==
    ASSUME TypeOK, MutexHeld, NewSlotHidden, TargetsGone, FreshTokens, [Next]_vars
    PROVE  NewSlotHidden'
<1>1. ASSUME NEW c \in Clients, Connect(c)
      PROVE  NewSlotHidden'
  BY <1>1 DEF Connect, NewSlotHidden, TypeOK, Goto
<1>2. ASSUME NEW c \in Clients, ReadLatest(c)
      PROVE  NewSlotHidden'
  BY <1>2 DEF ReadLatest, NewSlotHidden, TypeOK, Goto
<1>3. ASSUME NEW c \in Clients, LockAndPush(c)
      PROVE  NewSlotHidden'
  <2>1. next + 1 \in Tokens /\ heard[next + 1] = <<>>
    BY <1>3 DEF LockAndPush, FreshTokens, TypeOK
  <2>2. next + 1 \notin held /\ \A p \in Publishers : next + 1 \notin pending[p]
    BY DEF TypeOK
  <2>3. \A t \in Threads : target[t] # next + 1
    BY DEF TargetsGone, TypeOK
  <2> QED
    BY <1>3, <2>1, <2>2, <2>3 DEF LockAndPush, NewSlotHidden
<1>4. ASSUME NEW c \in Clients, Replay(c)
      PROVE  NewSlotHidden'
  <2>1. \A d \in Clients : pc[d] = "replaying" => d = c
    BY <1>4 DEF Replay, MutexHeld, InReplay
  <2>2. \A d \in Clients : pc'[d] # "replaying"
    BY <1>4, <2>1 DEF Replay, Goto, TypeOK
  <2> QED
    BY <1>4, <2>2 DEF Replay, NewSlotHidden
<1>5. ASSUME NEW c \in Clients, EndReplay(c)
      PROVE  NewSlotHidden'
  BY <1>5 DEF EndReplay, NewSlotHidden, TypeOK, Goto
<1>6. ASSUME NEW t \in Threads, NEW k \in held, BeginDisconnect(t, k)
      PROVE  NewSlotHidden'
  <2>1. \A d \in Clients : pc'[d] = "replaying" => pc[d] = "replaying"
    BY <1>6 DEF BeginDisconnect, Goto, TypeOK
  <2>2. \A u \in Threads : target'[u] = target[u] \/ target'[u] = k
    BY <1>6 DEF BeginDisconnect, TypeOK
  <2> QED
    BY <1>6, <2>1, <2>2 DEF BeginDisconnect, NewSlotHidden
<1>7. ASSUME NEW t \in Threads, FinishDisconnect(t)
      PROVE  NewSlotHidden'
  BY <1>7 DEF FinishDisconnect, NewSlotHidden, TypeOK, Goto
<1>8. ASSUME NEW c \in Clients, Clear(c)
      PROVE  NewSlotHidden'
  BY <1>8 DEF Clear, NewSlotHidden, TypeOK, Goto
<1>9. ASSUME NEW p \in Publishers, PublishState(p)
      PROVE  NewSlotHidden'
  BY <1>9 DEF PublishState, NewSlotHidden, TypeOK, Goto
<1>10. ASSUME NEW p \in Publishers, TakeSnapshot(p)
       PROVE  NewSlotHidden'
  BY <1>10 DEF TakeSnapshot, NewSlotHidden, TypeOK, Goto
<1>11. ASSUME NEW p \in Publishers, NEW k \in pending[p], Invoke(p, k)
       PROVE  NewSlotHidden'
  BY <1>11 DEF Invoke, NewSlotHidden, TypeOK, Goto
<1>12. ASSUME NEW p \in Publishers, CallbackReturns(p)
       PROVE  NewSlotHidden'
  BY <1>12 DEF CallbackReturns, NewSlotHidden, TypeOK, Goto
<1>13. ASSUME NEW p \in Publishers, EndEmit(p)
       PROVE  NewSlotHidden'
  BY <1>13 DEF EndEmit, NewSlotHidden, TypeOK, Goto
<1>14. CASE UNCHANGED vars
  BY <1>14 DEF vars, NewSlotHidden, TypeOK, Goto
<1> QED
  BY <1>1, <1>2, <1>3, <1>4, <1>5, <1>6, <1>7, <1>8, <1>9,
     <1>10, <1>11, <1>12, <1>13, <1>14
     DEF Next, ClientStep, PublisherStep

\* A token that was never handed out has heard nothing.
LEMMA FreshStep ==
    ASSUME TypeOK, NewSlotHidden, MutexHeld, FreshTokens, [Next]_vars
    PROVE  FreshTokens'
<1>1. ASSUME NEW c \in Clients, Connect(c)
      PROVE  FreshTokens'
  BY <1>1 DEF Connect, FreshTokens, TypeOK
<1>2. ASSUME NEW c \in Clients, ReadLatest(c)
      PROVE  FreshTokens'
  BY <1>2 DEF ReadLatest, FreshTokens, TypeOK
<1>3. ASSUME NEW c \in Clients, LockAndPush(c)
      PROVE  FreshTokens'
  BY <1>3 DEF LockAndPush, FreshTokens, TypeOK
<1>4. ASSUME NEW c \in Clients, Replay(c)
      PROVE  FreshTokens'
  BY <1>4 DEF Replay, FreshTokens, TypeOK
<1>5. ASSUME NEW c \in Clients, EndReplay(c)
      PROVE  FreshTokens'
  BY <1>5 DEF EndReplay, FreshTokens, TypeOK
<1>6. ASSUME NEW t \in Threads, NEW k \in held, BeginDisconnect(t, k)
      PROVE  FreshTokens'
  BY <1>6 DEF BeginDisconnect, FreshTokens, TypeOK
<1>7. ASSUME NEW t \in Threads, FinishDisconnect(t)
      PROVE  FreshTokens'
  BY <1>7 DEF FinishDisconnect, FreshTokens, TypeOK
<1>8. ASSUME NEW c \in Clients, Clear(c)
      PROVE  FreshTokens'
  BY <1>8 DEF Clear, FreshTokens, TypeOK
<1>9. ASSUME NEW p \in Publishers, PublishState(p)
      PROVE  FreshTokens'
  BY <1>9 DEF PublishState, FreshTokens, TypeOK
<1>10. ASSUME NEW p \in Publishers, TakeSnapshot(p)
       PROVE  FreshTokens'
  BY <1>10 DEF TakeSnapshot, FreshTokens, TypeOK
<1>11. ASSUME NEW p \in Publishers, NEW k \in pending[p], Invoke(p, k)
       PROVE  FreshTokens'
  <2>1. k \in 1 .. next
    BY DEF TypeOK
  <2>2. \A j \in Tokens : j > next => heard'[j] = heard[j]
    BY <1>11, <2>1 DEF Invoke, TypeOK
  <2> QED
    BY <1>11, <2>2 DEF Invoke, FreshTokens
<1>12. ASSUME NEW p \in Publishers, CallbackReturns(p)
       PROVE  FreshTokens'
  BY <1>12 DEF CallbackReturns, FreshTokens, TypeOK
<1>13. ASSUME NEW p \in Publishers, EndEmit(p)
       PROVE  FreshTokens'
  BY <1>13 DEF EndEmit, FreshTokens, TypeOK
<1>14. CASE UNCHANGED vars
  BY <1>14 DEF vars, FreshTokens, TypeOK
<1> QED
  BY <1>1, <1>2, <1>3, <1>4, <1>5, <1>6, <1>7, <1>8, <1>9,
     <1>10, <1>11, <1>12, <1>13, <1>14
     DEF Next, ClientStep, PublisherStep

\* No two publishers emit the same value, and none emits an unpublished one.
LEMMA PayloadStep ==
    ASSUME TypeOK, BackPlaces, PayloadsDistinct, [Next]_vars
    PROVE  PayloadsDistinct'
<1>1. ASSUME NEW c \in Clients, Connect(c)
      PROVE  PayloadsDistinct'
  BY <1>1 DEF Connect, PayloadsDistinct, TypeOK, Goto, PublisherPlaces, ClientPlaces
<1>2. ASSUME NEW c \in Clients, ReadLatest(c)
      PROVE  PayloadsDistinct'
  BY <1>2 DEF ReadLatest, PayloadsDistinct, TypeOK, Goto, PublisherPlaces, ClientPlaces
<1>3. ASSUME NEW c \in Clients, LockAndPush(c)
      PROVE  PayloadsDistinct'
  BY <1>3 DEF LockAndPush, PayloadsDistinct, TypeOK, Goto, PublisherPlaces, ClientPlaces
<1>4. ASSUME NEW c \in Clients, Replay(c)
      PROVE  PayloadsDistinct'
  BY <1>4 DEF Replay, PayloadsDistinct, TypeOK, Goto, PublisherPlaces, ClientPlaces
<1>5. ASSUME NEW c \in Clients, EndReplay(c)
      PROVE  PayloadsDistinct'
  BY <1>5 DEF EndReplay, PayloadsDistinct, TypeOK, Goto, PublisherPlaces, ClientPlaces
<1>6. ASSUME NEW t \in Threads, NEW k \in held, BeginDisconnect(t, k)
      PROVE  PayloadsDistinct'
  BY <1>6 DEF BeginDisconnect, PayloadsDistinct, TypeOK, Goto, PublisherPlaces, ClientPlaces
<1>7. ASSUME NEW t \in Threads, FinishDisconnect(t)
      PROVE  PayloadsDistinct'
  BY <1>7 DEF FinishDisconnect, PayloadsDistinct, TypeOK, Goto, PublisherPlaces, ClientPlaces
<1>8. ASSUME NEW c \in Clients, Clear(c)
      PROVE  PayloadsDistinct'
  BY <1>8 DEF Clear, PayloadsDistinct, TypeOK, Goto, PublisherPlaces, ClientPlaces
<1>9. ASSUME NEW p \in Publishers, PublishState(p)
      PROVE  PayloadsDistinct'
  BY <1>9 DEF PublishState, PayloadsDistinct, TypeOK, Goto, PublisherPlaces, ClientPlaces
<1>10. ASSUME NEW p \in Publishers, TakeSnapshot(p)
       PROVE  PayloadsDistinct'
  BY <1>10 DEF TakeSnapshot, PayloadsDistinct, TypeOK, Goto, PublisherPlaces, ClientPlaces
<1>11. ASSUME NEW p \in Publishers, NEW k \in pending[p], Invoke(p, k)
       PROVE  PayloadsDistinct'
  BY <1>11 DEF Invoke, PayloadsDistinct, TypeOK, Goto, PublisherPlaces, ClientPlaces
<1>12. ASSUME NEW p \in Publishers, CallbackReturns(p)
       PROVE  PayloadsDistinct'
  BY <1>12 DEF CallbackReturns, PayloadsDistinct, TypeOK, Goto, PublisherPlaces, ClientPlaces
<1>13. ASSUME NEW p \in Publishers, EndEmit(p)
       PROVE  PayloadsDistinct'
  BY <1>13 DEF EndEmit, PayloadsDistinct, TypeOK, Goto, PublisherPlaces, ClientPlaces
<1>14. CASE UNCHANGED vars
  BY <1>14 DEF vars, PayloadsDistinct, TypeOK, Goto, PublisherPlaces, ClientPlaces
<1> QED
  BY <1>1, <1>2, <1>3, <1>4, <1>5, <1>6, <1>7, <1>8, <1>9,
     <1>10, <1>11, <1>12, <1>13, <1>14
     DEF Next, ClientStep, PublisherStep

-----------------------------------------------------------------------------
(* What slots have heard.                                               *)

\* One more value at the end of what a slot has heard.
LEMMA AppendCases ==
    ASSUME NEW h \in Seq(Heard), NEW x \in Heard
    PROVE  \A i \in DOMAIN Append(h, x) :
              \/ (i \in DOMAIN h /\ Append(h, x)[i] = h[i])
              \/ (i = Len(h) + 1 /\ Append(h, x)[i] = x)
<1>1. /\ Len(h) \in Nat /\ DOMAIN h = 1 .. Len(h) /\ DOMAIN Append(h, x) = 1 .. (Len(h) + 1)
      /\ \A i \in DOMAIN h : Append(h, x)[i] = h[i]
      /\ Append(h, x)[Len(h) + 1] = x
  BY HeardAppend
<1> TAKE i \in DOMAIN Append(h, x)
<1>2. i \in 1 .. Len(h) \/ i = Len(h) + 1
  BY <1>1
<1>3. CASE i \in 1 .. Len(h)
  <2>1. i \in DOMAIN h /\ Append(h, x)[i] = h[i]
    BY <1>1, <1>3
  <2> QED
    BY <2>1
<1>4. CASE i = Len(h) + 1
  <2>1. Append(h, x)[i] = x
    BY <1>1, <1>4, Zenon
  <2> QED
    BY <2>1, <1>4
<1> QED
  BY <1>2, <1>3, <1>4

\* Only an emission of v adds to the emissions of v.
LEMMA EmissionsAppend ==
    ASSUME NEW h \in Seq(Heard), NEW x \in Heard, NEW v
    PROVE  /\ x = <<"emit", v>> => Emissions(Append(h, x), v) = Emissions(h, v) \cup {Len(h) + 1}
           /\ x # <<"emit", v>> => Emissions(Append(h, x), v) = Emissions(h, v)
<1>1. /\ DOMAIN h \subseteq DOMAIN Append(h, x)
      /\ Len(h) + 1 \in DOMAIN Append(h, x) /\ Len(h) + 1 \notin DOMAIN h
      /\ Append(h, x)[Len(h) + 1] = x
      /\ \A i \in DOMAIN h : Append(h, x)[i] = h[i]
  BY HeardAppend
<1>2. \A i \in DOMAIN Append(h, x) : i \in DOMAIN h \/ i = Len(h) + 1
  BY AppendCases
<1> QED
  BY <1>1, <1>2 DEF Emissions

\* Which steps change what a slot has heard, and how.
LEMMA HeardReplay ==
    ASSUME TypeOK, MutexHeld, NewSlotHidden, NEW c \in Clients, Replay(c)
    PROVE  /\ next \in Tokens /\ heard[next] = <<>>
           /\ heard'[next] = Append(<<>>, <<"replay", arg[c]>>) /\ <<"replay", arg[c]>> \in Heard
           /\ DOMAIN heard'[next] = {1} /\ heard'[next][1] = <<"replay", arg[c]>>
           /\ \A j \in Tokens : j # next => heard'[j] = heard[j]
<1>1. mu = c /\ mu # Nobody /\ pc[c] = "replaying"
  BY DEF Replay, MutexHeld, InReplay
<1>2. next \in Tokens /\ heard[next] = <<>>
  BY <1>1 DEF NewSlotHidden, TypeOK
<1>3. heard' = [heard EXCEPT ![next] = Append(heard[next], <<"replay", arg[c]>>)]
  BY DEF Replay
<1>4. <<"replay", arg[c]>> \in Heard
  BY DEF Heard, TypeOK
<1>5. <<>> \in Seq(Heard) /\ Len(<<>>) = 0
  OBVIOUS
<1>6. /\ DOMAIN Append(<<>>, <<"replay", arg[c]>>) = 1 .. 1
      /\ Append(<<>>, <<"replay", arg[c]>>)[1] = <<"replay", arg[c]>>
  BY <1>4, <1>5, HeardAppend
<1>7. 1 .. 1 = {1}
  OBVIOUS
<1>8. heard'[next] = Append(<<>>, <<"replay", arg[c]>>)
  BY <1>2, <1>3 DEF TypeOK
<1>9. \A j \in Tokens : j # next => heard'[j] = heard[j]
  BY <1>3 DEF TypeOK
<1> QED
  BY <1>2, <1>4, <1>6, <1>7, <1>8, <1>9

\* An invocation appends the payload to what its slot has heard, and to nothing else.
LEMMA HeardInvoke ==
    ASSUME TypeOK, NEW p \in Publishers, NEW k \in pending[p], Invoke(p, k)
    PROVE  /\ k \in Tokens /\ k <= next
           /\ heard[k] \in Seq(Heard) /\ <<"emit", payload[p]>> \in Heard
           /\ heard'[k] = Append(heard[k], <<"emit", payload[p]>>)
           /\ \A j \in Tokens : j # k => heard'[j] = heard[j]
<1>1. k \in 1 .. next /\ k \in Tokens
  BY DEF TypeOK
<1>2. heard' = [heard EXCEPT ![k] = Append(heard[k], <<"emit", payload[p]>>)]
  BY DEF Invoke
<1>3. <<"emit", payload[p]>> \in Heard
  BY DEF Heard, TypeOK
<1> QED
  BY <1>1, <1>2, <1>3 DEF TypeOK

\* No slot hears a value before it is published.
LEMMA PublishedStep ==
    ASSUME TypeOK, MutexHeld, NewSlotHidden, PayloadsDistinct, EmittedWasPublished, [Next]_vars
    PROVE  EmittedWasPublished'
<1>1. ASSUME NEW c \in Clients, Connect(c)
      PROVE  EmittedWasPublished'
  BY <1>1 DEF Connect, EmittedWasPublished, TypeOK
<1>2. ASSUME NEW c \in Clients, ReadLatest(c)
      PROVE  EmittedWasPublished'
  BY <1>2 DEF ReadLatest, EmittedWasPublished, TypeOK
<1>3. ASSUME NEW c \in Clients, LockAndPush(c)
      PROVE  EmittedWasPublished'
  BY <1>3 DEF LockAndPush, EmittedWasPublished, TypeOK
<1>4. ASSUME NEW c \in Clients, Replay(c)
      PROVE  EmittedWasPublished'
  <2>1. current' = current
    BY <1>4 DEF Replay
  <2>2. \A i \in DOMAIN heard'[next] : heard'[next][i] = <<"replay", arg[c]>>
    BY <1>4, HeardReplay
  <2>3. "replay" # "emit"
    OBVIOUS
  <2>4. \A i \in DOMAIN heard'[next] : heard'[next][i][1] # "emit"
    BY <2>2, <2>3
  <2> QED
    BY <1>4, <2>1, <2>4, HeardReplay DEF EmittedWasPublished
<1>5. ASSUME NEW c \in Clients, EndReplay(c)
      PROVE  EmittedWasPublished'
  BY <1>5 DEF EndReplay, EmittedWasPublished, TypeOK
<1>6. ASSUME NEW t \in Threads, NEW k \in held, BeginDisconnect(t, k)
      PROVE  EmittedWasPublished'
  BY <1>6 DEF BeginDisconnect, EmittedWasPublished, TypeOK
<1>7. ASSUME NEW t \in Threads, FinishDisconnect(t)
      PROVE  EmittedWasPublished'
  BY <1>7 DEF FinishDisconnect, EmittedWasPublished, TypeOK
<1>8. ASSUME NEW c \in Clients, Clear(c)
      PROVE  EmittedWasPublished'
  BY <1>8 DEF Clear, EmittedWasPublished, TypeOK
<1>9. ASSUME NEW p \in Publishers, PublishState(p)
      PROVE  EmittedWasPublished'
  <2>1. current \in Nat /\ current' = current + 1 /\ heard' = heard
    BY <1>9 DEF PublishState, TypeOK
  <2>2. \A k \in Tokens : \A i \in DOMAIN heard[k] : heard[k][i] \in Heard
    BY ElementOfSeq, HeardAppend DEF TypeOK
  <2>3. \A k \in Tokens : \A i \in DOMAIN heard[k] : heard[k][i][2] \in Nat
    BY <2>2 DEF Heard
  <2> QED
    BY <2>1, <2>3 DEF EmittedWasPublished
<1>10. ASSUME NEW p \in Publishers, TakeSnapshot(p)
       PROVE  EmittedWasPublished'
  BY <1>10 DEF TakeSnapshot, EmittedWasPublished, TypeOK
<1>11. ASSUME NEW p \in Publishers, NEW k \in pending[p], Invoke(p, k)
       PROVE  EmittedWasPublished'
  <2>1. current' = current /\ payload[p] <= current
    BY <1>11 DEF Invoke, PayloadsDistinct
  <2>2. \A i \in DOMAIN heard'[k] : \/ i \in DOMAIN heard[k] /\ heard'[k][i] = heard[k][i]
                                   \/ heard'[k][i] = <<"emit", payload[p]>>
    <3>1. /\ heard[k] \in Seq(Heard) /\ <<"emit", payload[p]>> \in Heard
          /\ heard'[k] = Append(heard[k], <<"emit", payload[p]>>)
      BY <1>11, HeardInvoke
    <3> QED
      BY <3>1, AppendCases
  <2>3. k \in Tokens /\ \A j \in Tokens : j # k => heard'[j] = heard[j]
    BY <1>11, HeardInvoke
  <2>4. \A i \in DOMAIN heard'[k] : heard'[k][i][1] = "emit" => heard'[k][i][2] <= current
    BY <2>1, <2>2, <2>3 DEF EmittedWasPublished
  <2> QED
    BY <2>1, <2>3, <2>4 DEF EmittedWasPublished
<1>12. ASSUME NEW p \in Publishers, CallbackReturns(p)
       PROVE  EmittedWasPublished'
  BY <1>12 DEF CallbackReturns, EmittedWasPublished, TypeOK
<1>13. ASSUME NEW p \in Publishers, EndEmit(p)
       PROVE  EmittedWasPublished'
  BY <1>13 DEF EndEmit, EmittedWasPublished, TypeOK
<1>14. CASE UNCHANGED vars
  BY <1>14 DEF vars, EmittedWasPublished, TypeOK
<1> QED
  BY <1>1, <1>2, <1>3, <1>4, <1>5, <1>6, <1>7, <1>8, <1>9,
     <1>10, <1>11, <1>12, <1>13, <1>14
     DEF Next, ClientStep, PublisherStep

\* A replay is heard before anything else: the slot is hidden until then.
LEMMA ReplayFirstStep ==
    ASSUME TypeOK, MutexHeld, NewSlotHidden, FreshTokens, ReplayComesFirst, [Next]_vars
    PROVE  ReplayComesFirst'
<1>1. ASSUME NEW c \in Clients, Connect(c)
      PROVE  ReplayComesFirst'
  <2>1. next + 1 \in Tokens /\ heard[next + 1] = <<>> /\ next' = next + 1 /\ heard' = heard
    BY <1>1, RoomLeft DEF Connect, FreshTokens, TypeOK
  <2>2. \A k \in 1 .. next' : k \in 1 .. next \/ k = next + 1
    BY <2>1 DEF TypeOK
  <2> QED
    BY <2>1, <2>2 DEF ReplayComesFirst
<1>2. ASSUME NEW c \in Clients, ReadLatest(c)
      PROVE  ReplayComesFirst'
  BY <1>2 DEF ReadLatest, ReplayComesFirst
<1>3. ASSUME NEW c \in Clients, LockAndPush(c)
      PROVE  ReplayComesFirst'
  <2>1. next + 1 \in Tokens /\ heard[next + 1] = <<>> /\ next' = next + 1 /\ heard' = heard
    BY <1>3, RoomLeft DEF LockAndPush, FreshTokens, TypeOK
  <2>2. \A k \in 1 .. next' : k \in 1 .. next \/ k = next + 1
    BY <2>1 DEF TypeOK
  <2> QED
    BY <2>1, <2>2 DEF ReplayComesFirst
<1>4. ASSUME NEW c \in Clients, Replay(c)
      PROVE  ReplayComesFirst'
  <2>1. next' = next /\ \A i \in DOMAIN heard'[next] : i = 1
    BY <1>4, HeardReplay DEF Replay
  <2>2. \A k \in 1 .. next : k \in Tokens
    BY DEF TypeOK
  <2> QED
    BY <1>4, <2>1, <2>2, HeardReplay DEF ReplayComesFirst
<1>5. ASSUME NEW c \in Clients, EndReplay(c)
      PROVE  ReplayComesFirst'
  BY <1>5 DEF EndReplay, ReplayComesFirst
<1>6. ASSUME NEW t \in Threads, NEW k \in held, BeginDisconnect(t, k)
      PROVE  ReplayComesFirst'
  BY <1>6 DEF BeginDisconnect, ReplayComesFirst
<1>7. ASSUME NEW t \in Threads, FinishDisconnect(t)
      PROVE  ReplayComesFirst'
  BY <1>7 DEF FinishDisconnect, ReplayComesFirst
<1>8. ASSUME NEW c \in Clients, Clear(c)
      PROVE  ReplayComesFirst'
  BY <1>8 DEF Clear, ReplayComesFirst
<1>9. ASSUME NEW p \in Publishers, PublishState(p)
      PROVE  ReplayComesFirst'
  BY <1>9 DEF PublishState, ReplayComesFirst
<1>10. ASSUME NEW p \in Publishers, TakeSnapshot(p)
       PROVE  ReplayComesFirst'
  BY <1>10 DEF TakeSnapshot, ReplayComesFirst
<1>11. ASSUME NEW p \in Publishers, NEW k \in pending[p], Invoke(p, k)
       PROVE  ReplayComesFirst'
  <2>1. \A i \in DOMAIN heard'[k] : \/ i \in DOMAIN heard[k] /\ heard'[k][i] = heard[k][i]
                                   \/ heard'[k][i] = <<"emit", payload[p]>>
    <3>1. /\ heard[k] \in Seq(Heard) /\ <<"emit", payload[p]>> \in Heard
          /\ heard'[k] = Append(heard[k], <<"emit", payload[p]>>)
      BY <1>11, HeardInvoke
    <3> QED
      BY <3>1, AppendCases
  <2>2. k \in 1 .. next /\ next' = next /\ \A j \in 1 .. next : j \in Tokens
    BY <1>11 DEF Invoke, TypeOK
  <2>3. k \in Tokens /\ \A j \in Tokens : j # k => heard'[j] = heard[j]
    BY <1>11, HeardInvoke
  <2>4. \A i \in DOMAIN heard'[k] : heard'[k][i][1] = "replay" => i = 1
    BY <2>1, <2>2 DEF ReplayComesFirst
  <2> QED
    BY <2>2, <2>3, <2>4 DEF ReplayComesFirst
<1>12. ASSUME NEW p \in Publishers, CallbackReturns(p)
       PROVE  ReplayComesFirst'
  BY <1>12 DEF CallbackReturns, ReplayComesFirst
<1>13. ASSUME NEW p \in Publishers, EndEmit(p)
       PROVE  ReplayComesFirst'
  BY <1>13 DEF EndEmit, ReplayComesFirst
<1>14. CASE UNCHANGED vars
  BY <1>14 DEF vars, ReplayComesFirst
<1> QED
  BY <1>1, <1>2, <1>3, <1>4, <1>5, <1>6, <1>7, <1>8, <1>9,
     <1>10, <1>11, <1>12, <1>13, <1>14
     DEF Next, ClientStep, PublisherStep

\* A publisher crosses a slot off exactly when it invokes it, and disconnecting
\* other slots changes neither.
LEMMA CrossedOffStep ==
    ASSUME TypeOK, MutexHeld, BackPlaces, NewSlotHidden, HeldConnected, PayloadsDistinct,
           EmittedWasPublished, CrossedOff, [Next]_vars
    PROVE  CrossedOff'
<1>1. ASSUME NEW c \in Clients, Connect(c)
      PROVE  CrossedOff'
  <2>1. /\ UNCHANGED <<heard, payload, pending, stays>>
        /\ \A p \in Publishers : pc'[p] = pc[p]
    BY <1>1 DEF Connect, Goto, TypeOK
  <2> QED
    BY <2>1 DEF CrossedOff
<1>2. ASSUME NEW c \in Clients, ReadLatest(c)
      PROVE  CrossedOff'
  <2>1. /\ UNCHANGED <<heard, payload, pending, stays>>
        /\ \A p \in Publishers : pc'[p] = pc[p]
    BY <1>2 DEF ReadLatest, Goto, TypeOK
  <2> QED
    BY <2>1 DEF CrossedOff
<1>3. ASSUME NEW c \in Clients, LockAndPush(c)
      PROVE  CrossedOff'
  <2>1. /\ UNCHANGED <<heard, payload, pending, stays>>
        /\ \A p \in Publishers : pc'[p] = pc[p]
    BY <1>3 DEF LockAndPush, Goto, TypeOK
  <2> QED
    BY <2>1 DEF CrossedOff
<1>4. ASSUME NEW c \in Clients, Replay(c)
      PROVE  CrossedOff'
  <2>1. /\ UNCHANGED <<payload, pending, stays>>
        /\ \A p \in Publishers : pc'[p] = pc[p]
    BY <1>4 DEF Replay, Goto, TypeOK
  <2>2. \A v : Emissions(heard'[next], v) = Emissions(heard[next], v)
    <3>1. /\ heard[next] = <<>> /\ <<"replay", arg[c]>> \in Heard
          /\ heard'[next] = Append(<<>>, <<"replay", arg[c]>>)
      BY <1>4, HeardReplay
    <3>2. <<>> \in Seq(Heard)
      OBVIOUS
    <3>3. \A v : <<"replay", arg[c]>> # <<"emit", v>>
      OBVIOUS
    <3>4. \A v : Emissions(Append(<<>>, <<"replay", arg[c]>>), v) = Emissions(<<>>, v)
      BY <3>1, <3>2, <3>3, EmissionsAppend
    <3> QED
      BY <3>1, <3>4
  <2>3. \A k \in Tokens : \A v : Emissions(heard'[k], v) = Emissions(heard[k], v)
    BY <1>4, <2>2, HeardReplay
  <2>4. \A p \in Publishers : \A k \in stays[p] : k \in Tokens
    BY DEF TypeOK
  <2> QED
    BY <2>1, <2>3, <2>4 DEF CrossedOff
<1>5. ASSUME NEW c \in Clients, EndReplay(c)
      PROVE  CrossedOff'
  <2>1. /\ UNCHANGED <<heard, payload, pending, stays>>
        /\ \A p \in Publishers : pc'[p] = pc[p]
    BY <1>5 DEF EndReplay, Goto, TypeOK
  <2> QED
    BY <2>1 DEF CrossedOff
<1>6. ASSUME NEW t \in Threads, NEW k \in held, BeginDisconnect(t, k)
      PROVE  CrossedOff'
  <2>1. /\ UNCHANGED <<heard, payload, pending>>
        /\ pc' = [pc EXCEPT ![t] = "disconnecting"] /\ pc[t] \in {"idle", "callback", "replayed"}
        /\ pc[t] = "idle" => t \in Clients
        /\ \A p \in Publishers : stays'[p] \subseteq stays[p]
    BY <1>6 DEF BeginDisconnect, Goto, TypeOK
  <2>2. \A p \in Publishers : pc'[p] = pc[p] \/ (pc[p] = "callback" /\ pc'[p] = "disconnecting")
    <3>1. \A p \in Publishers : p # t => pc'[p] = pc[p]
      BY <2>1 DEF TypeOK
    <3>2. t \in Publishers => pc[t] = "callback" /\ pc'[t] = "disconnecting"
      BY <2>1 DEF TypeOK, PublisherPlaces
    <3> QED
      BY <3>1, <3>2, Zenon
  <2> QED
    BY <2>1, <2>2 DEF CrossedOff
<1>7. ASSUME NEW t \in Threads, FinishDisconnect(t)
      PROVE  CrossedOff'
  <2>1. /\ UNCHANGED <<heard, payload, pending, stays>>
        /\ pc' = [pc EXCEPT ![t] = back[t]] /\ pc[t] = "disconnecting"
    BY <1>7 DEF FinishDisconnect, Goto
  <2>2. \A p \in Publishers : pc'[p] = pc[p] \/ (pc[p] = "disconnecting" /\ pc'[p] = "callback")
    <3>1. \A p \in Publishers : p # t => pc'[p] = pc[p]
      BY <2>1 DEF TypeOK
    <3>2. t \in Publishers => back[t] = "callback" /\ pc'[t] = "callback"
      BY <2>1 DEF TypeOK, BackPlaces
    <3> QED
      BY <2>1, <3>1, <3>2, Zenon
  <2> QED
    BY <2>1, <2>2 DEF CrossedOff
<1>8. ASSUME NEW c \in Clients, Clear(c)
      PROVE  CrossedOff'
  <2>1. UNCHANGED <<heard, payload, pending, pc>> /\ \A p \in Publishers : stays'[p] = {}
    BY <1>8 DEF Clear
  <2> QED
    BY <2>1 DEF CrossedOff
<1>9. ASSUME NEW p \in Publishers, PublishState(p)
      PROVE  CrossedOff'
  <2>1. /\ UNCHANGED <<heard, pending, stays>>
        /\ pc'[p] = "emitting" /\ payload'[p] = current + 1 /\ current \in Nat
        /\ \A q \in Publishers : q # p => pc'[q] = pc[q] /\ payload'[q] = payload[q]
    BY <1>9 DEF PublishState, Goto, TypeOK
  <2>2. ASSUME NEW k \in Tokens
        PROVE  Emissions(heard[k], current + 1) = {}
    <3>1. \A i \in DOMAIN heard[k] : heard[k][i] # <<"emit", current + 1>>
      BY <2>1, <2>2 DEF EmittedWasPublished
    <3> QED
      BY <3>1 DEF Emissions
  <2> QED
    BY <2>1, <2>2 DEF CrossedOff
<1>10. ASSUME NEW p \in Publishers, TakeSnapshot(p)
       PROVE  CrossedOff'
  <2>1. /\ UNCHANGED <<heard, payload>> /\ pc[p] = "emitting" /\ pc'[p] = "invoking"
        /\ stays'[p] = held /\ pending'[p] = slots
        /\ \A q \in Publishers : q # p => /\ pc'[q] = pc[q] /\ stays'[q] = stays[q]
                                         /\ pending'[q] = pending[q]
    BY <1>10 DEF TakeSnapshot, Goto, TypeOK
  <2>2. \A k \in held : k \in slots /\ k \in Tokens
    BY DEF HeldConnected, TypeOK
  <2> QED
    BY <2>1, <2>2 DEF CrossedOff
<1>11. ASSUME NEW p \in Publishers, NEW k \in pending[p], Invoke(p, k)
       PROVE  CrossedOff'
  <2>1. /\ UNCHANGED <<payload, stays>> /\ pc[p] = "invoking" /\ pc'[p] = "callback"
        /\ pending'[p] = pending[p] \ {k}
        /\ \A q \in Publishers : q # p => pc'[q] = pc[q] /\ pending'[q] = pending[q]
    BY <1>11 DEF Invoke, Goto, TypeOK
  <2>2. \A q \in Publishers : \A j \in stays[q] : j \in Tokens
    BY DEF TypeOK
  <2>3. /\ k \in Tokens /\ heard[k] \in Seq(Heard) /\ <<"emit", payload[p]>> \in Heard
        /\ heard'[k] = Append(heard[k], <<"emit", payload[p]>>)
        /\ \A j \in Tokens : j # k => heard'[j] = heard[j]
    BY <1>11, HeardInvoke
  <2>4. \A v : v # payload[p] => Emissions(heard'[k], v) = Emissions(heard[k], v)
    <3>1. \A v : v # payload[p] => <<"emit", payload[p]>> # <<"emit", v>>
      OBVIOUS
    <3>2. \A v : v # payload[p] =>
            Emissions(Append(heard[k], <<"emit", payload[p]>>), v) = Emissions(heard[k], v)
      BY <2>3, <3>1, EmissionsAppend
    <3> QED
      BY <2>3, <3>2
  <2>5. ASSUME k \in stays[p]
        PROVE  Cardinality(Emissions(heard'[k], payload[p])) = 1
    <3>1. Emissions(heard[k], payload[p]) = {}
      BY <2>1, <2>5 DEF CrossedOff
    <3>2. Emissions(heard'[k], payload[p]) = {} \cup {Len(heard[k]) + 1}
      BY <2>3, <3>1, EmissionsAppend
    <3> QED
      BY <3>2, FS_Singleton
  <2>6. ASSUME NEW q \in Publishers, q # p, pc[q] # "idle"
        PROVE  \A j \in Tokens : Emissions(heard'[j], payload[q]) = Emissions(heard[j], payload[q])
    <3>1. payload[q] # payload[p]
      BY <2>1, <2>6 DEF PayloadsDistinct
    <3> QED
      BY <2>3, <2>4, <3>1
  <2>7. \A j \in stays[p] : IF j \in pending'[p] THEN Emissions(heard'[j], payload[p]) = {}
                           ELSE Cardinality(Emissions(heard'[j], payload[p])) = 1
    <3>1. \A j \in stays[p] : j # k =>
                heard'[j] = heard[j] /\ (j \in pending'[p] <=> j \in pending[p])
      BY <2>1, <2>2, <2>3
    <3> QED
      BY <2>1, <2>5, <3>1 DEF CrossedOff
  <2>8. ASSUME NEW q \in Publishers, q # p, pc[q] # "idle"
        PROVE  /\ pc'[q] = pc[q] /\ pending'[q] = pending[q] /\ stays'[q] = stays[q]
               /\ payload'[q] = payload[q]
    BY <2>1, <2>8
  <2>9. ASSUME NEW q \in Publishers
        PROVE  /\ pc'[q] = "emitting" => \A j \in Tokens : Emissions(heard'[j], payload'[q]) = {}
               /\ pc'[q] \in {"invoking", "callback", "disconnecting"} =>
                    \A j \in stays'[q] :
                        IF j \in pending'[q] THEN Emissions(heard'[j], payload'[q]) = {}
                        ELSE Cardinality(Emissions(heard'[j], payload'[q])) = 1
    <3>1. CASE q = p
      BY <2>1, <2>7, <3>1
    <3>2. CASE q # p /\ pc[q] # "idle"
      BY <2>2, <2>6, <2>8, <3>2 DEF CrossedOff
    <3>3. CASE q # p /\ pc[q] = "idle"
      BY <2>1, <3>3
    <3> QED
      BY <3>1, <3>2, <3>3
  <2> QED
    BY <2>9 DEF CrossedOff
<1>12. ASSUME NEW p \in Publishers, CallbackReturns(p)
       PROVE  CrossedOff'
  <2>1. /\ UNCHANGED <<heard, payload, pending, stays>>
        /\ pc' = [pc EXCEPT ![p] = "invoking"] /\ pc[p] = "callback"
    BY <1>12 DEF CallbackReturns, Goto
  <2>2. \A q \in Publishers : pc'[q] = pc[q] \/ (pc[q] = "callback" /\ pc'[q] = "invoking")
    <3>1. \A q \in Publishers : q # p => pc'[q] = pc[q]
      BY <2>1 DEF TypeOK
    <3>2. pc'[p] = "invoking"
      BY <2>1 DEF TypeOK
    <3> QED
      BY <2>1, <3>1, <3>2, Zenon
  <2> QED
    BY <2>1, <2>2 DEF CrossedOff
<1>13. ASSUME NEW p \in Publishers, EndEmit(p)
       PROVE  CrossedOff'
  <2>1. /\ UNCHANGED <<heard, pending>> /\ pc'[p] = "idle"
        /\ \A q \in Publishers : q # p => /\ pc'[q] = pc[q] /\ stays'[q] = stays[q]
                                         /\ payload'[q] = payload[q]
    BY <1>13 DEF EndEmit, Goto, TypeOK
  <2> QED
    BY <2>1 DEF CrossedOff
<1>14. CASE UNCHANGED vars
  BY <1>14 DEF vars, CrossedOff
<1> QED
  BY <1>1, <1>2, <1>3, <1>4, <1>5, <1>6, <1>7, <1>8, <1>9,
     <1>10, <1>11, <1>12, <1>13, <1>14
     DEF Next, ClientStep, PublisherStep

-----------------------------------------------------------------------------
\* The invariant holds of a new signal.
LEMMA IInvInit == Init => IInv
<1>1. Init => TypeOK
  BY TypeInit
<1>2. Init => /\ MutexHeld /\ BackPlaces /\ NewSlotHidden /\ TargetsGone /\ HeldConnected
              /\ FreshTokens /\ PayloadsDistinct /\ EmittedWasPublished /\ CrossedOff
              /\ ReplayComesFirst
  BY DEF Init, MutexHeld, InReplay, BackPlaces, NewSlotHidden, TargetsGone, HeldConnected,
         FreshTokens, PayloadsDistinct, EmittedWasPublished, CrossedOff, ReplayComesFirst
<1> QED
  BY <1>1, <1>2 DEF IInv

\* The invariant holds for every interleaving of publishers and clients.
THEOREM SignalInductive == Spec => []IInv
<1>1. IInv /\ [Next]_vars => IInv'
  BY TypeStep, ControlStep, TargetStep, HiddenStep, FreshStep, PayloadStep, PublishedStep,
     ReplayFirstStep, CrossedOffStep DEF IInv
<1> QED
  BY IInvInit, <1>1, PTL DEF Spec

\* Every variable keeps its type.
THEOREM SignalTypeCorrect == Spec => []TypeOK
<1>1. IInv => TypeOK
  BY DEF IInv
<1> QED
  BY SignalInductive, <1>1, PTL

\* A slot connected with replay never hears an emission before its replay.
THEOREM ReplayIsFirst == Spec => []ReplayComesFirst
<1>1. IInv => ReplayComesFirst
  BY DEF IInv
<1> QED
  BY SignalInductive, <1>1, PTL

\* Whatever is connected or disconnected during an emission, a slot that
\* stays is invoked exactly once with the emitted state.
THEOREM DeliveryIsStable == Spec => []StableDelivery
<1>1. ASSUME IInv, NEW p \in Publishers, pc[p] = "invoking", pending[p] = {},
             NEW k \in stays[p]
      PROVE  Cardinality(Emissions(heard[k], payload[p])) = 1
  BY <1>1 DEF IInv, CrossedOff
<1>2. IInv => StableDelivery
  BY <1>1 DEF StableDelivery
<1> QED
  BY SignalInductive, <1>2, PTL

\* Nobody waits for a mutex whose holder waits for somebody else: the holder is
\* inside a replay, and the only mutex it can wait for there is its own.
THEOREM HolderWaitsForNobody == Spec => []HolderRuns
<1>1. IInv => HolderRuns
  <2> SUFFICES ASSUME IInv, mu # Nobody
               PROVE  pc[mu] \in {"replaying", "replayed"} \/ BlocksItself(mu)
    BY DEF HolderRuns
  <2>1. mu \in Clients /\ InReplay(mu)
    BY DEF IInv, TypeOK, MutexHeld
  <2> QED
    BY <2>1 DEF InReplay, BlocksItself
<1> QED
  BY <1>1, SignalInductive, PTL
=============================================================================
