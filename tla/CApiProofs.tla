------------------------------ MODULE CApiProofs ------------------------------
(***************************************************************************)
(* Theorems about the callbacks of the C API: for any threads, signals and *)
(* number of registrations, with callbacks that call the API.              *)
(***************************************************************************)
EXTENDS CApi, TLAPS

USE CApiAssumption

-----------------------------------------------------------------------------
(* The inductive invariant.                                                *)

Undo == {"remove", "disc", "pop"}
Freeing == \E t \in Threads : pc[t] = "free"
Mine(t) == {reg[t], replayed[t]}

\* Where a thread is tells whether its call to on_* has connected its slot, and
\* whether it is inside a replay.
CallsNest == \A t \in Threads :
    /\ reg[t] \in Slots <=> pc[t] \in {"reserve", "store"}
    /\ pc[t] = "replay" => replayed[t] # NoSlot
    /\ pc[t] \in {"idle", "slot", "free"} => replayed[t] = NoSlot

\* A handle that is being freed is nobody else's, and one that is freed is empty.
FreesAlone ==
    /\ \A t \in Threads : pc[t] = "free" => conMu = t /\ ~open
    /\ ~open => /\ \A t \in Threads : pc[t] \in {"idle", "free"}
                /\ \A t, u \in Threads : pc[t] = "free" /\ pc[u] = "free" => t = u
                /\ ~Freeing => slots = {} /\ DOMAIN conns = {} /\ held = {}

\* The slots there are or were are not given again.
Spent(slot) == slot[2] <= next[slot[1]]
NeverAgain ==
    /\ \A slot \in slots : Spent(slot)
    /\ \A k \in DOMAIN given : k <= nextToken /\ Spent(given[k])

\* Slots under registration are connected, and each is one thread's.
Registers ==
    /\ \A t \in Threads : \A slot \in Mine(t) \cap Slots :
          /\ slot \in slots
          /\ \A k \in DOMAIN given : given[k] # slot
          /\ \A u \in Threads : slot \in Mine(u) => t = u
    /\ \A t \in Threads : reg[t] \in Slots => reg[t] # replayed[t]
    /\ \A t \in Threads : pc[t] = "store" =>
          /\ ext[t] \in 1 .. nextToken /\ ext[t] \notin DOMAIN given
          /\ \A u \in Threads : pc[u] = "store" /\ ext[t] = ext[u] => t = u

\* What conns disconnects is what the token was given for.
TokensDiffer ==
    /\ \A k \in DOMAIN conns : k \in DOMAIN given /\ conns[k] = given[k]
    /\ \A k, l \in DOMAIN given : given[k] = given[l] => k = l

\* A token that is given back is not held, and serves one thread at most.
Undoes == \A t \in Threads : pc[t] \in Undo =>
    /\ ext[t] \in DOMAIN given \ held
    /\ pc[t] \in {"disc", "pop"} => ext[t] \notin DOMAIN conns
    /\ pc[t] = "disc" => disc[t] = given[ext[t]]

\* Every connected slot can be disconnected: by its token, or by a call that is
\* under way.
HasWay(slot) ==
    \/ \E k \in DOMAIN conns : given[k] = slot
    \/ \E t \in Threads : slot \in Mine(t)
    \/ slot \in Leaving
Served ==
    /\ ~Freeing => \A k \in DOMAIN conns : given[k] \in slots
    /\ \A slot \in slots : HasWay(slot)
    /\ held \subseteq DOMAIN conns
    /\ \A k \in DOMAIN conns \ held : \E t \in Threads : pc[t] = "remove" /\ ext[t] = k

\* Only shims of slots that had a token are let go.
ShimsLast ==
    /\ \A slot \in dead : \E k \in DOMAIN given : given[k] = slot
    /\ SlotsHaveShims

\* The tokens' mutex is held between steps by spotifyctl_free alone, a signal's
\* by the thread that is inside a replay.
Locks ==
    /\ conMu # Nobody => Freeing
    /\ \A s \in Sigs : mu[s] # Nobody => s = ReplaySig
    /\ \A t \in Threads : mu[ReplaySig] = t <=> replayed[t] # NoSlot

Inv == /\ TypeOK /\ CallsNest /\ FreesAlone /\ NeverAgain /\ Registers
       /\ TokensDiffer /\ Undoes /\ Served /\ ShimsLast /\ Locks

-----------------------------------------------------------------------------
(* Lemmas about its operators.                                             *)

LEMMA NoSlotUnused == NoSlot \notin Slots /\ \A s \in Sigs : <<s, NoToken>> \notin Slots
  BY DEF NoSlot, Slots, Tokens, NoToken

LEMMA SlotsAreNumbered == Slots \subseteq Sigs \X Nat /\ NoSlot \in Sigs \X Nat
  BY DEF NoSlot, Slots, Tokens, NoToken

\* The slots that a thread disconnects, thread by thread.
LEMMA LeavingIs ==
    ASSUME NEW slot
    PROVE  slot \in Leaving <=> \E t \in Threads : pc[t] = "disc" /\ disc[t] = slot
  BY DEF Leaving

-----------------------------------------------------------------------------
(* It holds initially, and every step keeps it.                            *)

LEMMA InvInit == Init => Inv
<1> SUFFICES ASSUME Init
             PROVE  Inv
  OBVIOUS
<1>1. TypeOK
  BY SlotsAreNumbered DEF Init, TypeOK, Threads, Places, Slots, Tokens, NoToken
<1>2. \A t \in Threads : reg[t] = NoSlot /\ replayed[t] = NoSlot /\ pc[t] = "idle"
  BY DEF Init
<1>3. CallsNest /\ FreesAlone /\ NeverAgain
  BY <1>2, NoSlotUnused DEF Init, CallsNest, FreesAlone, Freeing, NeverAgain
<1>4. Registers /\ TokensDiffer /\ Undoes
  BY <1>2, NoSlotUnused DEF Init, Registers, Mine, TokensDiffer, Undoes, Undo
<1>5. Served /\ ShimsLast /\ Locks
  BY <1>2 DEF Init, Served, ShimsLast, SlotsHaveShims, Locks
<1> QED
  BY <1>1, <1>3, <1>4, <1>5 DEF Inv

\* A call to on_* begins.
LEMMA InvBeginConnect ==
    ASSUME Inv, NEW t \in Threads, NEW s \in Sigs, BeginConnect(t, s)
    PROVE  Inv'
<1> USE DEF Inv, BeginConnect, Goto, signals, handle
<1>1. /\ open /\ pc[t] \in {"idle", "slot", "replay"} /\ pc'[t] = "connect"
      /\ reg'[t] = <<s, NoToken>> /\ reg[t] \notin Slots /\ reg'[t] \notin Slots
      /\ \A u \in Threads \ {t} : pc'[u] = pc[u] /\ reg'[u] = reg[u]
  BY NoSlotUnused DEF MayCall, Caller, CallsNest, TypeOK
<1>2. TypeOK'
  <2>1. reg' \in [Threads -> Sigs \X Nat] /\ calls' \in 0 .. MaxCalls
    BY DEF TypeOK, NoToken
  <2>2. pc' \in [Threads -> Places]
    BY DEF TypeOK, Places
  <2> QED
    BY <2>1, <2>2 DEF TypeOK
<1>3. CallsNest' /\ FreesAlone'
  BY <1>1 DEF CallsNest, FreesAlone, Freeing
<1>4. NeverAgain' /\ TokensDiffer'
  BY DEF NeverAgain, Spent, TokensDiffer
<1>5. Registers' /\ Undoes'
  BY <1>1 DEF Registers, Mine, Undoes, Undo
<1>6. Leaving' = Leaving
  BY <1>1 DEF Leaving
<1>7. Served'
  <2>1. ASSUME NEW slot \in slots'
        PROVE  HasWay(slot)'
    <3>1. slot \in Slots /\ HasWay(slot)
      BY DEF Served, TypeOK
    <3> QED
      BY <1>1, <1>6, <3>1 DEF HasWay, Mine
  <2> QED
    BY <1>1, <2>1 DEF Served, Freeing
<1>8. ShimsLast' /\ Locks'
  BY <1>1, <1>6 DEF ShimsLast, SlotsHaveShims, Locks, Freeing
<1> QED
  BY <1>2, <1>3, <1>4, <1>5, <1>7, <1>8

\* A call to on_* has connected its slot, and either keeps it or replays to it.
LEMMA InvPush ==
    ASSUME Inv, NEW t \in Threads, Push(t),
           NEW p \in {"reserve", "replay"},
           pc' = [pc EXCEPT ![t] = p],
           \/ /\ p = "reserve" /\ replayed' = replayed /\ mu' = mu
              /\ reg' = [reg EXCEPT ![t] = NewSlot(SigOf(reg[t]))]
           \/ /\ p = "replay" /\ SigOf(reg[t]) = ReplaySig
              /\ mu' = [mu EXCEPT ![ReplaySig] = t]
              /\ replayed' = [replayed EXCEPT ![t] = NewSlot(SigOf(reg[t]))]
              /\ reg' = [reg EXCEPT ![t] = NoSlot],
           UNCHANGED <<handle, dead, ext, disc, application>>
    PROVE  Inv'
<1> DEFINE s == SigOf(reg[t])
           new == NewSlot(s)
<1> USE DEF Inv, handle, application
<1>1. /\ pc[t] = "connect" /\ s \in Sigs /\ reg[t] \notin Slots /\ next[s] \in Nat
      /\ next' = [next EXCEPT ![s] = @ + 1] /\ slots' = slots \cup {new}
  BY DEF Push, CallsNest, TypeOK, SigOf
<1>2. new = <<s, next[s] + 1>> /\ new \in Slots /\ new # NoSlot
  BY <1>1, NoSlotUnused DEF NewSlot, Slots, Tokens
<1>3. /\ new \notin slots
      /\ \A k \in DOMAIN given : given[k] # new
  BY <1>1, <1>2 DEF TypeOK, Slots, Tokens, NeverAgain, Spent
<1>4. \A u \in Threads : new \notin Mine(u)
  BY <1>2, <1>3 DEF Registers
<1>5. open /\ (p = "replay" => \A u \in Threads : replayed[u] = NoSlot)
  <2>1. open
    BY <1>1 DEF FreesAlone
  <2>2. p = "replay" => mu[ReplaySig] = Nobody
    BY DEF Push
  <2> QED
    BY <2>1, <2>2 DEF Locks
<1>6. /\ \/ /\ p = "reserve" /\ replayed'[t] = replayed[t] /\ reg'[t] = new
         \/ /\ p = "replay" /\ replayed[t] = NoSlot /\ replayed'[t] = new /\ reg'[t] = NoSlot
      /\ pc'[t] = p
      /\ \A u \in Threads \ {t} :
            reg'[u] = reg[u] /\ replayed'[u] = replayed[u] /\ pc'[u] = pc[u]
  BY <1>5 DEF TypeOK
<1>7. next' \in [Sigs -> Nat] /\ \A i \in Sigs : next[i] <= next'[i]
  BY <1>1 DEF TypeOK
<1>8. next'[s] = next[s] + 1
  BY <1>1 DEF TypeOK
<1> HIDE DEF new, s
<1>9. TypeOK'
  <2>1. slots' \subseteq Slots /\ new \in Sigs \X Nat
    BY <1>1, <1>2, SlotsAreNumbered DEF TypeOK
  <2>5. mu' \in [Sigs -> Threads \cup {Nobody}]
    BY DEF TypeOK
  <2>2. reg' \in [Threads -> Sigs \X Nat]
    BY <2>1, SlotsAreNumbered DEF TypeOK, new, s
  <2>3. replayed' \in [Threads -> Slots \cup {NoSlot}]
    BY <1>2 DEF TypeOK, new, s
  <2>4. pc' \in [Threads -> Places]
    BY DEF TypeOK, Places
  <2> QED
    BY <1>7, <2>1, <2>2, <2>3, <2>4, <2>5 DEF TypeOK
<1>10. CallsNest'
  BY <1>1, <1>2, <1>6, NoSlotUnused DEF CallsNest
<1>11. FreesAlone'
  BY <1>5, <1>6 DEF FreesAlone, Freeing
<1>12. NeverAgain'
  <2>1. ASSUME NEW slot \in Slots, Spent(slot)
        PROVE  Spent(slot)'
    <3>1. slot[1] \in Sigs /\ slot[2] \in Nat
      BY DEF Slots, Tokens
    <3> QED
      BY <1>7, <2>1, <3>1 DEF Spent, TypeOK
  <2>2. ASSUME NEW slot, slot = new
        PROVE  Spent(slot)'
    BY <1>1, <1>2, <1>8, <2>2 DEF Spent
  <2> QED
    BY <1>1, <2>1, <2>2 DEF NeverAgain, TypeOK
<1>13. Registers'
  <2>1. ASSUME NEW u \in Threads
        PROVE  Mine(u)' \cap Slots \subseteq Mine(u) \cup {new}
    BY <1>6, NoSlotUnused DEF Mine
  <2>2. ASSUME NEW u \in Threads \ {t}
        PROVE  Mine(u)' = Mine(u)
    BY <1>6 DEF Mine
  <2>3. ASSUME NEW u \in Threads, NEW slot \in Mine(u)' \cap Slots
        PROVE  /\ slot \in slots'
               /\ \A k \in DOMAIN given' : given'[k] # slot
               /\ \A v \in Threads : slot \in Mine(v)' => u = v
    <3>1. CASE slot = new
      BY <1>1, <1>3, <1>4, <2>2, <3>1
    <3>2. CASE slot # new
      <4>1. slot \in Mine(u) \cap Slots
        BY <2>1, <3>2
      <4>2. \A v \in Threads : slot \in Mine(v)' => slot \in Mine(v)
        BY <2>1, <3>2
      <4> QED
        BY <1>1, <4>1, <4>2 DEF Registers
    <3> QED
      BY <3>1, <3>2
  <2>4. \A u \in Threads : reg'[u] \in Slots => reg'[u] # replayed'[u]
    BY <1>2, <1>4, <1>6, NoSlotUnused DEF Registers, Mine
  <2>5. \A u \in Threads : pc'[u] = "store" => u # t /\ pc[u] = "store"
    BY <1>6
  <2> QED
    BY <2>3, <2>4, <2>5 DEF Registers
<1>14. TokensDiffer' /\ Undoes'
  BY <1>6 DEF TokensDiffer, Undoes, Undo
<1>15. Leaving' = Leaving
  BY <1>1, <1>6 DEF Leaving
<1>16. Served'
  <2>1. ASSUME NEW slot \in slots'
        PROVE  HasWay(slot)'
    <3>1. CASE slot = new
      BY <1>6, <3>1 DEF HasWay, Mine
    <3>2. CASE slot # new
      <4>1. slot \in Slots /\ HasWay(slot)
        BY <1>1, <3>2 DEF Served, TypeOK
      <4>2. ASSUME NEW u \in Threads, slot \in Mine(u)
            PROVE  slot \in Mine(u)'
        BY <1>1, <1>6, <4>1, <4>2, NoSlotUnused DEF Mine
      <4> QED
        BY <1>15, <4>1, <4>2 DEF HasWay
    <3> QED
      BY <3>1, <3>2
  <2> QED
    BY <1>1, <1>6, <2>1 DEF Served, Freeing
<1>17. ShimsLast'
  BY <1>1, <1>3, <1>15 DEF ShimsLast, SlotsHaveShims
<1>18. Locks'
  <2>1. CASE p = "reserve"
    BY <1>5, <1>6, <2>1 DEF Locks, FreesAlone, Freeing
  <2>2. CASE p = "replay"
    <3>1. mu' = [mu EXCEPT ![ReplaySig] = t]
      BY <2>2
    <3>2. mu'[ReplaySig] = t /\ \A i \in Sigs : mu'[i] # Nobody => i = ReplaySig
      BY <3>1 DEF Locks, TypeOK
    <3>3. \A u \in Threads : replayed'[u] # NoSlot <=> u = t
      BY <1>2, <1>5, <1>6, <2>2
    <3> QED
      BY <1>5, <3>2, <3>3 DEF Locks, FreesAlone, Freeing
  <2> QED
    BY <2>1, <2>2
<1> QED
  BY <1>9, <1>10, <1>11, <1>12, <1>13, <1>14, <1>16, <1>17, <1>18

LEMMA InvConnect ==
    ASSUME Inv, NEW t \in Threads, Connect(t)
    PROVE  Inv'
  BY InvPush DEF Connect, Goto, Inv, TypeOK

LEMMA InvConnectAndReplay ==
    ASSUME Inv, NEW t \in Threads, ConnectAndReplay(t)
    PROVE  Inv'
  BY InvPush DEF ConnectAndReplay, Goto

LEMMA InvEndReplay ==
    ASSUME Inv, NEW t \in Threads, EndReplay(t)
    PROVE  Inv'
<1> USE DEF Inv, EndReplay, Goto, handle, application
<1>1. /\ pc[t] = "replay" /\ replayed[t] \in Slots /\ reg[t] \notin Slots
      /\ pc'[t] = "reserve" /\ reg'[t] = replayed[t] /\ replayed'[t] = NoSlot
      /\ \A u \in Threads \ {t} :
            pc'[u] = pc[u] /\ reg'[u] = reg[u] /\ replayed'[u] = replayed[u]
  BY DEF CallsNest, TypeOK
<1>2. open
  BY <1>1 DEF FreesAlone
<1>3. TypeOK'
  <2>1. reg' \in [Threads -> Sigs \X Nat] /\ replayed' \in [Threads -> Slots \cup {NoSlot}]
    BY <1>1, SlotsAreNumbered DEF TypeOK
  <2>2. pc' \in [Threads -> Places] /\ mu' \in [Sigs -> Threads \cup {Nobody}]
    BY DEF TypeOK, Places
  <2> QED
    BY <2>1, <2>2 DEF TypeOK
<1>4. CallsNest' /\ FreesAlone'
  BY <1>1, <1>2 DEF CallsNest, FreesAlone, Freeing
<1>5. NeverAgain' /\ TokensDiffer'
  BY DEF NeverAgain, Spent, TokensDiffer
<1>6. Registers' /\ Undoes'
  BY <1>1, NoSlotUnused DEF Registers, Mine, Undoes, Undo
<1>7. Leaving' = Leaving
  BY <1>1 DEF Leaving
<1>8. Served'
  <2>1. ASSUME NEW slot \in slots'
        PROVE  HasWay(slot)'
    <3>1. slot \in Slots /\ HasWay(slot)
      BY DEF Served, TypeOK
    <3> QED
      BY <1>1, <1>7, <3>1 DEF HasWay, Mine
  <2> QED
    BY <1>1, <2>1 DEF Served, Freeing
<1>9. ShimsLast'
  BY <1>7 DEF ShimsLast, SlotsHaveShims
<1>10. Locks'
  <2>1. \A u \in Threads : replayed'[u] = NoSlot
    BY <1>1, NoSlotUnused DEF Locks
  <2>2. \A s \in Sigs : mu'[s] = Nobody
    BY DEF Locks, TypeOK
  <2> QED
    BY <1>1, <1>2, <2>1, <2>2 DEF Locks, FreesAlone, Freeing
<1> QED
  BY <1>3, <1>4, <1>5, <1>6, <1>8, <1>9, <1>10

LEMMA InvReserve ==
    ASSUME Inv, NEW t \in Threads, Reserve(t)
    PROVE  Inv'
<1> USE DEF Inv, Reserve, Goto, signals, application
<1>1. /\ pc[t] = "reserve" /\ pc'[t] = "store" /\ ext'[t] = nextToken + 1
      /\ \A u \in Threads \ {t} : pc'[u] = pc[u] /\ ext'[u] = ext[u]
      /\ nextToken \in Nat /\ nextToken' = nextToken + 1
  BY DEF TypeOK
<1>2. TypeOK'
  BY DEF TypeOK, Places
<1>3. CallsNest' /\ FreesAlone'
  BY <1>1 DEF CallsNest, FreesAlone, Freeing
<1>4. NeverAgain'
  BY <1>1 DEF NeverAgain, Spent, TypeOK, Tokens
<1>5. Registers'
  <2>1. \A u \in Threads : Mine(u)' = Mine(u)
    BY DEF Mine
  <2>2. ASSUME NEW u \in Threads, pc'[u] = "store"
        PROVE  /\ ext'[u] \in 1 .. nextToken' /\ ext'[u] \notin DOMAIN given'
               /\ \A v \in Threads : pc'[v] = "store" /\ ext'[u] = ext'[v] => u = v
    BY <1>1, <2>2 DEF Registers, NeverAgain, TypeOK, Tokens
  <2> QED
    BY <2>1, <2>2 DEF Registers
<1>6. TokensDiffer' /\ Undoes'
  BY <1>1 DEF TokensDiffer, Undoes, Undo
<1>7. Leaving' = Leaving
  BY <1>1 DEF Leaving
<1>8. Served' /\ ShimsLast' /\ Locks'
  BY <1>1, <1>7 DEF Served, HasWay, Mine, Freeing, ShimsLast, SlotsHaveShims, Locks
<1> QED
  BY <1>2, <1>3, <1>4, <1>5, <1>6, <1>8

\* Where a call returns to; its thread is inside the same replay as before.
LEMMA ReturnsHome ==
    ASSUME Inv, NEW t \in Threads, Return(t)
    PROVE  /\ pc'[t] \in {"idle", "slot", "replay"} /\ ext'[t] = NoToken
           /\ pc'[t] = "replay" => replayed[t] # NoSlot
           /\ pc'[t] # "replay" => replayed[t] = NoSlot
           /\ \A u \in Threads \ {t} : pc'[u] = pc[u] /\ ext'[u] = ext[u]
           /\ pc' \in [Threads -> Places] /\ ext' \in [Threads -> Nat]
  BY DEF Inv, TypeOK, Return, Goto, Caller, Places, NoToken

LEMMA InvStore ==
    ASSUME Inv, NEW t \in Threads, Store(t)
    PROVE  Inv'
<1> USE DEF Inv, Store, signals
<1> DEFINE k == ext[t]
           slot == reg[t]
<1>1. /\ pc[t] = "store"
      /\ k \in 1 .. nextToken /\ k \in Tokens /\ k \notin DOMAIN given /\ k \notin DOMAIN conns
      /\ slot \in Slots /\ slot \in slots /\ slot # NoSlot /\ slot # replayed[t]
      /\ \A i \in DOMAIN given : given[i] # slot
      /\ \A u \in Threads : slot \in Mine(u) => u = t
  BY NoSlotUnused DEF Registers, Mine, CallsNest, TokensDiffer, TypeOK, Tokens
<1>2. /\ DOMAIN given' = DOMAIN given \cup {k} /\ DOMAIN conns' = DOMAIN conns \cup {k}
      /\ \A i \in DOMAIN given : given'[i] = given[i]
      /\ \A i \in DOMAIN conns : conns'[i] = conns[i]
      /\ given'[k] = slot /\ conns'[k] = slot
  <2>1. given' = With(given, k, slot) /\ conns' = With(conns, k, slot)
    OBVIOUS
  <2> HIDE DEF k, slot
  <2> QED
    BY <1>1, <2>1 DEF With
<1>3. /\ pc'[t] \in {"idle", "slot", "replay"} /\ reg'[t] = NoSlot
      /\ pc'[t] = "replay" => replayed[t] # NoSlot
      /\ pc'[t] # "replay" => replayed[t] = NoSlot
      /\ \A u \in Threads \ {t} : reg'[u] = reg[u] /\ pc'[u] = pc[u] /\ ext'[u] = ext[u]
      /\ pc' \in [Threads -> Places] /\ ext' \in [Threads -> Nat] /\ replayed' = replayed
  BY ReturnsHome DEF TypeOK
<1>4. held' = held \cup {k} /\ open /\ UNCHANGED <<dead, disc, mu, conMu, nextToken>>
  BY <1>1 DEF FreesAlone
<1> HIDE DEF k, slot
<1>5. TypeOK'
  <2>1. /\ DOMAIN conns' \subseteq Tokens /\ \A i \in DOMAIN conns' : conns'[i] \in Slots
        /\ DOMAIN given' \subseteq Tokens /\ \A i \in DOMAIN given' : given'[i] \in Slots
    BY <1>1, <1>2 DEF TypeOK
  <2>2. held' \subseteq DOMAIN given'
    BY <1>2, <1>4 DEF TypeOK
  <2>3. reg' \in [Threads -> Sigs \X Nat]
    BY SlotsAreNumbered DEF TypeOK
  <2> QED
    BY <1>3, <2>1, <2>2, <2>3 DEF TypeOK
<1>6. CallsNest'
  BY <1>3, NoSlotUnused DEF CallsNest
<1>7. FreesAlone' /\ Locks'
  BY <1>3, <1>4 DEF FreesAlone, Locks, Freeing
<1>8. NeverAgain'
  BY <1>1, <1>2 DEF NeverAgain, Spent
<1>9. Registers'
  <2>1. \A u \in Threads : Mine(u)' \cap Slots \subseteq Mine(u) \ {slot}
    BY <1>1, <1>3, NoSlotUnused DEF Mine
  <2>2. \A u \in Threads : reg'[u] \in Slots => reg'[u] # replayed'[u]
    BY <1>3, NoSlotUnused DEF Registers
  <2>3. ASSUME NEW u \in Threads, pc'[u] = "store"
        PROVE  /\ ext'[u] \in 1 .. nextToken /\ ext'[u] \notin DOMAIN given'
               /\ \A v \in Threads : pc'[v] = "store" /\ ext'[u] = ext'[v] => u = v
    BY <1>1, <1>2, <1>3, <2>3 DEF Registers, k
  <2>4. ASSUME NEW u \in Threads, NEW c \in Mine(u)' \cap Slots
        PROVE  /\ c \in slots'
               /\ \A i \in DOMAIN given' : given'[i] # c
               /\ \A v \in Threads : c \in Mine(v)' => u = v
    <3>1. c \in Mine(u) \cap Slots /\ c # slot
      BY <2>1
    <3>2. \A v \in Threads : c \in Mine(v)' => c \in Mine(v)
      BY <2>1
    <3> QED
      BY <1>2, <3>1, <3>2 DEF Registers
  <2> QED
    BY <1>4, <2>2, <2>3, <2>4 DEF Registers
<1>10. TokensDiffer'
  BY <1>1, <1>2 DEF TokensDiffer
<1>11. Undoes'
  <2>1. ASSUME NEW u \in Threads, pc'[u] \in Undo
        PROVE  u # t /\ pc[u] \in Undo /\ ext'[u] = ext[u] /\ ext[u] # k
    BY <1>1, <1>3, <2>1 DEF Undoes, Undo
  <2> QED
    BY <1>2, <1>3, <1>4, <2>1 DEF Undoes
<1>12. Leaving' = Leaving
  BY <1>1, <1>3, <1>4 DEF Leaving
<1>13. Served'
  <2>1. ASSUME NEW c \in slots'
        PROVE  HasWay(c)'
    <3>1. c \in Slots /\ HasWay(c)
      BY DEF Served, TypeOK
    <3>2. \A u \in Threads : c \in Mine(u) => c = slot \/ c \in Mine(u)'
      BY <1>3 DEF Mine, slot
    <3> QED
      BY <1>2, <1>12, <3>1, <3>2 DEF HasWay, TokensDiffer
  <2>2. held' \subseteq DOMAIN conns' /\ DOMAIN conns' \ held' \subseteq DOMAIN conns \ held
    BY <1>2, <1>4 DEF Served
  <2>3. \A i \in DOMAIN conns' : given'[i] \in slots'
    BY <1>1, <1>2, <1>4 DEF Served, TokensDiffer, Freeing, FreesAlone
  <2> QED
    BY <1>1, <1>3, <2>1, <2>2, <2>3 DEF Served
<1>14. ShimsLast'
  BY <1>2, <1>4, <1>12 DEF ShimsLast, SlotsHaveShims
<1> QED
  BY <1>5, <1>6, <1>7, <1>8, <1>9, <1>10, <1>11, <1>13, <1>14

LEMMA InvBeginDisconnect ==
    ASSUME Inv, NEW t \in Threads, NEW k \in DOMAIN given, BeginDisconnect(t, k)
    PROVE  Inv'
<1> USE DEF Inv, BeginDisconnect, Goto, signals, handle
<1>1. /\ open /\ pc[t] \in {"idle", "slot", "replay"} /\ pc'[t] = "remove"
      /\ ext'[t] = k /\ held' = held \ {k} /\ k \in Tokens
      /\ \A u \in Threads \ {t} : pc'[u] = pc[u] /\ ext'[u] = ext[u]
  BY DEF MayCall, Caller, TypeOK
<1>2. TypeOK'
  <2>1. pc' \in [Threads -> Places] /\ ext' \in [Threads -> Nat]
    BY <1>1 DEF TypeOK, Places, Tokens
  <2> QED
    BY <2>1 DEF TypeOK
<1>3. CallsNest' /\ FreesAlone'
  BY <1>1 DEF CallsNest, FreesAlone, Freeing
<1>4. NeverAgain' /\ TokensDiffer'
  BY DEF NeverAgain, Spent, TokensDiffer
<1>5. Registers' /\ Undoes'
  BY <1>1 DEF Registers, Mine, Undoes, Undo
<1>6. Leaving' = Leaving
  BY <1>1 DEF Leaving
<1>7. Served' /\ ShimsLast' /\ Locks'
  BY <1>1, <1>6 DEF Served, HasWay, Mine, Freeing, ShimsLast, SlotsHaveShims, Locks
<1> QED
  BY <1>2, <1>3, <1>4, <1>5, <1>7

\* A token that is not in conns: its slot is gone, or another thread is about to
\* disconnect it.
LEMMA NotListed ==
    ASSUME Inv, NEW k \in DOMAIN given, k \notin DOMAIN conns, given[k] \in slots
    PROVE  given[k] \in Leaving
<1> USE DEF Inv
<1>1. HasWay(given[k]) /\ given[k] \in Slots
  BY DEF Served, TypeOK
<1>2. \A t \in Threads : given[k] \notin Mine(t)
  BY <1>1 DEF Registers
<1>3. \A i \in DOMAIN conns : given[i] # given[k]
  BY DEF TokensDiffer
<1> QED
  BY <1>1, <1>2, <1>3 DEF HasWay

LEMMA InvRemove ==
    ASSUME Inv, NEW t \in Threads, Remove(t)
    PROVE  Inv'
<1> USE DEF Inv, Remove, Goto, signals, application
<1> DEFINE k == ext[t]
<1>1. /\ pc[t] = "remove" /\ k \in DOMAIN given \ held /\ open
      /\ \A u \in Threads \ {t} : pc'[u] = pc[u] /\ disc'[u] = disc[u]
  BY DEF Undoes, Undo, TypeOK, FreesAlone
<1>2. \/ /\ k \in DOMAIN conns /\ pc'[t] = "disc" /\ disc'[t] = given[k]
         /\ DOMAIN conns' = DOMAIN conns \ {k} /\ \A i \in DOMAIN conns' : conns'[i] = conns[i]
      \/ k \notin DOMAIN conns /\ pc'[t] = "pop" /\ UNCHANGED <<disc, conns>>
  <2>1. CASE k \in DOMAIN conns
    <3>1. /\ conns' = Without(conns, k) /\ disc' = [disc EXCEPT ![t] = conns[k]]
          /\ pc' = [pc EXCEPT ![t] = "disc"]
      BY <2>1
    <3> HIDE DEF k
    <3>2. DOMAIN conns' = DOMAIN conns \ {k} /\ \A i \in DOMAIN conns' : conns'[i] = conns[i]
      BY <3>1 DEF Without
    <3> QED
      BY <2>1, <3>1, <3>2 DEF TokensDiffer, TypeOK
  <2>2. CASE k \notin DOMAIN conns
    BY <2>2 DEF TypeOK
  <2> QED
    BY <2>1, <2>2
<1>3. DOMAIN conns' = DOMAIN conns \ {k} /\ \A i \in DOMAIN conns' : conns'[i] = conns[i]
  BY <1>2
<1>4. pc' \in [Threads -> Places] /\ disc' \in [Threads -> Slots \cup {NoSlot}]
  BY DEF TypeOK, Places
<1>5. /\ UNCHANGED <<slots, next, mu, conMu, nextToken, dead, reg, replayed, ext, open, held,
                     given, calls>>
      /\ pc'[t] \in {"disc", "pop"}
  BY <1>2
<1>6. \A u \in Threads : u # t \/ pc'[u] \in {"disc", "pop"}
  BY <1>5
<1> HIDE DEF k, Remove
<1>7. TypeOK'
  BY <1>3, <1>4, <1>5 DEF TypeOK
<1>8. CallsNest' /\ FreesAlone' /\ Locks'
  BY <1>1, <1>5 DEF CallsNest, FreesAlone, Freeing, Locks
<1>9. NeverAgain' /\ TokensDiffer'
  BY <1>3, <1>5 DEF NeverAgain, Spent, TokensDiffer
<1>10. Registers'
  BY <1>1, <1>5 DEF Registers, Mine
<1>11. Undoes'
  BY <1>1, <1>2, <1>3, <1>5 DEF Undoes, Undo, k
<1>12. \A slot \in Leaving : slot \in Leaving'
  BY <1>1, <1>5, LeavingIs DEF Leaving
<1>13. Served'
  <2>1. ASSUME NEW slot \in slots'
        PROVE  HasWay(slot)'
    <3>1. HasWay(slot)
      BY <1>5 DEF Served
    <3>2. CASE \E i \in DOMAIN conns : i # k /\ given[i] = slot
      BY <1>3, <1>5, <3>2 DEF HasWay
    <3>3. CASE k \in DOMAIN conns /\ given[k] = slot
      BY <1>2, <3>3 DEF HasWay, Leaving
    <3>4. CASE (\E u \in Threads : slot \in Mine(u)) \/ slot \in Leaving
      BY <1>5, <1>12, <3>4 DEF HasWay, Mine
    <3> QED
      BY <3>1, <3>2, <3>3, <3>4 DEF HasWay
  <2>2. held' \subseteq DOMAIN conns'
    BY <1>1, <1>3, <1>5 DEF Served
  <2>3. \A i \in DOMAIN conns' \ held' : \E u \in Threads : pc'[u] = "remove" /\ ext'[u] = i
    BY <1>1, <1>3, <1>5 DEF Served, k
  <2> QED
    BY <1>1, <1>3, <1>5, <2>1, <2>2, <2>3 DEF Served, Freeing
<1>14. ShimsLast'
  BY <1>5, <1>12 DEF ShimsLast, SlotsHaveShims
<1> QED
  BY <1>7, <1>8, <1>9, <1>10, <1>11, <1>13, <1>14

LEMMA InvDisconnect ==
    ASSUME Inv, NEW t \in Threads, Disconnect(t)
    PROVE  Inv'
<1> USE DEF Inv, Disconnect, Goto, application
<1> DEFINE gone == given[ext[t]]
<1>1. /\ pc[t] = "disc" /\ disc[t] = gone /\ slots' = slots \ {gone} /\ open
      /\ ext[t] \in DOMAIN given /\ ext[t] \notin DOMAIN conns /\ gone \in Slots
      /\ pc'[t] = "pop" /\ conMu = Nobody
      /\ \A u \in Threads \ {t} : pc'[u] = pc[u] /\ disc'[u] = disc[u]
  BY DEF Undoes, Undo, TypeOK, FreesAlone, Locks, Freeing
<1> HIDE DEF gone
<1>2. conMu' = conMu
  BY <1>1
<1>3. TypeOK'
  BY DEF TypeOK, Places
<1>4. CallsNest' /\ FreesAlone' /\ Locks'
  BY <1>1, <1>2 DEF CallsNest, FreesAlone, Freeing, Locks
<1>5. NeverAgain' /\ TokensDiffer'
  BY <1>1 DEF NeverAgain, Spent, TokensDiffer
<1>6. Registers'
  <2>1. \A u \in Threads : Mine(u)' = Mine(u) /\ gone \notin Mine(u)
    BY <1>1 DEF Registers, Mine, gone
  <2> QED
    BY <1>1, <2>1 DEF Registers
<1>7. Undoes'
  BY <1>1 DEF Undoes, Undo
<1>8. \A slot \in Leaving : slot = gone \/ slot \in Leaving'
  BY <1>1 DEF Leaving
<1>9. Served'
  <2>1. ASSUME NEW slot \in slots'
        PROVE  HasWay(slot)'
    <3>1. HasWay(slot) /\ slot # gone
      BY <1>1 DEF Served
    <3> QED
      BY <1>8, <3>1 DEF HasWay, Mine
  <2>2. \A i \in DOMAIN conns : given[i] # gone
    BY <1>1 DEF TokensDiffer, gone
  <2> QED
    BY <1>1, <2>1, <2>2 DEF Served, Freeing
<1>10. ShimsLast'
  BY <1>1, <1>8 DEF ShimsLast, SlotsHaveShims
<1> QED
  BY <1>3, <1>4, <1>5, <1>6, <1>7, <1>9, <1>10

LEMMA InvPop ==
    ASSUME Inv, NEW t \in Threads, Pop(t)
    PROVE  Inv'
<1> USE DEF Inv, Pop, signals, handle, application
<1>1. /\ pc[t] = "pop" /\ ext[t] \in DOMAIN given /\ ext[t] \notin DOMAIN conns /\ open
      /\ dead' = dead \cup {given[ext[t]]}
  BY DEF Undoes, Undo, TypeOK, FreesAlone
<1>2. /\ pc'[t] \in {"idle", "slot", "replay"}
      /\ pc'[t] = "replay" => replayed[t] # NoSlot
      /\ pc'[t] # "replay" => replayed[t] = NoSlot
      /\ \A u \in Threads \ {t} : pc'[u] = pc[u] /\ ext'[u] = ext[u]
      /\ pc' \in [Threads -> Places] /\ ext' \in [Threads -> Nat]
  BY ReturnsHome
<1>3. UNCHANGED <<slots, next, mu, conMu, conns, nextToken, reg, replayed, disc, open, held,
                  given, calls>>
  OBVIOUS
<1> HIDE DEF Pop
<1>4. TypeOK'
  BY <1>1, <1>2, <1>3 DEF TypeOK
<1>5. CallsNest' /\ FreesAlone' /\ Locks'
  BY <1>1, <1>2, <1>3 DEF CallsNest, FreesAlone, Freeing, Locks
<1>6. NeverAgain' /\ TokensDiffer'
  BY <1>3 DEF NeverAgain, Spent, TokensDiffer
<1>7. Registers' /\ Undoes'
  BY <1>1, <1>2, <1>3 DEF Registers, Mine, Undoes, Undo
<1>8. Leaving' = Leaving
  BY <1>1, <1>2, <1>3 DEF Leaving
<1>9. Served'
  BY <1>1, <1>2, <1>3, <1>8 DEF Served, HasWay, Mine, Freeing
<1>10. ShimsLast'
  <2>1. given[ext[t]] \in slots => given[ext[t]] \in Leaving
    BY <1>1, NotListed
  <2> QED
    BY <1>1, <1>3, <1>8, <2>1 DEF ShimsLast, SlotsHaveShims
<1> QED
  BY <1>4, <1>5, <1>6, <1>7, <1>9, <1>10

LEMMA InvFree ==
    ASSUME Inv, NEW t \in Threads, Free(t)
    PROVE  Inv'
<1> USE DEF Inv, Free, Goto, signals, locals
<1>1. /\ open /\ pc'[t] = "free" /\ \A u \in Threads \ {t} : pc'[u] = "idle"
      /\ \A u \in Threads : pc[u] = "idle"
  BY DEF TypeOK
<1>2. TypeOK'
  BY DEF TypeOK, Places
<1>3. CallsNest' /\ FreesAlone' /\ Locks'
  BY <1>1 DEF CallsNest, FreesAlone, Freeing, Locks
<1>4. NeverAgain' /\ TokensDiffer'
  BY DEF NeverAgain, Spent, TokensDiffer
<1>5. Registers' /\ Undoes'
  BY <1>1 DEF Registers, Mine, Undoes, Undo
<1>6. Leaving' = Leaving
  BY <1>1 DEF Leaving
<1>7. Served' /\ ShimsLast'
  BY <1>1, <1>6 DEF Served, HasWay, Mine, Freeing, ShimsLast, SlotsHaveShims
<1> QED
  BY <1>2, <1>3, <1>4, <1>5, <1>7

\* Nobody registers or disconnects while the handle is freed.
LEMMA FreedAlone ==
    ASSUME Inv, NEW t \in Threads, pc[t] = "free"
    PROVE  /\ ~open /\ \A u \in Threads \ {t} : pc[u] = "idle"
           /\ \A u \in Threads : reg[u] \notin Slots /\ replayed[u] = NoSlot
           /\ Leaving = {}
           /\ \A slot \in slots : \E k \in DOMAIN conns : conns[k] = slot
<1> USE DEF Inv
<1>1. ~open /\ \A u \in Threads \ {t} : pc[u] = "idle"
  BY DEF FreesAlone
<1>2. /\ \A u \in Threads : reg[u] \notin Slots /\ replayed[u] = NoSlot
      /\ Leaving = {}
  BY <1>1 DEF CallsNest, Leaving
<1>3. \A slot \in slots : \E k \in DOMAIN conns : conns[k] = slot
  BY <1>2, NoSlotUnused DEF Served, HasWay, Mine, TypeOK, TokensDiffer
<1> QED
  BY <1>1, <1>2, <1>3

LEMMA InvFreeDisconnects ==
    ASSUME Inv, NEW t \in Threads, NEW k \in DOMAIN conns, FreeDisconnects(t, k)
    PROVE  Inv'
<1> USE DEF Inv, FreeDisconnects, handle, locals, application
<1>1. pc[t] = "free" /\ slots' \subseteq slots
  OBVIOUS
<1>2. TypeOK' /\ CallsNest'
  BY DEF TypeOK, CallsNest
<1>3. FreesAlone' /\ Locks'
  BY <1>1 DEF FreesAlone, Freeing, Locks
<1>4. NeverAgain' /\ TokensDiffer'
  BY <1>1 DEF NeverAgain, Spent, TokensDiffer
<1>5. Registers'
  <2>1. \A u \in Threads : Mine(u)' \cap Slots = {}
    BY <1>1, FreedAlone, NoSlotUnused DEF Mine
  <2>2. \A u \in Threads : reg'[u] \notin Slots /\ pc'[u] # "store"
    BY <1>1, FreedAlone
  <2> QED
    BY <2>1, <2>2 DEF Registers
<1>6. Undoes'
  BY <1>1, FreedAlone DEF Undoes, Undo
<1>7. Leaving' = Leaving
  BY DEF Leaving
<1>8. Served' /\ ShimsLast'
  BY <1>1, <1>7 DEF Served, HasWay, Mine, Freeing, ShimsLast, SlotsHaveShims
<1> QED
  BY <1>2, <1>3, <1>4, <1>5, <1>6, <1>8

LEMMA InvFreeEnds ==
    ASSUME Inv, NEW t \in Threads, FreeEnds(t)
    PROVE  Inv'
<1> USE DEF Inv, FreeEnds, Goto, signals, locals
<1>1. /\ ~open /\ \A u \in Threads : pc'[u] = "idle"
      /\ \A u \in Threads : reg[u] \notin Slots /\ replayed[u] = NoSlot
      /\ slots = {} /\ DOMAIN conns' = {} /\ held' = {} /\ Nobody \notin Threads
  <2>1. slots = {}
    BY FreedAlone DEF Left
  <2>2. /\ ~open /\ \A u \in Threads : pc'[u] = "idle"
        /\ \A u \in Threads : reg[u] \notin Slots /\ replayed[u] = NoSlot
    BY FreedAlone DEF TypeOK
  <2> QED
    BY <2>1, <2>2
<1>2. TypeOK'
  <2>1. pc' \in [Threads -> Places]
    BY DEF TypeOK, Places
  <2>2. dead' \subseteq Slots
    BY DEF TypeOK
  <2> QED
    BY <1>1, <2>1, <2>2 DEF TypeOK
<1>3. CallsNest' /\ FreesAlone' /\ Locks'
  BY <1>1 DEF CallsNest, FreesAlone, Freeing, Locks
<1>4. NeverAgain' /\ TokensDiffer'
  BY <1>1 DEF NeverAgain, Spent, TokensDiffer
<1>5. Registers'
  BY <1>1, NoSlotUnused DEF Registers, Mine
<1>6. Undoes' /\ Served'
  BY <1>1 DEF Undoes, Undo, Served
<1>7. ShimsLast'
  BY <1>1 DEF ShimsLast, SlotsHaveShims
<1> QED
  BY <1>2, <1>3, <1>4, <1>5, <1>6, <1>7

LEMMA InvNew ==
    ASSUME Inv, New
    PROVE  Inv'
<1> USE DEF Inv, New, locals
<1>1. /\ \A u \in Threads : pc[u] = "idle" /\ reg[u] \notin Slots /\ replayed[u] = NoSlot
      /\ slots = {} /\ DOMAIN conns = {} /\ held = {} /\ DOMAIN given' = {}
  BY DEF FreesAlone, Freeing, CallsNest
<1>2. TypeOK'
  BY <1>1 DEF TypeOK
<1>3. CallsNest' /\ FreesAlone' /\ Locks'
  BY <1>1 DEF CallsNest, FreesAlone, Freeing, Locks
<1>4. NeverAgain' /\ TokensDiffer' /\ ShimsLast'
  BY <1>1 DEF NeverAgain, TokensDiffer, ShimsLast, SlotsHaveShims
<1>5. Registers' /\ Undoes' /\ Served'
  BY <1>1, NoSlotUnused DEF Registers, Mine, Undoes, Undo, Served
<1> QED
  BY <1>2, <1>3, <1>4, <1>5

\* A callback begins and ends; the calls in it are the actions above.
LEMMA InvCallback ==
    ASSUME Inv, Invoke \/ SlotReturns
    PROVE  Inv'
<1> USE DEF Inv, Invoke, SlotReturns, Goto, signals, handle, locals, application
<1>1. /\ pc[Emitter] \in {"idle", "slot"} /\ pc'[Emitter] \in {"idle", "slot"}
      /\ \A u \in Threads \ {Emitter} : pc'[u] = pc[u]
      /\ pc[Emitter] = "slot" \/ open
      /\ Emitter \in Threads
  BY DEF TypeOK, Threads
<1>2. open
  BY <1>1 DEF FreesAlone
<1>3. TypeOK'
  BY <1>1 DEF TypeOK, Places
<1>4. CallsNest' /\ FreesAlone' /\ Locks'
  <2>1. open' /\ \A u \in Threads : pc[u] # "free" /\ pc'[u] # "free"
    BY <1>1, <1>2 DEF FreesAlone
  <2>2. CallsNest'
    BY <1>1 DEF CallsNest
  <2> QED
    BY <2>1, <2>2 DEF FreesAlone, Freeing, Locks
<1>5. NeverAgain' /\ TokensDiffer'
  BY DEF NeverAgain, Spent, TokensDiffer
<1>6. Registers' /\ Undoes'
  BY <1>1 DEF Registers, Mine, Undoes, Undo
<1>7. Leaving' = Leaving
  BY <1>1 DEF Leaving
<1>8. Served' /\ ShimsLast'
  BY <1>1, <1>7 DEF Served, HasWay, Mine, Freeing, ShimsLast, SlotsHaveShims
<1> QED
  BY <1>3, <1>4, <1>5, <1>6, <1>8

LEMMA InvStutter ==
    ASSUME Inv, UNCHANGED vars
    PROVE  Inv'
<1> USE DEF Inv, vars, signals, handle, locals, application
<1>1. TypeOK' /\ CallsNest' /\ FreesAlone' /\ NeverAgain' /\ TokensDiffer' /\ Locks'
  BY DEF TypeOK, CallsNest, FreesAlone, Freeing, NeverAgain, Spent, TokensDiffer, Locks
<1>2. Leaving' = Leaving
  BY DEF Leaving
<1>3. Registers' /\ Undoes' /\ Served' /\ ShimsLast'
  BY <1>2 DEF Registers, Mine, Undoes, Served, HasWay, Freeing, ShimsLast, SlotsHaveShims
<1> QED
  BY <1>1, <1>3

LEMMA InvStep ==
    ASSUME Inv, [Next]_vars
    PROVE  Inv'
  BY InvBeginConnect, InvConnect, InvConnectAndReplay, InvEndReplay, InvReserve, InvStore,
     InvBeginDisconnect, InvRemove, InvDisconnect, InvPop, InvFree, InvFreeDisconnects,
     InvFreeEnds, InvNew, InvCallback, InvStutter
     DEF Next, CallStep

-----------------------------------------------------------------------------
(* The theorems.                                                           *)

\* The invariant holds for any threads of the application, any signals and any
\* number of registrations.
THEOREM CApiInductive == Spec => []Inv
  BY InvInit, InvStep, PTL DEF Spec

\* Every variable has its type: no more on_* calls are made than MaxCalls.
THEOREM CApiTypeCorrect == Spec => []TypeOK
<1>1. Inv => TypeOK
  BY DEF Inv
<1> QED
  BY <1>1, CApiInductive, PTL

\* A token that the application holds disconnects the slot it was given for,
\* and every connected slot has a token that is held, or its on_* or its
\* disconnect has not returned.
THEOREM TokensDisconnectTheirs == Spec => []TokensMatchSlots
<1>1. Inv => TokensMatchSlots
  <2> SUFFICES ASSUME Inv, ~Freeing
               PROVE  /\ \A k \in held :
                            k \in DOMAIN conns /\ conns[k] = given[k] /\ given[k] \in slots
                      /\ \A k, l \in held : given[k] = given[l] => k = l
                      /\ slots \subseteq {given[k] : k \in held}
                                          \cup UNION {Serving(t) : t \in Threads}
    BY DEF TokensMatchSlots, Freeing
  <2> USE DEF Inv
  <2>1. \A k \in held : k \in DOMAIN conns /\ conns[k] = given[k] /\ given[k] \in slots
    BY DEF Served, TokensDiffer
  <2>2. \A k, l \in held : given[k] = given[l] => k = l
    BY DEF TokensDiffer, TypeOK
  <2>3. ASSUME NEW slot \in slots
        PROVE  (\E k \in held : given[k] = slot) \/ \E t \in Threads : slot \in Serving(t)
    <3>1. CASE \E k \in DOMAIN conns \ held : given[k] = slot
      BY <3>1 DEF Served, Serving
    <3>2. CASE \E t \in Threads : slot \in Mine(t)
      BY <3>2 DEF Serving, Mine
    <3>3. CASE slot \in Leaving
      BY <3>3 DEF Leaving, Serving, Undoes, Undo
    <3> QED
      BY <3>1, <3>2, <3>3 DEF Served, HasWay
  <2> QED
    BY <2>1, <2>2, <2>3
<1> QED
  BY <1>1, CApiInductive, PTL

\* A shim that the Python object let go is of no slot that a signal still has,
\* unless another thread is about to disconnect that slot.
THEOREM ShimsOutliveSlots == Spec => []SlotsHaveShims
<1>1. Inv => SlotsHaveShims
  BY DEF Inv, ShimsLast
<1> QED
  BY <1>1, CApiInductive, PTL

\* Who holds a mutex that a call waits for does not wait for anybody else, and
\* for itself only where a replayed callback calls the signal it is called by.
THEOREM HoldersNeverWait == Spec => []HoldersRun
<1>1. Inv => HoldersRun
  <2> SUFFICES ASSUME Inv, NEW t \in Threads, NEW u \in WaitsFor(t), WaitsFor(u) # {}
               PROVE  WaitsFor(u) = {u} /\ BlocksItself(u)
    BY DEF HoldersRun
  <2> USE DEF Inv
  <2>1. CASE Freeing
    <3>1. PICK f \in Threads : pc[f] = "free"
      BY <2>1 DEF Freeing
    <3>2. \A v \in Threads : replayed[v] = NoSlot
      BY <3>1, FreedAlone
    <3>3. \A s \in Sigs : mu[s] = Nobody
      BY <3>2 DEF Locks, TypeOK
    <3>4. \A v \in Threads : pc[v] = "free" => \A k \in Left : SigOf(conns[k]) \in Sigs
      BY DEF Left, TypeOK, SigOf, Slots
    <3>5. \A v \in Threads : pc[v] \in {"idle", "free"}
      BY <3>1, FreedAlone
    <3> QED
      BY <3>3, <3>4, <3>5 DEF WaitsFor, Behind
  <2>2. CASE ~Freeing
    <3>1. conMu = Nobody
      BY <2>2 DEF Locks
    <3>2. ASSUME NEW v \in Threads, NEW w \in WaitsFor(v)
          PROVE  \/ /\ pc[v] = "connect" /\ w = mu[SigOf(reg[v])] /\ SigOf(reg[v]) \in Sigs
                 \/ /\ pc[v] = "disc" /\ w = mu[SigOf(disc[v])] /\ SigOf(disc[v]) \in Sigs
      <4>1. pc[v] \in {"connect", "disc"} /\ w # Nobody
        BY <2>2, <3>1 DEF WaitsFor, Behind, Freeing
      <4>2. SigOf(reg[v]) \in Sigs /\ SigOf(disc[v]) \in Sigs
        BY DEF TypeOK, SigOf, Slots, NoSlot
      <4> QED
        BY <4>1, <4>2 DEF WaitsFor, Behind
    <3>3. \A v \in Threads : \A w \in WaitsFor(v) : w = mu[ReplaySig] /\ w \in Threads
      <4> SUFFICES ASSUME NEW v \in Threads, NEW w \in WaitsFor(v)
                   PROVE  w = mu[ReplaySig] /\ w \in Threads
        OBVIOUS
      <4>1. w # Nobody
        BY <3>1 DEF WaitsFor, Behind
      <4> QED
        BY <3>2, <4>1 DEF Locks, TypeOK
    <3>4. u = mu[ReplaySig] /\ u \in Threads /\ replayed[u] # NoSlot
      BY <3>3 DEF Locks
    <3>5. PICK w \in WaitsFor(u) : TRUE
      OBVIOUS
    <3>6. WaitsFor(u) = {u}
      BY <3>3, <3>4
    <3>7. u # Nobody
      BY <3>4
    <3>8. BlocksItself(u)
      BY <3>2, <3>4, <3>6, <3>7 DEF BlocksItself, Locks
    <3> QED
      BY <3>6, <3>8
  <2> QED
    BY <2>1, <2>2
<1> QED
  BY <1>1, CApiInductive, PTL
=============================================================================
