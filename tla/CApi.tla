-------------------------------- MODULE CApi --------------------------------
(***************************************************************************)
(* The callbacks of the C API and the Python class on top of them: on_*    *)
(* connects a slot to one of the client's signals, reserves a token of the *)
(* handle's own and stores how to disconnect; spotifyctl_disconnect looks  *)
(* the token up and disconnects outside the lock; spotifyctl_free does it  *)
(* for all that is left.  The Python object keeps the ctypes shim of every *)
(* callback until it has disconnected it.                                  *)
(*                                                                         *)
(* The signals are Signal.tla's, seen from here: a set of slots, a counter *)
(* and a mutex that a replayed callback runs under.  Any thread may call    *)
(* on_* and disconnect at any time, with any token, and so may every       *)
(* callback, the replayed one included, as c_api.h allows.                  *)
(***************************************************************************)
EXTENDS Naturals, FiniteSets

CONSTANTS
    Callers,        \* threads of the application
    Emitter,        \* a thread of the library
    Sigs,           \* the client's signals
    ReplaySig,      \* OnStateChanged, the one that can replay
    Nobody,         \* no thread
    MaxCalls        \* bound on the calls to on_* with one handle

Threads == Callers \cup {Emitter}

ASSUME CApiAssumption ==
    /\ IsFiniteSet(Callers) /\ Emitter \notin Callers /\ Nobody \notin Threads
    /\ ReplaySig \in Sigs
    /\ MaxCalls \in Nat

VARIABLES
    slots, next,    \* of each signal: core tokens connected, last one given
    mu,             \* of each signal: the holder of its mutex
    conMu, conns,   \* the handle's tokens and what they disconnect
    nextToken,
    dead,           \* the slots whose shim the Python object let go
    pc,             \* where each thread is
    reg,            \* the slot of its call to on_*, without a token until connected
    replayed,       \* the slot that is called under its signal's mutex
    ext,            \* the token of the call
    disc,           \* the closure that removeConn moved out of conns
    open,           \* does the handle exist?
    held,           \* tokens the application was given and has not given back
    given,          \* the slot each token was given for (history)
    calls           \* the calls to on_* so far

signals == <<slots, next, mu>>
handle == <<conMu, conns, nextToken>>
locals == <<reg, replayed, ext, disc>>
application == <<open, held, given, calls>>
vars == <<signals, handle, dead, pc, locals, application>>

Tokens == Nat \ {0}
Slots == Sigs \X Tokens
NoToken == 0
NoSlot == <<ReplaySig, NoToken>>

SigOf(slot) == slot[1]

Init ==
    /\ open = TRUE
    /\ slots = {} /\ next = [s \in Sigs |-> 0] /\ mu = [s \in Sigs |-> Nobody]
    /\ conMu = Nobody /\ conns = <<>> /\ nextToken = 0
    /\ dead = {}
    /\ pc = [t \in Threads |-> "idle"]
    /\ reg = [t \in Threads |-> NoSlot] /\ replayed = [t \in Threads |-> NoSlot]
    /\ ext = [t \in Threads |-> NoToken] /\ disc = [t \in Threads |-> NoSlot]
    /\ held = {} /\ given = <<>> /\ calls = 0

Goto(t, place) == pc' = [pc EXCEPT ![t] = place]

\* Calls come from the application's threads and from callbacks: a slot that is
\* emitted to, or one that is replayed to.
Caller(t) == IF t = Emitter THEN "slot" ELSE "idle"
MayCall(t) == open /\ pc[t] \in {Caller(t), "replay"}

\* A call is left, and its locals are gone.
Return(t) ==
    /\ Goto(t, IF replayed[t] # NoSlot THEN "replay" ELSE Caller(t))
    /\ ext' = [ext EXCEPT ![t] = NoToken]

-----------------------------------------------------------------------------
(* on_*: connect or ConnectAndReplay, reserveToken, storeConn.             *)

BeginConnect(t, s) ==
    /\ MayCall(t) /\ calls < MaxCalls
    /\ calls' = calls + 1
    /\ reg' = [reg EXCEPT ![t] = <<s, NoToken>>]
    /\ Goto(t, "connect")
    /\ UNCHANGED <<signals, handle, dead, replayed, ext, disc, open, held, given>>

NewSlot(s) == <<s, next[s] + 1>>

Push(t) ==
    LET s == SigOf(reg[t])
    IN  /\ pc[t] = "connect" /\ mu[s] = Nobody
        /\ next' = [next EXCEPT ![s] = @ + 1]
        /\ slots' = slots \cup {NewSlot(s)}

Connect(t) ==
    /\ Push(t)
    /\ reg' = [reg EXCEPT ![t] = NewSlot(SigOf(@))]
    /\ Goto(t, "reserve")
    /\ UNCHANGED <<mu, handle, dead, replayed, ext, disc, application>>

\* The callback is called under the signal's mutex.
ConnectAndReplay(t) ==
    /\ Push(t)
    /\ SigOf(reg[t]) = ReplaySig
    /\ mu' = [mu EXCEPT ![ReplaySig] = t]
    /\ replayed' = [replayed EXCEPT ![t] = NewSlot(ReplaySig)]
    /\ reg' = [reg EXCEPT ![t] = NoSlot]
    /\ Goto(t, "replay")
    /\ UNCHANGED <<handle, dead, ext, disc, application>>

EndReplay(t) ==
    /\ pc[t] = "replay"
    /\ mu' = [mu EXCEPT ![ReplaySig] = Nobody]
    /\ reg' = [reg EXCEPT ![t] = replayed[t]]
    /\ replayed' = [replayed EXCEPT ![t] = NoSlot]
    /\ Goto(t, "reserve")
    /\ UNCHANGED <<slots, next, handle, dead, ext, disc, application>>

\* Mutant: the signal's own token is handed out.
ReserveCoreToken(t) ==
    /\ pc[t] = "reserve"
    /\ nextToken' = nextToken + 1
    /\ ext' = [ext EXCEPT ![t] = reg[t][2]]
    /\ Goto(t, "store")
    /\ UNCHANGED <<signals, conMu, conns, dead, reg, replayed, disc, application>>

Reserve(t) ==
    /\ pc[t] = "reserve"
    /\ nextToken' = nextToken + 1
    /\ ext' = [ext EXCEPT ![t] = nextToken + 1]
    /\ Goto(t, "store")
    /\ UNCHANGED <<signals, conMu, conns, dead, reg, replayed, disc, application>>

\* emplace: the first of two equal tokens wins.
With(f, k, slot) == [i \in DOMAIN f \cup {k} |-> IF i \in DOMAIN f THEN f[i] ELSE slot]

\* on_* returns, and the Python object files the shim under the token.
Store(t) ==
    /\ pc[t] = "store" /\ conMu = Nobody
    /\ conns' = With(conns, ext[t], reg[t])
    /\ held' = held \cup {ext[t]} /\ given' = With(given, ext[t], reg[t])
    /\ reg' = [reg EXCEPT ![t] = NoSlot]
    /\ Return(t)
    /\ UNCHANGED <<signals, conMu, nextToken, dead, replayed, disc, open, calls>>

-----------------------------------------------------------------------------
(* disconnect.                                                             *)

\* Mutant: the order of the Node.js class, which unregisters the shim first.
PopFirst(t, k) ==
    /\ MayCall(t) /\ k \in DOMAIN given
    /\ dead' = dead \cup {given[k]}
    /\ held' = held \ {k}
    /\ ext' = [ext EXCEPT ![t] = k]
    /\ Goto(t, "remove")
    /\ UNCHANGED <<signals, handle, reg, replayed, disc, open, given, calls>>

\* A token may be given back again, also while the first call is under way.
BeginDisconnect(t, k) ==
    /\ MayCall(t) /\ k \in DOMAIN given
    /\ held' = held \ {k}
    /\ ext' = [ext EXCEPT ![t] = k]
    /\ Goto(t, "remove")
    /\ UNCHANGED <<signals, handle, dead, reg, replayed, disc, open, given, calls>>

Without(f, k) == [i \in DOMAIN f \ {k} |-> f[i]]

\* Mutant: removeConn keeps conMu while it disconnects.
RemoveKeepsLock(t) ==
    /\ pc[t] = "remove" /\ conMu = Nobody
    /\ IF ext[t] \in DOMAIN conns
       THEN /\ disc' = [disc EXCEPT ![t] = conns[ext[t]]]
            /\ conns' = Without(conns, ext[t])
            /\ conMu' = t
            /\ Goto(t, "disc")
       ELSE /\ UNCHANGED <<disc, conns, conMu>>
            /\ Goto(t, "pop")
    /\ UNCHANGED <<signals, nextToken, dead, reg, replayed, ext, application>>

Remove(t) ==
    /\ pc[t] = "remove" /\ conMu = Nobody
    /\ IF ext[t] \in DOMAIN conns
       THEN /\ disc' = [disc EXCEPT ![t] = conns[ext[t]]]
            /\ conns' = Without(conns, ext[t])
            /\ Goto(t, "disc")
       ELSE /\ UNCHANGED <<disc, conns>>
            /\ Goto(t, "pop")
    /\ UNCHANGED <<signals, conMu, nextToken, dead, reg, replayed, ext, application>>

Disconnect(t) ==
    /\ pc[t] = "disc" /\ mu[SigOf(disc[t])] = Nobody
    /\ slots' = slots \ {disc[t]}
    /\ disc' = [disc EXCEPT ![t] = NoSlot]
    /\ conMu' = IF conMu = t THEN Nobody ELSE conMu
    /\ Goto(t, "pop")
    /\ UNCHANGED <<next, mu, conns, nextToken, dead, reg, replayed, ext, application>>

\* Python: disconnect lets the shim go afterwards.
Pop(t) ==
    /\ pc[t] = "pop"
    /\ dead' = dead \cup {given[ext[t]]}
    /\ Return(t)
    /\ UNCHANGED <<signals, handle, reg, replayed, disc, application>>

-----------------------------------------------------------------------------
(* new and free; the latter as Python's close calls it, after stop.        *)

\* The application makes no call while it frees the handle, and nothing is
\* emitted after spotifyctl_stop (but see SmtcSource).
Free(t) ==
    /\ open /\ \A u \in Threads : pc[u] = "idle"
    /\ t \in Callers
    /\ open' = FALSE
    /\ conMu' = t
    /\ Goto(t, "free")
    /\ UNCHANGED <<signals, conns, nextToken, dead, locals, held, given, calls>>

Left == {k \in DOMAIN conns : conns[k] \in slots}

FreeDisconnects(t, k) ==
    /\ pc[t] = "free" /\ k \in Left /\ mu[SigOf(conns[k])] = Nobody
    /\ slots' = slots \ {conns[k]}
    /\ UNCHANGED <<next, mu, handle, dead, pc, locals, application>>

\* Mutant: the tokens of the closed object are still good for the next one.
FreeKeepsTokens(t) ==
    /\ pc[t] = "free" /\ Left = {}
    /\ conns' = <<>> /\ conMu' = Nobody
    /\ dead' = dead \cup {given[k] : k \in DOMAIN given}
    /\ Goto(t, "idle")
    /\ UNCHANGED <<signals, nextToken, locals, open, held, given, calls>>

\* delete, and self._callbacks.clear().
FreeEnds(t) ==
    /\ pc[t] = "free" /\ Left = {}
    /\ conns' = <<>> /\ conMu' = Nobody
    /\ dead' = dead \cup {given[k] : k \in DOMAIN given}
    /\ held' = {}
    /\ Goto(t, "idle")
    /\ UNCHANGED <<signals, nextToken, locals, open, given, calls>>

New ==
    /\ ~open /\ \A t \in Threads : pc[t] = "idle"
    /\ next' = [s \in Sigs |-> 0] /\ nextToken' = 0 /\ calls' = 0
    /\ dead' = {} /\ given' = <<>>
    /\ open' = TRUE
    /\ UNCHANGED <<slots, mu, conMu, conns, pc, locals, held>>

-----------------------------------------------------------------------------
(* Signal::operator() calls a slot in a thread of the library; which slots, *)
(* in which order and how often is Signal's matter.                        *)

Invoke ==
    /\ open /\ pc[Emitter] = "idle"
    /\ slots # {}
    /\ Goto(Emitter, "slot")
    /\ UNCHANGED <<signals, handle, dead, locals, application>>

SlotReturns ==
    /\ pc[Emitter] = "slot"
    /\ Goto(Emitter, "idle")
    /\ UNCHANGED <<signals, handle, dead, locals, application>>

-----------------------------------------------------------------------------
CallStep(t) ==
    \/ Connect(t) \/ ConnectAndReplay(t) \/ Reserve(t) \/ Store(t)
    \/ Remove(t) \/ Disconnect(t) \/ Pop(t)
    \/ (\E k \in DOMAIN conns : FreeDisconnects(t, k)) \/ FreeEnds(t)

Next ==
    \/ \E t \in Threads :
          \/ CallStep(t) \/ EndReplay(t)
          \/ \E s \in Sigs : BeginConnect(t, s)
          \/ \E k \in DOMAIN given : BeginDisconnect(t, k)
          \/ Free(t)
    \/ New
    \/ Invoke \/ SlotReturns

Spec == Init /\ [][Next]_vars

\* Threads run, and a replayed callback, of which there is one at a time, returns
\* however often it has called the API.
Fairness ==
    /\ \A t \in Threads : WF_vars(CallStep(t))
    /\ SF_vars(\E t \in Threads : EndReplay(t))

FairSpec == Spec /\ Fairness

-----------------------------------------------------------------------------
(* Properties.                                                             *)

Places == {"idle", "slot", "replay", "connect", "reserve", "store", "remove", "disc",
           "pop", "free"}

\* Every variable has its type.
TypeOK ==
    /\ slots \subseteq Slots /\ next \in [Sigs -> Nat]
    /\ mu \in [Sigs -> Threads \cup {Nobody}]
    /\ conMu \in Threads \cup {Nobody}
    /\ DOMAIN conns \subseteq Tokens /\ \A k \in DOMAIN conns : conns[k] \in Slots
    /\ nextToken \in Nat
    /\ dead \subseteq Slots
    /\ pc \in [Threads -> Places]
    /\ reg \in [Threads -> Sigs \X Nat] /\ replayed \in [Threads -> Slots \cup {NoSlot}]
    /\ ext \in [Threads -> Nat] /\ disc \in [Threads -> Slots \cup {NoSlot}]
    /\ open \in BOOLEAN /\ held \subseteq DOMAIN given /\ DOMAIN given \subseteq Tokens
    /\ \A k \in DOMAIN given : given[k] \in Slots
    /\ calls \in 0 .. MaxCalls

\* c_api.h: "Pass the token back to spotifyctl_disconnect to unregister."
\* Whatever registrations, callbacks and disconnects run at once, a token that
\* the application holds disconnects the one slot it was given for, and a slot
\* that is connected can be disconnected: it has a token that is held, or its
\* on_* or its disconnect has not returned.
Serving(t) ==
    {reg[t], replayed[t]} \cup IF pc[t] \in {"remove", "disc"} THEN {given[ext[t]]} ELSE {}

TokensMatchSlots ==
    (\A t \in Threads : pc[t] # "free") =>
        /\ \A k \in held : k \in DOMAIN conns /\ conns[k] = given[k] /\ given[k] \in slots
        /\ \A k, l \in held : given[k] = given[l] => k = l
        /\ slots \subseteq {given[k] : k \in held} \cup UNION {Serving(t) : t \in Threads}

\* bindings/python, _callbacks: it "prevents GC from collecting the CFUNCTYPE
\* shim while the C side holds the pointer".  A slot that a signal still has
\* and whose shim is gone is being disconnected: by the first of two threads
\* that gave the same token back, while the second, which found nothing to
\* remove, has let the shim go already.  (An emission under way has copies of
\* its own.)
Leaving == {disc[t] : t \in {u \in Threads : pc[u] = "disc"}}

SlotsHaveShims == slots \cap dead \subseteq Leaving

\* Whose mutexes a thread waits for: those of the tokens for a registration and
\* for a disconnect, a signal's to connect a slot or to disconnect it.
Behind(slot) == {mu[SigOf(slot)]} \ {Nobody}

WaitsFor(t) ==
    CASE pc[t] = "connect" -> Behind(reg[t])
      [] pc[t] \in {"store", "remove"} -> {conMu} \ {Nobody}
      [] pc[t] = "disc" -> Behind(disc[t])
      [] pc[t] = "free" -> UNION {Behind(conns[k]) : k \in Left}
      [] OTHER -> {}

\* c_api.h: "Any other API call on the client is safe" in a callback.  It is
\* not: a replayed callback that connects to the signal it is replayed from,
\* or disconnects from it, waits for the mutex its own thread holds.
BlocksItself(t) ==
    /\ replayed[t] # NoSlot
    /\ \/ pc[t] = "connect" /\ SigOf(reg[t]) = ReplaySig
       \/ pc[t] = "disc" /\ SigOf(disc[t]) = ReplaySig

\* Nothing else makes a call wait for ever: spotifyctl_free holds the tokens'
\* mutex while it takes the signals', and a replay holds its signal's while
\* the callback takes the tokens' and other signals'; still, who holds a mutex
\* that somebody waits for does not wait, but for itself and as said above.
HoldersRun ==
    \A t \in Threads : \A u \in WaitsFor(t) :
        WaitsFor(u) # {} => WaitsFor(u) = {u} /\ BlocksItself(u)

\* Every call that the application makes returns, whatever threads and
\* callbacks call at the same time, unless a thread has blocked itself.
CallsReturn ==
    \A t \in Callers :
        pc[t] # "idle" ~> pc[t] = "idle" \/ \E u \in Threads : BlocksItself(u)

\* What c_api.h promises.
EveryCallReturns == \A t \in Callers : pc[t] # "idle" ~> pc[t] = "idle"
=============================================================================
