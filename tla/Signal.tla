------------------------------- MODULE Signal -------------------------------
(***************************************************************************)
(* spotify::Signal, the library's only way to reach a subscriber: slots     *)
(* are kept under a mutex, an emission copies them under the mutex and      *)
(* invokes the copies without it, and ConnectAndReplay invokes the new      *)
(* slot while it still holds the mutex.                                     *)
(*                                                                         *)
(* Publishers are threads that replace the published state and then emit    *)
(* it; clients are threads of the embedding program.  A slot is known by    *)
(* its token.  Tokens grow, a new slot goes to the end and erasing keeps    *)
(* the order, so the vector of slots is the set of their tokens in          *)
(* ascending order.  A value stands for a state: the n-th one published.    *)
(***************************************************************************)
EXTENDS Integers, Sequences, FiniteSets

CONSTANTS
    Publishers,     \* threads that run Aggregate
    Clients,        \* threads that connect and disconnect
    Nobody,         \* the holder of a free mutex
    MaxToken,       \* bound on the slots ever connected
    MaxValue        \* bound on the states ever published

Threads == Publishers \cup Clients

ASSUME SignalAssumption ==
    /\ Publishers \cap Clients = {}
    /\ Nobody \notin Threads
    /\ IsFiniteSet(Clients)
    /\ MaxToken \in Nat /\ MaxValue \in Nat

VARIABLES
    current,    \* the published state, LatestState()
    slots,      \* slots_
    next,       \* next_
    mu,         \* the thread that holds mu_, or Nobody
    pc,         \* where each thread is
    back,       \* where a thread that calls disconnect returns to
    target,     \* the token it disconnects
    arg,        \* a client's replay argument
    payload,    \* what a publisher emits
    pending,    \* the slots of its snapshot it has not invoked yet
    held,       \* the tokens connect returned and nobody disconnected
    stays,      \* those held since a publisher took its snapshot
    heard       \* token -> what its slot was invoked with, and how

vars == <<current, slots, next, mu, pc, back, target, arg, payload, pending,
          held, stays, heard>>

Tokens == 1 .. MaxToken
Values == 0 .. MaxValue

Init ==
    /\ current = 0
    /\ slots = {} /\ next = 0 /\ mu = Nobody
    /\ pc = [t \in Threads |-> "idle"]
    /\ back = [t \in Threads |-> "idle"]
    /\ target = [t \in Threads |-> 0]
    /\ arg = [c \in Clients |-> 0]
    /\ payload = [p \in Publishers |-> 0]
    /\ pending = [p \in Publishers |-> {}]
    /\ held = {}
    /\ stays = [p \in Publishers |-> {}]
    /\ heard = [k \in Tokens |-> <<>>]

\* The bound on connections, with one reserved for each that is under way.
Room == next + Cardinality({c \in Clients : pc[c] = "connecting"}) < MaxToken

Goto(t, place) == pc' = [pc EXCEPT ![t] = place]

-----------------------------------------------------------------------------
(* connect, ConnectAndReplay.                                              *)

\* Mutant: next_ is not incremented.
ConnectSameToken(c) ==
    /\ pc[c] = "idle" /\ mu = Nobody
    /\ Room
    /\ slots' = slots \cup {next + 1}
    /\ held' = held \cup {next + 1}
    /\ UNCHANGED <<current, next, mu, pc, back, target, arg, payload, pending, stays,
                   heard>>

Connect(c) ==
    /\ pc[c] = "idle" /\ mu = Nobody
    /\ Room
    /\ next' = next + 1
    /\ slots' = slots \cup {next + 1}
    /\ held' = held \cup {next + 1}
    /\ UNCHANGED <<current, mu, pc, back, target, arg, payload, pending, stays, heard>>

\* The argument of ConnectAndReplay is LatestState(), evaluated by the caller.
ReadLatest(c) ==
    /\ pc[c] = "idle"
    /\ Room
    /\ arg' = [arg EXCEPT ![c] = current]
    /\ Goto(c, "connecting")
    /\ UNCHANGED <<current, slots, next, mu, back, target, payload, pending, held,
                   stays, heard>>

\* Mutant: the mutex is given up before the replay.
PushThenReplay(c) ==
    /\ pc[c] = "connecting" /\ mu = Nobody
    /\ next' = next + 1
    /\ slots' = slots \cup {next + 1}
    /\ Goto(c, "replaying")
    /\ UNCHANGED <<current, mu, back, target, arg, payload, pending, held, stays, heard>>

LockAndPush(c) ==
    /\ pc[c] = "connecting" /\ mu = Nobody
    /\ next < MaxToken         \* always so: Room reserved it
    /\ mu' = c
    /\ next' = next + 1
    /\ slots' = slots \cup {next + 1}
    /\ Goto(c, "replaying")
    /\ UNCHANGED <<current, back, target, arg, payload, pending, held, stays, heard>>

Replay(c) ==
    /\ pc[c] = "replaying"
    /\ heard' = [heard EXCEPT ![next] = Append(@, <<"replay", arg[c]>>)]
    /\ Goto(c, "replayed")
    /\ UNCHANGED <<current, slots, next, mu, back, target, arg, payload, pending, held,
                   stays>>

\* Mutant: the mutex is never unlocked.
EndReplayLocked(c) ==
    /\ pc[c] = "replayed"
    /\ held' = held \cup {next}
    /\ arg' = [arg EXCEPT ![c] = 0]
    /\ Goto(c, "idle")
    /\ UNCHANGED <<current, slots, next, mu, back, target, payload, pending, stays,
                   heard>>

EndReplay(c) ==
    /\ pc[c] = "replayed"
    /\ mu' = Nobody
    /\ held' = held \cup {next}
    /\ arg' = [arg EXCEPT ![c] = 0]
    /\ Goto(c, "idle")
    /\ UNCHANGED <<current, slots, next, back, target, payload, pending, stays, heard>>

-----------------------------------------------------------------------------
(* disconnect, from a client or from a slot, emitted or replayed to; clear. *)

BeginDisconnect(t, k) ==
    /\ pc[t] \in {"idle", "callback", "replayed"}
    /\ pc[t] = "idle" => t \in Clients
    /\ held' = held \ {k}
    /\ stays' = [p \in Publishers |-> stays[p] \ {k}]
    /\ target' = [target EXCEPT ![t] = k]
    /\ back' = [back EXCEPT ![t] = pc[t]]
    /\ Goto(t, "disconnecting")
    /\ UNCHANGED <<current, slots, next, mu, arg, payload, pending, heard>>

\* Mutant: everything from the token on is erased.
DisconnectTail(t) ==
    /\ pc[t] = "disconnecting" /\ mu = Nobody
    /\ slots' = {k \in slots : k < target[t]}
    /\ target' = [target EXCEPT ![t] = 0]
    /\ back' = [back EXCEPT ![t] = "idle"]
    /\ Goto(t, back[t])
    /\ UNCHANGED <<current, next, mu, arg, payload, pending, held, stays, heard>>

FinishDisconnect(t) ==
    /\ pc[t] = "disconnecting" /\ mu = Nobody
    /\ slots' = {k \in slots : k # target[t]}
    /\ target' = [target EXCEPT ![t] = 0]
    /\ back' = [back EXCEPT ![t] = "idle"]
    /\ Goto(t, back[t])
    /\ UNCHANGED <<current, next, mu, arg, payload, pending, held, stays, heard>>

Clear(c) ==
    /\ pc[c] = "idle" /\ mu = Nobody
    /\ slots' = {} /\ held' = {}
    /\ stays' = [p \in Publishers |-> {}]
    /\ UNCHANGED <<current, next, mu, pc, back, target, arg, payload, pending, heard>>

-----------------------------------------------------------------------------
(* operator(), called by Aggregate after it published the state.           *)

PublishState(p) ==
    /\ pc[p] = "idle"
    /\ current < MaxValue
    /\ current' = current + 1
    /\ payload' = [payload EXCEPT ![p] = current + 1]
    /\ Goto(p, "emitting")
    /\ UNCHANGED <<slots, next, mu, back, target, arg, pending, held, stays, heard>>

TakeSnapshot(p) ==
    /\ pc[p] = "emitting" /\ mu = Nobody
    /\ pending' = [pending EXCEPT ![p] = slots]
    /\ stays' = [stays EXCEPT ![p] = held]
    /\ Goto(p, "invoking")
    /\ UNCHANGED <<current, slots, next, mu, back, target, arg, payload, held, heard>>

Invoke(p, k) ==
    /\ pc[p] = "invoking"
    /\ \A j \in pending[p] : k <= j
    /\ pending' = [pending EXCEPT ![p] = @ \ {k}]
    /\ heard' = [heard EXCEPT ![k] = Append(@, <<"emit", payload[p]>>)]
    /\ Goto(p, "callback")
    /\ UNCHANGED <<current, slots, next, mu, back, target, arg, payload, held, stays>>

CallbackReturns(p) ==
    /\ pc[p] = "callback"
    /\ Goto(p, "invoking")
    /\ UNCHANGED <<current, slots, next, mu, back, target, arg, payload, pending, held,
                   stays, heard>>

EndEmit(p) ==
    /\ pc[p] = "invoking" /\ pending[p] = {}
    /\ payload' = [payload EXCEPT ![p] = 0]
    /\ stays' = [stays EXCEPT ![p] = {}]
    /\ Goto(p, "idle")
    /\ UNCHANGED <<current, slots, next, mu, back, target, arg, pending, held, heard>>

-----------------------------------------------------------------------------
ClientStep(c) == LockAndPush(c) \/ Replay(c) \/ EndReplay(c)

PublisherStep(p) ==
    \/ TakeSnapshot(p)
    \/ \E k \in pending[p] : Invoke(p, k)
    \/ CallbackReturns(p)
    \/ EndEmit(p)

Next ==
    \/ \E c \in Clients : Connect(c) \/ ReadLatest(c) \/ ClientStep(c) \/ Clear(c)
    \/ \E p \in Publishers : PublishState(p) \/ PublisherStep(p)
    \/ \E t \in Threads : \/ \E k \in held : BeginDisconnect(t, k)
                          \/ FinishDisconnect(t)

Spec == Init /\ [][Next]_vars

\* A thread inside a call goes on; a callback that calls nothing more returns.
Fairness ==
    /\ \A c \in Clients : WF_vars(ClientStep(c))
    /\ \A p \in Publishers : WF_vars(PublisherStep(p))
    /\ \A t \in Threads : WF_vars(FinishDisconnect(t))

FairSpec == Spec /\ Fairness

-----------------------------------------------------------------------------
(* Properties.                                                             *)

ClientPlaces    == {"idle", "connecting", "replaying", "replayed", "disconnecting"}
PublisherPlaces == {"idle", "emitting", "invoking", "callback", "disconnecting"}
Heard == {"replay", "emit"} \X Values

\* Every variable has its type; a mutex holder is inside ConnectAndReplay.
TypeOK ==
    /\ current \in Values
    /\ next \in 0 .. MaxToken /\ slots \subseteq 1 .. next
    /\ mu \in Clients \cup {Nobody}
    /\ \A c \in Clients : pc[c] \in ClientPlaces
    /\ \A p \in Publishers : pc[p] \in PublisherPlaces
    /\ pc \in [Threads -> ClientPlaces \cup PublisherPlaces]
    /\ back \in [Threads -> {"idle", "callback", "replayed"}]
    /\ target \in [Threads -> 0 .. MaxToken]
    /\ arg \in [Clients -> Values]
    /\ payload \in [Publishers -> Values]
    /\ pending \in [Publishers -> SUBSET (1 .. next)]
    /\ held \subseteq 1 .. next
    /\ stays \in [Publishers -> SUBSET (1 .. next)]
    /\ heard \in [Tokens -> Seq(Heard)]

\* A slot connected with replay hears the replayed value before any emission
\* (events.h: it "cannot interleave with a concurrent emit").
ReplayComesFirst ==
    \A k \in 1 .. next :
        \A i \in DOMAIN heard[k] : heard[k][i][1] = "replay" => i = 1

\* A slot that stays connected while a publisher emits is invoked with the
\* emitted state exactly once, whatever other slots are connected,
\* disconnected (by their owners or by slots of the same emission) or emitted
\* to in the meantime (README.md: "slots are invoked on a stable snapshot").
Emissions(h, v) == {i \in DOMAIN h : h[i] = <<"emit", v>>}

StableDelivery ==
    \A p \in Publishers : pc[p] = "invoking" /\ pending[p] = {}
        => \A k \in stays[p] : Cardinality(Emissions(heard[k], payload[p])) = 1

\* c_api.h: "Any other API call on the client is safe" in a callback.  A slot
\* that disconnects while it is replayed to waits for the mutex that its own
\* thread holds.
BlocksItself(c) == pc[c] = "disconnecting" /\ back[c] = "replayed"

\* Every other call of the signal returns, with slots that disconnect slots:
\* no emission, subscription or disconnection waits for the mutex for ever,
\* unless a client has blocked itself.
CallsReturn ==
    \A t \in Threads :
        pc[t] # "idle" ~> pc[t] = "idle" \/ \E c \in Clients : BlocksItself(c)

\* What makes them return, whatever is scheduled: the thread that holds the
\* mutex is inside its ConnectAndReplay, and waits for no other thread there.
HolderRuns ==
    mu # Nobody => pc[mu] \in {"replaying", "replayed"} \/ BlocksItself(mu)

\* README.md and c_api.h: with ConnectAndReplay "no value is dropped": when
\* nothing is under way, a slot that was replayed to has heard the current
\* state last.
Replayed(k) == heard[k] # <<>> /\ heard[k][1][1] = "replay"

NoValueDropped ==
    (\A t \in Threads : pc[t] = "idle")
        => \A k \in held : Replayed(k) => heard[k][Len(heard[k])][2] = current

\* The inductive strengthening of the invariants.  The mutex is held by the
\* client inside ConnectAndReplay, and its slot is out of reach until it is
\* released; a token that is being disconnected is not held any more; and a
\* publisher has invoked a slot that stays exactly when it has crossed it off.
InReplay(c) ==
    \/ pc[c] \in {"replaying", "replayed"}
    \/ pc[c] = "disconnecting" /\ back[c] = "replayed"

MutexHeld == \A c \in Clients : InReplay(c) <=> mu = c

BackPlaces ==
    /\ \A c \in Clients : pc[c] = "disconnecting" => back[c] \in {"idle", "replayed"}
    /\ \A p \in Publishers : pc[p] = "disconnecting" => back[p] = "callback"

NewSlotHidden ==
    mu # Nobody =>
        /\ next \in slots /\ next \notin held
        /\ \A p \in Publishers : next \notin pending[p]
        /\ \A t \in Threads : target[t] # next
        /\ \A c \in Clients : pc[c] = "replaying" => heard[next] = <<>>

TargetsGone == \A t \in Threads : target[t] \in 0 .. next /\ target[t] \notin held

HeldConnected == held \subseteq slots

FreshTokens == \A k \in Tokens : k > next => heard[k] = <<>>

PayloadsDistinct ==
    /\ \A p \in Publishers : pc[p] # "idle" => payload[p] <= current
    /\ \A p, q \in Publishers :
          p # q /\ pc[p] # "idle" /\ pc[q] # "idle" => payload[p] # payload[q]

EmittedWasPublished ==
    \A k \in Tokens : \A i \in DOMAIN heard[k] :
        heard[k][i][1] = "emit" => heard[k][i][2] <= current

CrossedOff ==
    \A p \in Publishers :
        /\ pc[p] = "emitting" => \A k \in Tokens : Emissions(heard[k], payload[p]) = {}
        /\ pc[p] \in {"invoking", "callback", "disconnecting"} =>
              \A k \in stays[p] :
                  IF k \in pending[p] THEN Emissions(heard[k], payload[p]) = {}
                  ELSE Cardinality(Emissions(heard[k], payload[p])) = 1

IInv ==
    /\ TypeOK /\ MutexHeld /\ BackPlaces /\ NewSlotHidden /\ TargetsGone /\ HeldConnected
    /\ FreshTokens /\ PayloadsDistinct /\ EmittedWasPublished /\ CrossedOff
    /\ ReplayComesFirst
=============================================================================
