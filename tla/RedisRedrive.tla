---------------------------- MODULE RedisRedrive ----------------------------
(***************************************************************************)
(* RedisProducer::redrive_dlq (backends/redis/mod.rs): it reads a batch of *)
(* the dead letter list, adds the payloads to the main queue as new        *)
(* messages, removes them from the list one by one, by value, and starts   *)
(* again until it finds the list empty.  Nothing keeps two producers from  *)
(* redriving at once, nor consumers from pushing further dead letters,     *)
(* equal ones included, meanwhile.  Every step is one Redis command.       *)
(*                                                                         *)
(* A definition written just above another with the same parameters is a   *)
(* faulty variant of it, used only to see that the properties notice.      *)
(***************************************************************************)
EXTENDS Integers, Sequences, SequencesExt, FiniteSets

CONSTANTS
    Payloads,        \* payloads of dead letters; equal payloads are not told apart
    Callers,         \* producers that may call redrive_dlq
    BatchSize,       \* what LRANGE 0 BATCH_SIZE returns at most: BATCH_SIZE + 1
    MaxDeadLetters,  \* bound: dead letters ever pushed
    MaxFaults        \* bound: calls that fail

ASSUME RedriveAssumption ==
    /\ BatchSize \in Nat \ {0}
    /\ MaxDeadLetters \in Nat
    /\ MaxFaults \in Nat

VARIABLES
    dlq,      \* the dead letter list, from head to tail
    main,     \* how many messages with each payload were added to the main queue
    pc,       \* where each call of redrive_dlq is
    toAdd,    \* the payloads of the batch still to be added
    toRem,    \* the payloads of the batch still to be removed from the list
    faults,   \* faults so far
    \* history
    pushed,   \* the dead letters pushed so far
    overlap   \* were two calls ever under way at once?

callVars == <<pc, toAdd, toRem>>
vars == <<dlq, main, pc, toAdd, toRem, faults, pushed, overlap>>

CallState == {"idle", "lrange", "add", "lrem"}

TypeOK ==
    /\ dlq \in Seq(Payloads)
    /\ main \in [Payloads -> Nat]
    /\ pc \in [Callers -> CallState]
    /\ toAdd \in [Callers -> Seq(Payloads)]
    /\ toRem \in [Callers -> Seq(Payloads)]
    /\ faults \in 0..MaxFaults
    /\ pushed \in Seq(Payloads)
    /\ overlap \in BOOLEAN

Count(l, p) == Cardinality({i \in DOMAIN l : l[i] = p})

-----------------------------------------------------------------------------
Init ==
    /\ dlq = <<>>
    /\ main = [p \in Payloads |-> 0]
    /\ pc = [c \in Callers |-> "idle"]
    /\ toAdd = [c \in Callers |-> <<>>]
    /\ toRem = [c \in Callers |-> <<>>]
    /\ faults = 0
    /\ pushed = <<>>
    /\ overlap = FALSE

\* nack or the background task gives up on a message: RPUSH.
DeadLetter(p) ==
    /\ Len(pushed) < MaxDeadLetters
    /\ dlq' = Append(dlq, p)
    /\ pushed' = Append(pushed, p)
    /\ UNCHANGED <<main, callVars, faults, overlap>>

\* redrive_dlq is called.
Call(c) ==
    /\ pc[c] = "idle"
    /\ pc' = [pc EXCEPT ![c] = "lrange"]
    /\ overlap' = (overlap \/ \E d \in Callers : pc[d] # "idle")
    /\ UNCHANGED <<dlq, main, toAdd, toRem, faults, pushed>>

\* LRANGE 0 BATCH_SIZE: the call returns when the list is empty.
LrangeWaits(c) ==
    /\ pc[c] = "lrange"
    /\ LET payloads == SubSeq(dlq, 1, IF Len(dlq) < BatchSize THEN Len(dlq) ELSE BatchSize)
       IN  /\ toAdd' = [toAdd EXCEPT ![c] = payloads]
           /\ toRem' = [toRem EXCEPT ![c] = payloads]
           /\ pc' = [pc EXCEPT ![c] = IF payloads = <<>> THEN "lrange" ELSE "add"]
    /\ UNCHANGED <<dlq, main, faults, pushed, overlap>>
Lrange(c) ==
    /\ pc[c] = "lrange"
    /\ LET payloads == SubSeq(dlq, 1, IF Len(dlq) < BatchSize THEN Len(dlq) ELSE BatchSize)
       IN  /\ toAdd' = [toAdd EXCEPT ![c] = payloads]
           /\ toRem' = [toRem EXCEPT ![c] = payloads]
           /\ pc' = [pc EXCEPT ![c] = IF payloads = <<>> THEN "idle" ELSE "add"]
    /\ UNCHANGED <<dlq, main, faults, pushed, overlap>>

\* add_to_main_queue: one XADD of the pipeline (for lists all is one LPUSH,
\* which is these steps with nothing in between).
AddToMainQueue(c) ==
    /\ pc[c] = "add"
    /\ main' = [main EXCEPT ![Head(toAdd[c])] = @ + 1]
    /\ toAdd' = [toAdd EXCEPT ![c] = Tail(@)]
    /\ pc' = [pc EXCEPT ![c] = IF Len(toAdd[c]) = 1 THEN "lrem" ELSE "add"]
    /\ UNCHANGED <<dlq, toRem, faults, pushed, overlap>>

\* LREM 1: the first that equals the next payload goes, if any does.  After the
\* last payload the loop starts again.
LremEvery(c) ==
    /\ pc[c] = "lrem"
    /\ dlq' = Remove(dlq, Head(toRem[c]))
    /\ toRem' = [toRem EXCEPT ![c] = Tail(@)]
    /\ pc' = [pc EXCEPT ![c] = IF Len(toRem[c]) = 1 THEN "lrange" ELSE "lrem"]
    /\ UNCHANGED <<main, toAdd, faults, pushed, overlap>>
LremNothing(c) ==
    /\ pc[c] = "lrem"
    /\ pc' = [pc EXCEPT ![c] = "lrange"]
    /\ toRem' = [toRem EXCEPT ![c] = <<>>]
    /\ UNCHANGED <<dlq, main, toAdd, faults, pushed, overlap>>
LremNext(c) ==
    /\ pc[c] = "lrem"
    /\ dlq' = RemoveFirst(dlq, Head(toRem[c]))
    /\ toRem' = [toRem EXCEPT ![c] = Tail(@)]
    /\ pc' = [pc EXCEPT ![c] = IF Len(toRem[c]) = 1 THEN "lrange" ELSE "lrem"]
    /\ UNCHANGED <<main, toAdd, faults, pushed, overlap>>

\* A command fails, the caller crashes or cancels the call.
CallFails(c) ==
    /\ pc[c] # "idle"
    /\ faults < MaxFaults
    /\ faults' = faults + 1
    /\ pc' = [pc EXCEPT ![c] = "idle"]
    /\ toAdd' = [toAdd EXCEPT ![c] = <<>>]
    /\ toRem' = [toRem EXCEPT ![c] = <<>>]
    /\ UNCHANGED <<dlq, main, pushed, overlap>>

Step(c) == Lrange(c) \/ AddToMainQueue(c) \/ LremNext(c)

Next ==
    \/ \E p \in Payloads : DeadLetter(p)
    \/ \E c \in Callers : Call(c) \/ Step(c) \/ CallFails(c)

Spec == Init /\ [][Next]_vars

\* A call that was made runs; nobody has to make one.
FairSpec == Spec /\ \A c \in Callers : WF_vars(Step(c))

-----------------------------------------------------------------------------
(* Properties *)

\* No dead letter is lost: of every payload there are at least as many messages
\* on the main queue or on the list as dead letters were pushed, although a
\* call may remove, by value, a dead letter it has never read.
RedriveLosesNothing ==
    \A p \in Payloads : main[p] + Count(dlq, p) >= Count(pushed, p)

\* Calls that do not overlap and do not fail add every dead letter once, even
\* if equal dead letters arrive meanwhile.
RedrivenOnce ==
    faults = 0 /\ ~overlap => \A p \in Payloads : main[p] <= Count(pushed, p)

\* A call ends: two calls do not keep each other busy.
RedriveEnds ==
    \A c \in Callers : pc[c] # "idle" ~> pc[c] = "idle"

-----------------------------------------------------------------------------
(* Why the invariants hold *)

\* The payloads of a batch are known by their place from its end, which stays the
\* same while the batch is added and removed from its beginning.
FromEnd(l, k) == l[Len(l) - k + 1]

\* The call c has added the k-th payload of its batch, which is p, and will still
\* remove it.
Owes(c, k, p) ==
    Len(toAdd[c]) < k /\ k <= Len(toRem[c]) /\ FromEnd(toRem[c], k) = p

Owed(p) == {x \in Callers \X (1..BatchSize) : Owes(x[1], x[2], p)}

\* What a call is about to do is what it has read.
CallsOK ==
    \A c \in Callers :
        /\ Len(toAdd[c]) <= Len(toRem[c]) /\ Len(toRem[c]) <= BatchSize
        /\ \A k \in 1..Len(toAdd[c]) : FromEnd(toAdd[c], k) = FromEnd(toRem[c], k)
        /\ pc[c] \in {"idle", "lrange"} => toRem[c] = <<>>
        /\ pc[c] = "add" => toAdd[c] # <<>>
        /\ pc[c] = "lrem" => toAdd[c] = <<>> /\ toRem[c] # <<>>

\* The surplus of copies covers every removal that is still to come, of all calls
\* together, so that none of them removes more than was added.
Covered ==
    \A p \in Payloads :
        /\ IsFiniteSet(Owed(p))
        /\ main[p] + Count(dlq, p) >= Count(pushed, p) + Cardinality(Owed(p))

\* A call that is alone finds what it has read where it has read it, and as long as
\* none fails the surplus is exact.
AloneOK ==
    ~overlap =>
        /\ \A c, d \in Callers : pc[c] # "idle" /\ pc[d] # "idle" => c = d
        /\ \A c \in Callers :
              Len(toRem[c]) <= Len(dlq) /\ \A i \in DOMAIN toRem[c] : toRem[c][i] = dlq[i]
        /\ faults = 0 => \A p \in Payloads :
              main[p] + Count(dlq, p) = Count(pushed, p) + Cardinality(Owed(p))

\* What calls remember of the list, and what they have added, fits what is there.
RedriveInv ==
    /\ TypeOK
    /\ CallsOK
    /\ Covered
    /\ AloneOK

=============================================================================
