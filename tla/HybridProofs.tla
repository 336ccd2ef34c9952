----------------------------- MODULE HybridProofs -----------------------------
(***************************************************************************)
(* What the hybrid server may expect of SrsWaitGroup, for any number of    *)
(* coroutines, servers and timers: its wait() and its destructor are safe  *)
(* because main is the only one who waits.                                 *)
(***************************************************************************)
EXTENDS Hybrid, FiniteSetTheorems, TLAPS

\* Only the owner of the group waits for it (SrsHybridServer::run).
Alone == Waiters = {Owner}

\* The sequence without its only element.
LEMMA RemoveOnly == ASSUME NEW x PROVE RemoveFirst(<<x>>, x) = <<>>
<1> DEFINE I == {i \in 1 .. Len(<<x>>) : <<x>>[i] = x}
<1>1. I = {1}
  OBVIOUS
<1>2. Min(I) = 1
  BY DEF Min
<1>3. SelectInSeq(<<x>>, LAMBDA v : v = x) = 1
  BY <1>2 DEF SelectInSeq
<1>4. RemoveAt(<<x>>, 1) = <<>>
  BY DEF RemoveAt
<1>5. \E i \in 1 .. Len(<<x>>) : <<x>>[i] = x
  OBVIOUS
<1> QED
  BY <1>3, <1>4 DEF RemoveFirst

-----------------------------------------------------------------------------
(* The inductive invariant *)

Added == {w \in Workers : worker[w] = "added"}
Points == {"start", "waiting", "returned", "destroying", "destroyed",
           "leaving", "unwinding", "unwound"}
Sleeping == pc[Owner] \in {"waiting", "destroying", "unwinding"}
Returned == pc[Owner] \in {"returned", "destroyed", "unwound"}

\* The counter counts.
Counted == IsFiniteSet(Added) /\ nn = Cardinality(Added)

Types ==
    /\ worker \in [Workers -> {"new", "added", "done"}]
    /\ pc \in [Waiters -> Points]
    /\ flag \in [Waiters -> BOOLEAN]
    /\ interrupts \in 0 .. MaxInterrupts

\* The owner is in the queue from its blocking call until it resumes; it stays
\* blocked only while the counter is positive.
Queued ==
    /\ wait_q = IF Sleeping THEN <<Owner>> ELSE <<>>
    /\ blocked \in {{}, {Owner}}
    /\ blocked = {Owner} => Sleeping /\ nn > 0

\* Whatever is not as it should be has used up an interrupt.
Blamed ==
    /\ flag[Owner] => interrupts > 0
    /\ Sleeping /\ blocked = {} /\ nn > 0 => interrupts > 0
    /\ Returned /\ nn > 0 => interrupts > 0

\* If there is only one, it has been used up when the destructor waits.
Once ==
    MaxInterrupts <= 1 =>
        /\ pc[Owner] = "returned" /\ nn > 0 => ~flag[Owner]
        /\ pc[Owner] = "destroying" => interrupts > 0
        /\ pc[Owner] = "destroying" /\ blocked = {} => nn = 0
        /\ pc[Owner] = "destroyed" => nn = 0

GInv == Counted /\ Types /\ Queued /\ Blamed /\ Once

LEMMA CountFacts ==
    ASSUME Counted
    PROVE  /\ nn \in Nat
           /\ nn = 0 <=> AllDone
           /\ \A w \in Workers : worker[w] = "added" => nn > 0
<1>1. nn \in Nat /\ (nn = 0 <=> Added = {})
  BY FS_CardinalityType, FS_EmptySet DEF Counted
<1> QED
  BY <1>1 DEF Added, AllDone

LEMMA GroupInit == ASSUME Alone, Init PROVE GInv
<1>1. Counted
  <2>1. Added = {}
    BY DEF Init, Added
  <2> QED
    BY <2>1, FS_EmptySet DEF Init, Counted
<1>2. Types /\ Queued /\ Blamed /\ Once
  BY WaitGroupAssumption DEF Init, Types, Points, Queued, Sleeping, Blamed, Once
<1> QED
  BY <1>1, <1>2 DEF GInv

LEMMA AddStep == ASSUME Alone, GInv, NEW w \in Workers, Add(w) PROVE GInv'
<1>1. nn \in Nat /\ (pc[Owner] = "start" \/ nn > 0)
  BY CountFacts DEF GInv, Add
<1>2. Counted'
  <2>1. Added' = Added \cup {w} /\ w \notin Added
    BY DEF GInv, Types, Add, Added
  <2> QED
    BY <2>1, FS_AddElement DEF GInv, Counted, Add
<1>3. Types' /\ Queued' /\ Blamed' /\ Once'
  BY <1>1 DEF GInv, Types, Queued, Sleeping, Returned, Blamed, Once, Add
<1> QED
  BY <1>2, <1>3 DEF GInv

LEMMA DoneStep == ASSUME Alone, GInv, NEW w \in Workers, Done(w) PROVE GInv'
<1>1. nn \in Nat /\ nn > 0
  BY CountFacts DEF GInv, Done
<1>2. Counted'
  <2>1. Added' = Added \ {w} /\ w \in Added
    BY DEF GInv, Types, Done, Added
  <2> QED
    BY <2>1, FS_RemoveElement DEF GInv, Counted, Done
<1>3. nn' = 0 => blocked' = {}
  <2> SUFFICES ASSUME nn' = 0, blocked = {Owner} PROVE blocked' = {}
    BY DEF GInv, Queued, Done
  <2>1. wait_q = <<Owner>>
    BY DEF GInv, Queued
  <2>2. Owner \in Signalled
    BY <2>1 DEF Signalled
  <2> QED
    BY <2>2 DEF Done
<1>4. nn' # 0 => blocked' = blocked
  BY <1>1 DEF Done
<1>5. Types' /\ Queued' /\ Blamed' /\ Once'
  BY <1>1, <1>3 DEF GInv, Types, Queued, Sleeping, Returned, Blamed, Once, Done
<1> QED
  BY <1>2, <1>5 DEF GInv

LEMMA WaitStep == ASSUME Alone, GInv, Wait(Owner) PROVE GInv'
<1>1. nn \in Nat /\ Owner \in Waiters
  BY CountFacts, WaitGroupAssumption DEF GInv
<1>2. Counted'
  BY DEF GInv, Counted, Added, Wait
<1>3. CASE nn > 0 /\ ~flag[Owner]
  <2>1. wait_q' = <<Owner>> /\ blocked' = {Owner}
    BY <1>3 DEF GInv, Queued, Sleeping, Wait
  <2>2. /\ pc[Owner] = "start" => pc'[Owner] = "waiting"
        /\ pc[Owner] = "returned" => pc'[Owner] = "destroying"
        /\ pc[Owner] = "leaving" => pc'[Owner] = "unwinding"
        /\ pc[Owner] \in {"start", "returned", "leaving"}
    BY <1>1, <1>3 DEF GInv, Types, Wait, Asleep
  <2>3. Types'
    BY <1>3, <2>2 DEF GInv, Types, Points, Wait
  <2>4. Queued' /\ Blamed' /\ Once'
    BY <2>1, <2>2 DEF GInv, Queued, Sleeping, Returned, Blamed, Once, Wait
  <2> QED
    BY <1>2, <2>3, <2>4 DEF GInv
<1>4. CASE ~(nn > 0 /\ ~flag[Owner])
  <2>1. wait_q' = wait_q /\ blocked' = blocked /\ blocked = {} /\ wait_q = <<>>
    BY <1>4 DEF GInv, Queued, Sleeping, Wait
  <2>2. /\ pc[Owner] = "start" => pc'[Owner] = "returned"
        /\ pc[Owner] = "returned" => pc'[Owner] = "destroyed"
        /\ pc[Owner] = "leaving" => pc'[Owner] = "unwound"
        /\ pc[Owner] \in {"start", "returned", "leaving"}
    BY <1>1, <1>4 DEF GInv, Types, Wait, AfterWait
  <2>3. Types'
    <3>1. pc' = [pc EXCEPT ![Owner] = AfterWait(Owner)]
      BY <1>4 DEF Wait
    <3>2. AfterWait(Owner) \in Points
      BY <2>2 DEF AfterWait, Points
    <3>3. pc' \in [Waiters -> Points]
      BY <3>1, <3>2 DEF GInv, Types
    <3>4. flag' \in [Waiters -> BOOLEAN]
      BY <1>4 DEF GInv, Types, Wait
    <3> QED
      BY <3>3, <3>4 DEF GInv, Types, Wait
  <2>4. /\ nn > 0 => ~flag'[Owner]
        /\ nn = 0 => flag' = flag
        /\ nn > 0 => flag[Owner]
    BY <1>1, <1>4 DEF GInv, Types, Wait
  <2>5. Queued' /\ Blamed' /\ Once'
    BY <1>1, <2>2, <2>4 DEF GInv, Queued, Sleeping, Blamed, Once, Wait
  <2> QED
    BY <1>2, <2>3, <2>5 DEF GInv
<1> QED
  BY <1>3, <1>4

LEMMA ResumeStep == ASSUME Alone, GInv, Resume(Owner) PROVE GInv'
<1>1. nn \in Nat /\ Owner \in Waiters
  BY CountFacts, WaitGroupAssumption DEF GInv
<1>2. Counted'
  BY DEF GInv, Counted, Added, Resume
<1>3. pc[Owner] \in {"waiting", "destroying", "unwinding"}
  BY DEF Resume, Range, Asleep
<1>4. wait_q' = <<>> /\ blocked = {} /\ blocked' = blocked
  BY <1>3, RemoveOnly DEF GInv, Queued, Sleeping, Resume
<1>5. /\ pc[Owner] = "waiting" => pc'[Owner] = "returned"
      /\ pc[Owner] = "destroying" => pc'[Owner] = "destroyed"
      /\ pc[Owner] = "unwinding" => pc'[Owner] = "unwound"
      /\ flag'[Owner] = FALSE
  BY <1>1 DEF GInv, Types, Resume, AfterWait
<1>6. Types'
  BY <1>3, <1>5 DEF GInv, Types, Points, Resume
<1>7. Queued' /\ Blamed' /\ Once'
  BY <1>3, <1>4, <1>5 DEF GInv, Queued, Sleeping, Blamed, Once, Resume
<1> QED
  BY <1>2, <1>6, <1>7 DEF GInv

LEMMA InterruptStep == ASSUME Alone, GInv, Interrupt(Owner) PROVE GInv'
<1>1. nn \in Nat /\ Owner \in Waiters /\ MaxInterrupts \in Nat
  BY CountFacts, WaitGroupAssumption DEF GInv
<1>2. Counted'
  BY DEF GInv, Counted, Added, Interrupt
<1>3. Types' /\ interrupts \in Nat /\ interrupts' = interrupts + 1 /\ interrupts < MaxInterrupts
  BY <1>1 DEF GInv, Types, Interrupt
<1>4. Queued' /\ Blamed' /\ Once'
  BY <1>1, <1>3 DEF GInv, Queued, Sleeping, Returned, Blamed, Once, Interrupt
<1> QED
  BY <1>2, <1>3, <1>4 DEF GInv

LEMMA LeaveStep == ASSUME Alone, GInv, Leave PROVE GInv'
<1>1. Counted'
  BY DEF GInv, Counted, Added, Leave
<1>2. Types' /\ Queued' /\ Blamed' /\ Once'
  BY DEF GInv, Types, Points, Queued, Sleeping, Returned, Blamed, Once, Leave
<1> QED
  BY <1>1, <1>2 DEF GInv

LEMMA GroupNext == ASSUME Alone, GInv, [Next]_vars PROVE GInv'
<1>1. CASE UNCHANGED vars
  BY <1>1 DEF vars, GInv, Counted, Added, Types, Queued, Sleeping, Returned, Blamed, Once
<1>2. CASE Next
  BY <1>2, AddStep, DoneStep, WaitStep, ResumeStep, InterruptStep, LeaveStep DEF Next, Alone
<1> QED
  BY <1>1, <1>2

LEMMA GroupInductive == ASSUME Alone PROVE Spec => []GInv
BY GroupInit, GroupNext, PTL DEF Spec

-----------------------------------------------------------------------------
(* The hybrid server uses the group *)

\* Main and the coroutines of the servers treat the group as WaitGroup says: they
\* add before main waits or from within the group (SrsHybridServer::run).
THEOREM HybridUsesGroup == HybridSpec => Spec
<1>1. HybridInit => Init
  BY DEF HybridInit
<1>2. [HybridNext]_hybridVars => [Next]_vars
  <2> SUFFICES ASSUME [HybridNext]_hybridVars PROVE [Next]_vars
    OBVIOUS
  <2>1. CASE UNCHANGED hybridVars
    BY <2>1 DEF hybridVars
  <2>2. CASE Main
    <3>1. CASE InitializeThreads \/ Configure \/ RunDirectly \/ StartTimer
               \/ InitializeServer \/ InitializeBreaker \/ Stop
      BY <3>1 DEF InitializeThreads, Configure, RunDirectly, StartTimer,
         InitializeServer, InitializeBreaker, Stop
    <3>2. CASE RunServer
      BY <3>2 DEF RunServer, Next
    <3>3. CASE WaitForServers \/ Resumes
      BY <3>3, WaitGroupAssumption DEF WaitForServers, Resumes, Next
    <3> QED
      BY <2>2, <3>1, <3>2, <3>3 DEF Main
  <2>3. CASE \E w \in Workers : ServerAdds(w) \/ Ends(w)
    BY <2>3 DEF ServerAdds, Ends, Next
  <2>4. CASE Interrupted
    BY <2>4, WaitGroupAssumption DEF Interrupted, Next
  <2> QED
    BY <2>1, <2>2, <2>3, <2>4 DEF HybridNext
<1> QED
  BY <1>1, <1>2, PTL DEF HybridSpec, Spec

\* The counter is the number of coroutines that run, and the queue holds main while
\* it waits (SrsWaitGroup::add, done and wait).
THEOREM GroupTypeCorrect == ASSUME Alone PROVE HybridSpec => []TypeOK
<1>1. ASSUME GInv PROVE TypeOK
  <2>1. nn \in Nat /\ Owner \in Waiters
    BY <1>1, CountFacts, WaitGroupAssumption DEF GInv
  <2>2. wait_q \in Seq(Waiters) /\ blocked \subseteq Waiters
    BY <1>1, <2>1 DEF GInv, Queued
  <2> QED
    BY <1>1, <2>1, <2>2 DEF GInv, Types, Points, TypeOK
<1> QED
  BY <1>1, HybridUsesGroup, GroupInductive, PTL

\* No wake-up is lost or goes elsewhere: main is only blocked while there is a
\* coroutine whose done() will wake it (SrsWaitGroup::done).
THEOREM WakeTheorem == ASSUME Alone PROVE HybridSpec => []NobodyBlockedAtZero
<1>1. GInv => NobodyBlockedAtZero
  BY CountFacts DEF GInv, Queued, NobodyBlockedAtZero
<1> QED
  BY <1>1, HybridUsesGroup, GroupInductive, PTL

\* wait() and the destructor return when all coroutines are done, unless somebody
\* interrupts main (SrsWaitGroup::wait).
THEOREM UndisturbedTheorem == ASSUME Alone PROVE HybridSpec => []UndisturbedWait
<1>1. GInv => UndisturbedWait
  BY CountFacts DEF GInv, Blamed, Returned, UndisturbedWait, WaitMeansDone, Alone
<1> QED
  BY <1>1, HybridUsesGroup, GroupInductive, PTL

\* One interrupt is not enough for the group to be destroyed while a coroutine will
\* still call done() (SrsWaitGroup::~SrsWaitGroup).
THEOREM DestroyTheorem ==
    ASSUME Alone, MaxInterrupts <= 1 PROVE HybridSpec => []NoDoneAfterDestroy
<1>1. GInv => NoDoneAfterDestroy
  BY CountFacts DEF GInv, Once, NoDoneAfterDestroy
<1> QED
  BY <1>1, HybridUsesGroup, GroupInductive, PTL
=============================================================================
