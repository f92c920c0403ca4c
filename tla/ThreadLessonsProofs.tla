------------------------ MODULE ThreadLessonsProofs ------------------------
(***************************************************************************)
(* Proofs about ThreadLessons, for any number of threads and rounds from   *)
(* two on: what is left of a race, that a lock loses no increment, what is *)
(* printed, and that no argument is older than the thread it was for.      *)
(***************************************************************************)
EXTENDS ThreadLessons, FiniteSetTheorems, TLAPS

-----------------------------------------------------------------------------
(* Counting increments.                                                    *)

LEMMA Products ==
  ASSUME NEW a \in Nat, NEW b \in Nat, NEW r \in Nat, a <= b
  PROVE  /\ a * r \in Nat
         /\ a * r <= b * r
<1>1. PICK d \in Nat : b = a + d
  <2> WITNESS b - a \in Nat
  <2> QED
    OBVIOUS
<1>2. a * r \in Nat /\ d * r \in Nat
  OBVIOUS
<1>3. b * r = a * r + d * r
  BY <1>1
<1> QED
  BY <1>2, <1>3

\* There are THREAD_COUNT * ROUNDS increments at most.
LEMMA Bounded ==
  ASSUME NEW S \in SUBSET (Thread \X (1..ROUNDS))
  PROVE  IsFiniteSet(S) /\ Cardinality(S) \in 0..TOTAL /\ TOTAL \in Nat
<1>1. /\ IsFiniteSet(Thread) /\ Cardinality(Thread) = THREAD_COUNT
      /\ IsFiniteSet(1..ROUNDS) /\ Cardinality(1..ROUNDS) = ROUNDS
  BY CountAssumption, FS_Interval DEF Thread
<1>2. /\ IsFiniteSet(Thread \X (1..ROUNDS))
      /\ Cardinality(Thread \X (1..ROUNDS)) = TOTAL
  BY <1>1, FS_Product DEF TOTAL
<1>3. IsFiniteSet(S) /\ Cardinality(S) <= TOTAL
  BY <1>2, FS_Subset
<1>4. Cardinality(S) \in Nat /\ TOTAL \in Nat
  BY <1>3, FS_CardinalityType, CountAssumption DEF TOTAL
<1> QED
  BY <1>3, <1>4

LEMMA CarriedBounded ==
  /\ IsFiniteSet(Thread) /\ Cardinality(Thread) = THREAD_COUNT
  /\ IsFiniteSet(Carried)
  /\ Increments \in 0..TOTAL /\ Increments \in Nat /\ TOTAL \in Nat
<1>1. Carried \in SUBSET (Thread \X (1..ROUNDS))
  BY DEF Carried
<1>2. IsFiniteSet(Thread) /\ Cardinality(Thread) = THREAD_COUNT
  BY CountAssumption, FS_Interval DEF Thread
<1> QED
  BY <1>1, <1>2, Bounded DEF Increments

\* A store of n increments adds n.
LEMMA CarriedGrows ==
  ASSUME left \in [Thread -> 0..ROUNDS],
         NEW t \in Thread, NEW n \in 1..left[t],
         left' = [left EXCEPT ![t] = left[t] - n]
  PROVE  Increments' = Increments + n
<1> DEFINE new == {t} \X ((left[t] - n + 1)..left[t])
<1>1. /\ ROUNDS \in Nat /\ left[t] \in 0..ROUNDS /\ n \in Nat
      /\ left'[t] = left[t] - n
      /\ \A u \in Thread : u # t => left'[u] = left[u]
  BY CountAssumption
<1>2. Carried' = Carried \cup new
  <2>1. ASSUME NEW u \in Thread, NEW k \in 1..ROUNDS
        PROVE  k > left'[u] <=> k > left[u] \/ <<u, k>> \in new
    <3>1. CASE u = t
      <4>1. <<u, k>> \in new <=> k \in (left[t] - n + 1)..left[t]
        BY <3>1
      <4> QED
        BY <1>1, <3>1, <4>1
    <3>2. CASE u # t
      BY <1>1, <3>2
    <3> QED
      BY <3>1, <3>2
  <2>2. new \subseteq Thread \X (1..ROUNDS)
    BY <1>1
  <2>3. ASSUME NEW e
        PROVE  e \in Carried' <=> e \in Carried \cup new
    <3>1. e \in Carried' <=> e \in Thread \X (1..ROUNDS) /\ e[2] > left'[e[1]]
      BY DEF Carried
    <3>2. e \in Carried <=> e \in Thread \X (1..ROUNDS) /\ e[2] > left[e[1]]
      BY DEF Carried
    <3>3. CASE e \in Thread \X (1..ROUNDS)
      <4>1. PICK u \in Thread, k \in 1..ROUNDS : e = <<u, k>>
        BY <3>3
      <4> HIDE DEF new
      <4> QED
        BY <2>1, <3>1, <3>2, <4>1
    <3>4. CASE e \notin Thread \X (1..ROUNDS)
      BY <2>2, <3>1, <3>2, <3>4
    <3> QED
      BY <3>3, <3>4
  <2> QED
    BY <2>3
<1>3. Carried \cap new = {}
  <2> SUFFICES ASSUME NEW e \in Carried, e \in new
               PROVE  FALSE
    OBVIOUS
  <2>1. e[1] = t /\ e[2] \in (left[t] - n + 1)..left[t]
    OBVIOUS
  <2>2. e[2] > left[t]
    BY <2>1 DEF Carried
  <2> QED
    BY <1>1, <2>1, <2>2
<1>4. IsFiniteSet(new) /\ Cardinality(new) = n
  <2>1. IsFiniteSet({t}) /\ Cardinality({t}) = 1
    BY FS_Singleton
  <2>2. /\ IsFiniteSet((left[t] - n + 1)..left[t])
        /\ Cardinality((left[t] - n + 1)..left[t]) = n
    <3>1. left[t] - n + 1 \in Int /\ left[t] \in Int /\ left[t] - n + 1 <= left[t]
      BY <1>1
    <3>2. /\ IsFiniteSet((left[t] - n + 1)..left[t])
          /\ Cardinality((left[t] - n + 1)..left[t])
               = IF left[t] - n + 1 > left[t] THEN 0 ELSE left[t] - (left[t] - n + 1) + 1
      BY <3>1, FS_Interval
    <3> QED
      BY <1>1, <3>1, <3>2
  <2>3. Cardinality(new) = 1 * n /\ IsFiniteSet(new)
    BY <2>1, <2>2, FS_Product
  <2> QED
    BY <1>1, <2>3
<1>5. IsFiniteSet(Carried) /\ Cardinality(Carried) \in Nat
  BY CarriedBounded, FS_CardinalityType
<1>6. Cardinality(Carried \cup new)
        = Cardinality(Carried) + Cardinality(new) - Cardinality(Carried \cap new)
  BY <1>4, <1>5, FS_Union
<1>7. Cardinality(Carried \cap new) = 0
  BY <1>3, FS_EmptySet
<1> HIDE DEF new
<1> QED
  BY <1>1, <1>2, <1>4, <1>5, <1>6, <1>7 DEF Increments

\* The threads that have finished their loops.
Through == {t \in Thread : left[t] = 0}

\* Each of them has carried out all of its increments.
LEMMA ThroughCounted ==
  ASSUME left \in [Thread -> 0..ROUNDS]
  PROVE  /\ IsFiniteSet(Through) /\ Cardinality(Through) \in Nat
         /\ Cardinality(Through) * ROUNDS <= Increments
<1>1. IsFiniteSet(Through) /\ Cardinality(Through) \in Nat
  BY CarriedBounded, FS_Subset, FS_CardinalityType DEF Through
<1>2. IsFiniteSet(1..ROUNDS) /\ Cardinality(1..ROUNDS) = ROUNDS
  BY CountAssumption, FS_Interval
<1>3. Cardinality(Through \X (1..ROUNDS)) = Cardinality(Through) * ROUNDS
  BY <1>1, <1>2, FS_Product
<1>4. Through \X (1..ROUNDS) \in SUBSET Carried
  <2> SUFFICES ASSUME NEW t \in Through, NEW k \in 1..ROUNDS
               PROVE  <<t, k>> \in Carried
    OBVIOUS
  <2>1. t \in Thread /\ left[t] = 0 /\ k > 0
    BY CountAssumption DEF Through
  <2> QED
    BY <2>1 DEF Carried
<1>5. Cardinality(Through \X (1..ROUNDS)) <= Increments
  BY <1>4, CarriedBounded, FS_Subset DEF Increments
<1> QED
  BY <1>1, <1>3, <1>5

\* There are no more threads than main creates in any of the programs.
LEMMA ThreadsCounted ==
  /\ Threads \subseteq Thread
  /\ Cardinality(Threads) \in 1..THREAD_COUNT
  /\ program = "semaphores" => Cardinality(Threads) = 2
<1>1. Cardinality(Thread) = THREAD_COUNT
  BY CountAssumption, FS_Interval DEF Thread
<1>2. IsFiniteSet({0}) /\ Cardinality({0}) = 1
  BY FS_Singleton
<1>3. Cardinality({0} \cup {1}) = 2
  <2>1. Cardinality({0} \cup {1}) = IF 1 \in {0} THEN Cardinality({0}) ELSE Cardinality({0}) + 1
    BY <1>2, FS_AddElement
  <2> QED
    BY <1>2, <2>1
<1>4. {0} \cup {1} = {0, 1}
  OBVIOUS
<1>5. CASE program = "semaphores"
  <2>1. Threads = {0} \cup {1}
    BY <1>4, <1>5 DEF Threads
  <2> QED
    BY <1>3, <2>1, CountAssumption DEF Thread
<1>6. CASE program # "semaphores"
  <2>1. Threads = Thread
    BY <1>6 DEF Threads
  <2> QED
    BY <1>1, <1>6, <2>1, CountAssumption
<1> QED
  BY <1>5, <1>6

-----------------------------------------------------------------------------
(* The inductive invariant.                                                *)

LEMMA InitIInv == Init => IInv
<1> SUFFICES ASSUME Init
             PROVE  IInv
  OBVIOUS
<1>1. left \in [Thread -> 0..ROUNDS] /\ \A t \in Thread : left[t] = ROUNDS
  BY CountAssumption DEF Init
<1>2. Increments = 0
  <2>1. Carried = {}
    BY <1>1, CountAssumption DEF Carried
  <2> QED
    BY <2>1, FS_EmptySet DEF Increments
<1>3. /\ 0 \in Thread /\ 0 \in 0..TOTAL /\ 0 \in 0..THREAD_COUNT
      /\ ROUNDS \in Nat /\ ROUNDS # 0
  BY CountAssumption, CarriedBounded, <1>1, <1>2 DEF Thread
<1>4. TypeOK
  BY <1>1, <1>3 DEF Init, TypeOK, Main, At
<1>5. ThreadsInOrder
  BY ThreadsCounted DEF Init, ThreadsInOrder, Thread
<1>6. LockProtects
  BY <1>2, CountAssumption DEF Init, LockProtects, Thread
<1>7. LoopsCounted
  BY <1>1, <1>3 DEF Init, LoopsCounted
<1>8. RaceLeaves
  BY <1>1, <1>2, <1>3 DEF Init, RaceLeaves
<1>9. EventKept
  BY CountAssumption DEF Init, EventKept, Thread, WAITER
<1>10. PrintsWhatIsDone /\ ArgNotOlder
  <2>1. Done = {}
    BY CountAssumption DEF Init, Done, Threads, Thread
  <2> QED
    BY <2>1, FS_EmptySet DEF PrintsWhatIsDone, ArgNotOlder
<1> QED
  BY <1>4, <1>5, <1>6, <1>7, <1>8, <1>9, <1>10 DEF IInv

\* Main's steps, between the creation of the first thread and the end.
LEMMA MainKeepsIInv ==
  ASSUME IInv, Create \/ CreateFails \/ Created \/ End
  PROVE  IInv'
<1> USE DEF IInv
<1>1. UNCHANGED <<program, counter, reg, left, lock, sem, printed>>
  BY DEF Create, CreateFails, Created, End, memory
<1>2. Carried' = Carried /\ Increments' = Increments /\ Threads' = Threads
  BY <1>1 DEF Carried, Increments, Threads
<1>3. /\ created \in Nat /\ created <= Cardinality(Threads)
      /\ Cardinality(Threads) \in Nat /\ Cardinality(Threads) <= THREAD_COUNT
      /\ THREAD_COUNT \in Nat
      /\ at \in [Thread -> At]
      /\ program \in Program /\ arg1 \in Thread
  BY ThreadsCounted, CountAssumption DEF TypeOK, ThreadsInOrder
<1>4. CASE Create
  <2>1. /\ created < Cardinality(Threads) /\ created' = created + 1
        /\ arg1' = created /\ main' = main
        /\ at' = [at EXCEPT ![created] = First(created)]
    BY <1>4 DEF Create, Goto, Arg
  <2>2. created \in Thread /\ created + 1 \in 0..THREAD_COUNT /\ at[created] = "new"
    <3>1. created \in Thread /\ created + 1 \in 0..THREAD_COUNT /\ ~ (created < created)
      BY <1>3, <2>1 DEF Thread
    <3> QED
      BY <3>1 DEF ThreadsInOrder
  <2>3. /\ First(created) \in Places(created)
        /\ First(created) \in At
        /\ First(created) \notin {"new", "unlock", "print", "done", "store"}
        /\ program \in Locking => First(created) = "lock"
    <3>1. CASE program = "race"
      BY <3>1 DEF First, Places, Locking, At, WAITER
    <3>2. CASE program \in Locking
      BY <3>2 DEF First, Places, Locking, At, WAITER
    <3>3. CASE program = "basics"
      BY <3>3 DEF First, Places, Locking, At, WAITER
    <3>4. CASE program = "semaphores"
      BY <3>4 DEF First, Places, Locking, At, WAITER
    <3> QED
      BY <1>3, <3>1, <3>2, <3>3, <3>4 DEF Program, Locking
  <2>4. /\ \A u \in Thread : u # created => at'[u] = at[u]
        /\ at'[created] = First(created)
        /\ at' \in [Thread -> At]
    BY <1>3, <2>1, <2>2, <2>3
  <2>5. TypeOK'
    BY <1>1, <2>1, <2>2, <2>4 DEF TypeOK
  <2>6. ThreadsInOrder'
    <3>1. \A u \in Thread : Places(u)' = Places(u)
      BY <1>1 DEF Places
    <3>2. \A u \in Thread : u < created' <=> u < created \/ u = created
      BY <1>3, <2>1 DEF Thread
    <3>3. created' <= Cardinality(Threads)' /\ arg1' >= created' - 1
      BY <1>2, <1>3, <2>1
    <3>4. ASSUME NEW u \in Thread
          PROVE  IF u < created' THEN at'[u] \in Places(u)' ELSE at'[u] = "new"
      <4>1. CASE u = created
        BY <2>3, <2>4, <3>1, <3>2, <4>1
      <4>2. CASE u # created
        BY <2>4, <3>1, <3>2, <4>2 DEF ThreadsInOrder
      <4> QED
        BY <4>1, <4>2
    <3> QED
      BY <3>3, <3>4 DEF ThreadsInOrder
  <2>7. LockProtects'
    BY <1>1, <1>2, <2>2, <2>3, <2>4 DEF LockProtects
  <2>8. LoopsCounted'
    BY <1>1, <2>2, <2>3, <2>4 DEF LoopsCounted
  <2>9. RaceLeaves'
    BY <1>1, <1>2, <2>2, <2>3, <2>4 DEF RaceLeaves
  <2>10. EventKept'
    <3>1. WAITER \in Thread /\ 1 \in Thread
      BY CountAssumption DEF Thread, WAITER
    <3>2. \A u \in Thread : at'[u] = "done" <=> at[u] = "done"
      BY <2>2, <2>3, <2>4
    <3> QED
      BY <1>1, <3>1, <3>2 DEF EventKept
  <2>11. Done' = Done
    BY <1>2, <2>2, <2>3, <2>4, ThreadsCounted DEF Done
  <2>12. PrintsWhatIsDone' /\ ArgNotOlder'
    BY <1>1, <2>11 DEF PrintsWhatIsDone, ArgNotOlder
  <2> QED
    BY <2>5, <2>6, <2>7, <2>8, <2>9, <2>10, <2>12
<1>5. CASE CreateFails \/ Created \/ End
  <2>1. /\ UNCHANGED <<created, at>> /\ main' \in Main
        /\ arg1' = arg1 \/ (arg1' = created /\ created < Cardinality(Threads))
    BY <1>5 DEF CreateFails, Created, End, Main, Arg
  <2>2. arg1' \in Thread /\ arg1' >= created - 1
    <3>1. created < Cardinality(Threads) => created \in Thread
      BY <1>3 DEF Thread
    <3> QED
      BY <1>3, <2>1, <3>1 DEF ThreadsInOrder
  <2>3. TypeOK'
    BY <1>1, <2>1, <2>2 DEF TypeOK
  <2>4. ThreadsInOrder'
    BY <1>1, <1>2, <2>1, <2>2 DEF ThreadsInOrder, Places
  <2>5. LockProtects' /\ LoopsCounted' /\ RaceLeaves' /\ EventKept'
    BY <1>1, <1>2, <2>1 DEF LockProtects, LoopsCounted, RaceLeaves, EventKept
  <2>6. Done' = Done
    BY <1>2, <2>1 DEF Done
  <2>7. PrintsWhatIsDone' /\ ArgNotOlder'
    BY <1>1, <2>6 DEF PrintsWhatIsDone, ArgNotOlder
  <2> QED
    BY <2>3, <2>4, <2>5, <2>7
<1> QED
  BY <1>4, <1>5

\* Where a thread is says which program runs.
LEMMA PlaceTells ==
  ASSUME IInv, NEW t \in Thread, at[t] # "new"
  PROVE  /\ at[t] \in Places(t) /\ Places(t) \subseteq At /\ "done" \in Places(t)
         /\ at[t] \in {"lock", "unlock"} => program \in Locking
         /\ at[t] \in {"load", "store", "print"} => program \in Counting
         /\ at[t] = "arg" => program = "basics"
         /\ at[t] = "wait" => program = "semaphores" /\ t = WAITER
         /\ at[t] = "post" => program = "semaphores" /\ t = 1
<1>1. at[t] \in Places(t) /\ t < created
  BY DEF IInv, ThreadsInOrder
<1>2. program \in Program
  BY DEF IInv, TypeOK
<1>3. CASE program = "race"
  BY <1>1, <1>3 DEF Places, At, Locking, Counting
<1>4. CASE program \in Locking
  BY <1>1, <1>4 DEF Places, At, Locking, Counting
<1>5. CASE program = "basics"
  BY <1>1, <1>5 DEF Places, At, Locking, Counting
<1>6. CASE program = "semaphores"
  <2>1. created <= 2 /\ created \in Nat /\ t \in Nat
    BY <1>6, ThreadsCounted, CountAssumption DEF IInv, ThreadsInOrder, TypeOK, Thread
  <2>2. t = WAITER \/ t = 1
    BY <1>1, <2>1 DEF WAITER
  <2>3. CASE t = WAITER
    BY <1>1, <1>6, <2>3 DEF Places, At, Locking, Counting
  <2>4. CASE t = 1 /\ t # WAITER
    BY <1>1, <1>6, <2>4 DEF Places, At, Locking, Counting
  <2> QED
    BY <2>2, <2>3, <2>4
<1> QED
  BY <1>2, <1>3, <1>4, <1>5, <1>6 DEF Program, Locking

\* A thread goes on within its own code.
LEMMA ThreadGoes ==
  ASSUME IInv, NEW t \in Thread, at[t] # "new", NEW label \in Places(t),
         Goto(t, label), UNCHANGED <<program, created, arg1>>
  PROVE  /\ at' \in [Thread -> At]
         /\ at'[t] = label
         /\ \A u \in Thread : u # t => at'[u] = at[u]
         /\ Threads' = Threads
         /\ ThreadsInOrder'
<1>1. at \in [Thread -> At] /\ label \in At
  BY PlaceTells DEF IInv, TypeOK
<1>2. /\ at' \in [Thread -> At]
      /\ at'[t] = label
      /\ \A u \in Thread : u # t => at'[u] = at[u]
  BY <1>1 DEF Goto
<1>3. Threads' = Threads /\ \A u \in Thread : Places(u)' = Places(u)
  BY DEF Threads, Places
<1>4. ASSUME NEW u \in Thread
      PROVE  IF u < created THEN at'[u] \in Places(u) ELSE at'[u] = "new"
  <2>1. CASE u = t
    BY <1>2, <2>1 DEF IInv, ThreadsInOrder
  <2>2. CASE u # t
    BY <1>2, <2>2 DEF IInv, ThreadsInOrder
  <2> QED
    BY <2>1, <2>2
<1>5. ThreadsInOrder'
  BY <1>3, <1>4 DEF IInv, ThreadsInOrder
<1> QED
  BY <1>2, <1>3, <1>5

\* Taking and releasing the lock.
LEMMA LockingKeepsIInv ==
  ASSUME IInv, NEW t \in Thread, Lock(t) \/ Unlock(t)
  PROVE  IInv'
<1> USE DEF IInv
<1>1. /\ UNCHANGED <<program, main, created, counter, reg, left, sem, arg1, printed>>
      /\ program \in Locking /\ at[t] \in {"lock", "unlock"}
      /\ at[t] \in Places(t) /\ "done" \in Places(t)
  BY PlaceTells DEF Lock, Unlock, Runs, memory
<1>2. Carried' = Carried /\ Increments' = Increments
  BY <1>1 DEF Carried, Increments
<1>3. PICK label \in {"load", "print"} :
        /\ Goto(t, label)
        /\ label = "load" => at[t] = "lock" /\ lock = None /\ lock' = t
        /\ label = "print" => at[t] = "unlock" /\ lock' = None
  BY DEF Lock, Unlock, Runs
<1>4. label \in Places(t)
  BY <1>1, <1>3 DEF Places, Locking
<1>5. /\ at' \in [Thread -> At] /\ at'[t] = label
      /\ \A u \in Thread : u # t => at'[u] = at[u]
      /\ Threads' = Threads /\ ThreadsInOrder'
  BY <1>1, <1>3, <1>4, ThreadGoes
<1>6. lock' \in Thread \cup {None} /\ t # None
  BY <1>3, CountAssumption DEF Thread
<1>7. TypeOK'
  BY <1>1, <1>5, <1>6 DEF TypeOK
<1>8. LockProtects'
  <2>1. ASSUME NEW u \in Thread
        PROVE  at'[u] \in {"load", "store", "unlock"} <=> lock' = u
    <3>1. u # None
      BY CountAssumption DEF Thread
    <3>2. CASE label = "load"
      BY <1>1, <1>3, <1>5, <3>1, <3>2 DEF LockProtects
    <3>3. CASE label = "print"
      BY <1>1, <1>3, <1>5, <3>1, <3>3 DEF LockProtects
    <3> QED
      BY <3>2, <3>3
  <2> QED
    BY <1>1, <1>2, <1>3, <1>5, <2>1 DEF LockProtects
<1>9. LoopsCounted'
  <2>1. ROUNDS # 0
    BY CountAssumption
  <2> QED
    BY <1>1, <1>3, <1>5, <2>1 DEF LoopsCounted
<1>10. RaceLeaves'
  BY <1>1, <1>2, <1>3, <1>5 DEF RaceLeaves, Locking
<1>11. EventKept'
  BY <1>1, <1>5 DEF EventKept, Locking
<1>12. Done' = Done
  BY <1>1, <1>3, <1>5, ThreadsCounted DEF Done
<1>13. PrintsWhatIsDone' /\ ArgNotOlder'
  BY <1>1, <1>12 DEF PrintsWhatIsDone, ArgNotOlder
<1> QED
  BY <1>5, <1>7, <1>8, <1>9, <1>10, <1>11, <1>13

\* Loading the count.
LEMMA LoadKeepsIInv ==
  ASSUME IInv, NEW t \in Thread, Load(t)
  PROVE  IInv'
<1> USE DEF IInv
<1>1. /\ UNCHANGED <<program, main, created, counter, left, lock, sem, arg1, printed>>
      /\ program \in Counting /\ at[t] = "load" /\ Goto(t, "store")
      /\ at[t] \in Places(t)
  BY PlaceTells DEF Load, Runs
<1>2. Carried' = Carried /\ Increments' = Increments
  BY <1>1 DEF Carried, Increments
<1>3. "store" \in Places(t)
  BY <1>1 DEF Places, Counting, Locking
<1>4. /\ at' \in [Thread -> At] /\ at'[t] = "store"
      /\ \A u \in Thread : u # t => at'[u] = at[u]
      /\ Threads' = Threads /\ ThreadsInOrder'
  BY <1>1, <1>3, ThreadGoes
<1>5. /\ reg' \in [Thread -> 0..TOTAL] /\ reg'[t] = counter
      /\ \A u \in Thread : u # t => reg'[u] = reg[u]
  BY DEF Load, TypeOK
<1>6. TypeOK'
  BY <1>1, <1>4, <1>5 DEF TypeOK
<1>7. LockProtects'
  BY <1>1, <1>2, <1>4, <1>5 DEF LockProtects
<1>8. LoopsCounted'
  BY <1>1, <1>4 DEF LoopsCounted
<1>9. RaceLeaves'
  BY <1>1, <1>2, <1>4, <1>5 DEF RaceLeaves
<1>10. EventKept'
  BY <1>1, <1>4 DEF EventKept, Counting, Locking
<1>11. Done' = Done
  BY <1>1, <1>4, ThreadsCounted DEF Done
<1>12. PrintsWhatIsDone' /\ ArgNotOlder'
  BY <1>1, <1>11 DEF PrintsWhatIsDone, ArgNotOlder
<1> QED
  BY <1>4, <1>6, <1>7, <1>8, <1>9, <1>10, <1>12

\* Storing the count, for one increment or all that are left.
LEMMA StoreKeepsIInv ==
  ASSUME IInv, NEW t \in Thread, Store(t)
  PROVE  IInv'
<1> USE DEF IInv
<1> DEFINE label == IF left'[t] = 0 THEN AfterLoop ELSE "load"
<1>1. /\ UNCHANGED <<program, main, created, reg, lock, sem, arg1, printed>>
      /\ program \in Counting /\ at[t] = "store" /\ Goto(t, label)
      /\ at[t] \in Places(t)
  BY PlaceTells DEF Store, Runs
<1>2. PICK n \in {1, left[t]} :
        /\ counter' = reg[t] + n
        /\ left' = [left EXCEPT ![t] = left[t] - n]
  BY DEF Store, Merged
<1>3. /\ left[t] \in 1..ROUNDS /\ ROUNDS \in Nat /\ ROUNDS >= 2
      /\ reg[t] \in Nat /\ counter \in Nat
      /\ left \in [Thread -> 0..ROUNDS]
  <2>1. left[t] # 0
    BY <1>1 DEF LoopsCounted
  <2> QED
    BY <2>1, CountAssumption, CarriedBounded DEF TypeOK
<1>4. n \in 1..left[t]
  BY <1>2, <1>3
<1>5. /\ left' \in [Thread -> 0..ROUNDS] /\ left'[t] = left[t] - n
      /\ \A u \in Thread : u # t => left'[u] = left[u]
  BY <1>2, <1>3, <1>4
<1>6. /\ Increments' = Increments + n
      /\ Increments \in Nat /\ TOTAL \in Nat /\ n \in Nat /\ n >= 1
  <2>1. Increments' = Increments + n
    BY <1>2, <1>3, <1>4, CarriedGrows
  <2> QED
    BY <1>3, <1>4, <2>1, CarriedBounded
<1>7. Increments' \in 0..TOTAL
  <2>1. Carried' \in SUBSET (Thread \X (1..ROUNDS))
    BY DEF Carried
  <2>2. Cardinality(Carried') \in 0..TOTAL
    BY <2>1, Bounded
  <2> QED
    BY <2>2 DEF Increments
<1>8. /\ label \in Places(t)
      /\ label \in {"load", "unlock", "print"}
      /\ label = "load" <=> left'[t] # 0
      /\ label = "unlock" => program \in Locking
      /\ label = "print" => program \notin Locking
  BY <1>1 DEF AfterLoop, Places, Counting, Locking
<1> HIDE DEF label
<1>9. /\ at' \in [Thread -> At] /\ at'[t] = label
      /\ \A u \in Thread : u # t => at'[u] = at[u]
      /\ Threads' = Threads /\ ThreadsInOrder'
  BY <1>1, <1>8, ThreadGoes
<1>10. LockProtects'
  <2>1. CASE program \in Locking
    <3>1. lock = t /\ reg[t] = counter /\ counter = Increments
      BY <1>1, <2>1 DEF LockProtects
    <3>2. \A u \in Thread : u # t => at'[u] \notin {"load", "store", "unlock"}
      BY <1>9, <2>1, <3>1 DEF LockProtects
    <3>3. label \in {"load", "unlock"}
      BY <1>8, <2>1
    <3> QED
      BY <1>1, <1>2, <1>6, <1>9, <2>1, <3>1, <3>2, <3>3 DEF LockProtects
  <2>2. CASE program \notin Locking
    BY <1>1, <2>2 DEF LockProtects
  <2> QED
    BY <2>1, <2>2
<1>11. LoopsCounted'
  BY <1>1, <1>5, <1>8, <1>9 DEF LoopsCounted
<1>12. counter' <= Increments' /\ \A u \in Thread : reg'[u] <= Increments'
  BY <1>1, <1>2, <1>3, <1>6 DEF RaceLeaves, TypeOK
<1>13. RaceLeaves'
  <2>1. counter' >= 1
    BY <1>2, <1>3, <1>6
  <2>2. ASSUME program = "race", NEW u \in Thread, at'[u] = "store", left'[u] < ROUNDS
        PROVE  reg'[u] >= 1
    BY <1>1, <1>5, <1>8, <1>9, <2>2 DEF RaceLeaves
  <2>3. ASSUME program = "race", \A u \in Thread : left'[u] = 0
        PROVE  counter' >= 2
    <3>1. n = left[t]
      BY <1>3, <1>4, <1>5, <2>3
    <3>2. CASE left[t] = ROUNDS
      BY <1>2, <1>3, <3>1, <3>2
    <3>3. CASE left[t] # ROUNDS
      <4>1. reg[t] >= 1
        BY <1>1, <1>3, <2>3, <3>3 DEF RaceLeaves
      <4> QED
        BY <1>2, <1>3, <1>6, <4>1
    <3> QED
      BY <3>2, <3>3
  <2> QED
    BY <1>1, <1>12, <2>1, <2>2, <2>3 DEF RaceLeaves
<1>14. TypeOK'
  <2>1. counter' \in Nat
    BY <1>2, <1>3, <1>6
  <2>2. counter' \in 0..TOTAL
    BY <1>6, <1>7, <1>12, <2>1
  <2> QED
    BY <1>1, <1>5, <1>9, <2>2 DEF TypeOK
<1>15. EventKept'
  BY <1>1, <1>8, <1>9 DEF EventKept, Counting, Locking
<1>16. Done' = Done
  BY <1>1, <1>8, <1>9, ThreadsCounted DEF Done
<1>17. PrintsWhatIsDone' /\ ArgNotOlder'
  BY <1>1, <1>16 DEF PrintsWhatIsDone, ArgNotOlder
<1> QED
  BY <1>9, <1>10, <1>11, <1>13, <1>14, <1>15, <1>17

\* A locked count that is printed counts the whole loops of every thread that is
\* through, the one that prints it among them.
LEMMA PrintKeepsIInv ==
  ASSUME IInv, NEW t \in Thread, PrintCount(t)
  PROVE  IInv'
<1> USE DEF IInv
<1>1. /\ UNCHANGED <<program, main, created, counter, reg, left, lock, sem, arg1>>
      /\ program \in Counting /\ at[t] = "print" /\ Goto(t, "done")
      /\ "done" \in Places(t)
  BY PlaceTells DEF PrintCount, Runs, memory
<1>2. Carried' = Carried /\ Increments' = Increments
  BY <1>1 DEF Carried, Increments
<1>3. /\ at' \in [Thread -> At] /\ at'[t] = "done"
      /\ \A u \in Thread : u # t => at'[u] = at[u]
      /\ Threads' = Threads /\ ThreadsInOrder'
  BY <1>1, ThreadGoes
<1>4. /\ printed' \in [Thread -> 0..TOTAL \cup {None}] /\ printed'[t] = counter
      /\ \A u \in Thread : u # t => printed'[u] = printed[u]
      /\ counter \in 0..TOTAL /\ counter \in Nat /\ counter # None
  BY CarriedBounded, CountAssumption DEF PrintCount, CountSeen, TypeOK, TOTAL
<1>5. TypeOK'
  BY <1>1, <1>3, <1>4 DEF TypeOK
<1>6. LockProtects'
  BY <1>1, <1>2, <1>3 DEF LockProtects
<1>7. LoopsCounted'
  BY <1>1, <1>3, <1>4 DEF LoopsCounted
<1>8. RaceLeaves'
  BY <1>1, <1>2, <1>3 DEF RaceLeaves
<1>9. EventKept'
  BY <1>1, <1>3 DEF EventKept, Counting, Locking
<1>10. PrintsWhatIsDone'
  <2> SUFFICES ASSUME program \in Locking, NEW k \in 1..THREAD_COUNT
               PROVE  Cardinality({u \in Done' : printed'[u] < k * ROUNDS}) < k
    BY <1>1 DEF PrintsWhatIsDone
  <2> DEFINE less == {u \in Done : printed[u] < k * ROUNDS}
             lessNow == {u \in Done' : printed'[u] < k * ROUNDS}
  <2>1. /\ Threads = Thread
        /\ Done' = Done \cup {t} /\ t \notin Done
        /\ Done' \subseteq Through
    <3>1. Threads = Thread
      BY DEF Threads, Locking
    <3> QED
      BY <1>1, <1>3, <3>1 DEF Done, LoopsCounted, Through
  <2>2. /\ IsFiniteSet(Through) /\ Cardinality(Through) \in Nat
        /\ Cardinality(Through) * ROUNDS <= counter
        /\ k \in Nat /\ ROUNDS \in Nat
    BY ThroughCounted, CountAssumption DEF TypeOK, LockProtects
  <2>3. CASE counter < k * ROUNDS
    <3>1. Cardinality(Through) < k
      <4> SUFFICES ASSUME k <= Cardinality(Through)
                   PROVE  FALSE
        BY <2>2
      <4>1. k * ROUNDS <= Cardinality(Through) * ROUNDS
        BY <2>2, Products
      <4>2. k * ROUNDS \in Nat /\ Cardinality(Through) * ROUNDS \in Nat
        BY <2>2, Products
      <4> QED
        BY <1>4, <2>2, <2>3, <4>1, <4>2
    <3>2. lessNow \in SUBSET Through
      BY <2>1
    <3>3. Cardinality(lessNow) <= Cardinality(Through) /\ Cardinality(lessNow) \in Nat
      BY <2>2, <3>2, FS_Subset, FS_CardinalityType
    <3> QED
      BY <2>2, <3>1, <3>3
  <2>4. CASE ~ (counter < k * ROUNDS)
    <3>1. lessNow = less
      BY <1>4, <2>1, <2>4 DEF Done
    <3> QED
      BY <3>1 DEF PrintsWhatIsDone
  <2> QED
    BY <2>3, <2>4
<1>11. ArgNotOlder'
  BY <1>1 DEF ArgNotOlder, Counting, Locking
<1> QED
  BY <1>3, <1>5, <1>6, <1>7, <1>8, <1>9, <1>10, <1>11

\* The argument a thread prints is that of its own creation or a later one.
LEMMA ArgKeepsIInv ==
  ASSUME IInv, NEW t \in Thread, PrintArg(t)
  PROVE  IInv'
<1> USE DEF IInv
<1>1. /\ UNCHANGED <<program, main, created, counter, reg, left, lock, sem, arg1>>
      /\ program = "basics" /\ at[t] = "arg" /\ Goto(t, "done")
      /\ "done" \in Places(t)
  BY PlaceTells DEF PrintArg, Runs, memory
<1>2. Carried' = Carried /\ Increments' = Increments
  BY <1>1 DEF Carried, Increments
<1>3. /\ at' \in [Thread -> At] /\ at'[t] = "done"
      /\ \A u \in Thread : u # t => at'[u] = at[u]
      /\ Threads' = Threads /\ ThreadsInOrder'
  BY <1>1, ThreadGoes
<1>4. arg1 \in 0..TOTAL /\ arg1 >= t
  <2>1. t < created
    BY <1>1 DEF ThreadsInOrder
  <2>2. THREAD_COUNT \in Nat /\ 1 \in Nat /\ ROUNDS \in Nat /\ 1 <= ROUNDS
    BY CountAssumption
  <2>3. 1 * THREAD_COUNT <= ROUNDS * THREAD_COUNT
    BY <2>2, Products
  <2>4. THREAD_COUNT <= TOTAL
    BY <2>2, <2>3 DEF TOTAL
  <2> QED
    BY <2>1, <2>2, <2>4, CarriedBounded DEF TypeOK, ThreadsInOrder, Thread
<1>5. /\ printed' \in [Thread -> 0..TOTAL \cup {None}]
      /\ printed'[t] \in {None, arg1}
      /\ \A u \in Thread : u # t => printed'[u] = printed[u]
  BY <1>4 DEF PrintArg, TypeOK
<1>6. TypeOK'
  BY <1>1, <1>3, <1>5 DEF TypeOK
<1>7. LockProtects' /\ LoopsCounted'
  BY <1>1, <1>2, <1>3 DEF LockProtects, LoopsCounted, Counting, Locking
<1>8. RaceLeaves' /\ EventKept'
  BY <1>1, <1>2, <1>3 DEF RaceLeaves, EventKept
<1>9. PrintsWhatIsDone'
  BY <1>1 DEF PrintsWhatIsDone, Locking
<1>10. ArgNotOlder'
  <2>1. Done' = Done \cup {t}
    BY <1>1, <1>3 DEF Done, Threads
  <2> QED
    BY <1>1, <1>4, <1>5, <2>1, ThreadsCounted DEF ArgNotOlder, Done
<1> QED
  BY <1>3, <1>6, <1>7, <1>8, <1>9, <1>10

\* The semaphore counts one event, between its post and its wait.
LEMMA EventKeepsIInv ==
  ASSUME IInv, NEW t \in Thread, Wait(t) \/ Post(t)
  PROVE  IInv'
<1> USE DEF IInv
<1>1. /\ UNCHANGED <<program, main, created, counter, reg, left, lock, arg1, printed>>
      /\ program = "semaphores" /\ at[t] \in {"wait", "post"} /\ Goto(t, "done")
      /\ at[t] = "wait" => t = WAITER /\ sem > 0 /\ sem' = sem - 1
      /\ at[t] = "post" => t = 1 /\ sem' = sem + 1
      /\ "done" \in Places(t)
  BY PlaceTells DEF Wait, Post, Posted, Runs, memory
<1>2. Carried' = Carried /\ Increments' = Increments
  BY <1>1 DEF Carried, Increments
<1>3. /\ at' \in [Thread -> At] /\ at'[t] = "done"
      /\ \A u \in Thread : u # t => at'[u] = at[u]
      /\ Threads' = Threads /\ ThreadsInOrder'
  BY <1>1, ThreadGoes
<1>4. WAITER \in Thread /\ 1 \in Thread /\ WAITER # 1
  BY CountAssumption DEF WAITER, Thread
<1>5. EventKept' /\ sem' \in 0..1
  <2>1. CASE at[t] = "wait"
    BY <1>1, <1>3, <1>4, <2>1 DEF EventKept
  <2>2. CASE at[t] = "post"
    <3>1. sem = 0
      BY <1>1, <2>2 DEF EventKept
    <3>2. at[WAITER] # "done"
      BY <1>1, <1>4, <2>2 DEF EventKept
    <3> QED
      BY <1>1, <1>3, <1>4, <2>2, <3>1, <3>2 DEF EventKept
  <2> QED
    BY <1>1, <2>1, <2>2
<1>6. TypeOK'
  BY <1>1, <1>3, <1>5 DEF TypeOK
<1>7. LockProtects' /\ LoopsCounted'
  BY <1>1, <1>2, <1>3 DEF LockProtects, LoopsCounted, Counting, Locking
<1>8. RaceLeaves'
  BY <1>1, <1>2, <1>3 DEF RaceLeaves
<1>9. PrintsWhatIsDone' /\ ArgNotOlder'
  BY <1>1 DEF PrintsWhatIsDone, ArgNotOlder, Locking
<1> QED
  BY <1>3, <1>5, <1>6, <1>7, <1>8, <1>9

-----------------------------------------------------------------------------
(* The theorems.                                                           *)

\* IInv holds throughout, for any number of threads and rounds from two on.
THEOREM Inductive == Spec => []IInv
<1>1. Init => IInv
  BY InitIInv
<1>2. IInv /\ [Next]_vars => IInv'
  <2> SUFFICES ASSUME IInv, [Next]_vars
               PROVE  IInv'
    OBVIOUS
  <2>1. CASE MainStep
    BY <2>1, MainKeepsIInv DEF MainStep
  <2>2. ASSUME NEW t \in Thread, ThreadStep(t)
        PROVE  IInv'
    BY <2>2, LockingKeepsIInv, LoadKeepsIInv, StoreKeepsIInv, PrintKeepsIInv,
       ArgKeepsIInv, EventKeepsIInv DEF ThreadStep
  <2>3. CASE UNCHANGED vars
    <3>1. UNCHANGED <<program, main, created, at, counter, reg, left, lock, sem, arg1, printed>>
      BY <2>3 DEF vars, memory
    <3>2. Carried' = Carried /\ Increments' = Increments /\ Threads' = Threads /\ Done' = Done
      BY <3>1 DEF Carried, Increments, Threads, Done
    <3> QED
      BY <3>1, <3>2 DEF IInv, TypeOK, ThreadsInOrder, Places, LockProtects, LoopsCounted,
         RaceLeaves, EventKept, PrintsWhatIsDone, ArgNotOlder
  <2> QED
    BY <2>1, <2>2, <2>3 DEF Next
<1> QED
  BY <1>1, <1>2, PTL DEF Spec

\* Every variable keeps its type: no count exceeds what the threads add up to.
THEOREM TypeCorrect == Spec => []TypeOK
<1>1. IInv => TypeOK
  BY DEF IInv
<1> QED
  BY <1>1, Inductive, PTL

\* A lock loses no increment; a race leaves two at least (mutex.c, spinlock.c and
\* race.c).
THEOREM CountedAtLeastAlways == Spec => []CountedAtLeast
<1>1. IInv => CountedAtLeast
  <2> SUFFICES ASSUME IInv
               PROVE  CountedAtLeast
    OBVIOUS
  <2>1. program \in Locking => counter = Increments
    BY DEF IInv, LockProtects
  <2>2. ASSUME program = "race", Done = Thread
        PROVE  counter \in 2..TOTAL
    <3>1. \A t \in Thread : left[t] = 0
      BY <2>2 DEF IInv, LoopsCounted, Counting, Done
    <3>2. counter >= 2 /\ counter \in 0..TOTAL /\ TOTAL \in Nat
      BY <2>2, <3>1, CarriedBounded DEF IInv, RaceLeaves, TypeOK
    <3> QED
      BY <3>2
  <2> QED
    BY <2>1, <2>2 DEF CountedAtLeast
<1> QED
  BY <1>1, Inductive, PTL

\* The k-th thread to leave the lock prints k loops at least (mutex.c:27,
\* spinlock.c:23).
THEOREM PrintsWhatIsDoneAlways == Spec => []PrintsWhatIsDone
<1>1. IInv => PrintsWhatIsDone
  BY DEF IInv
<1> QED
  BY <1>1, Inductive, PTL

\* No thread of 02_pthread_basics sees an argument older than its own.
THEOREM ArgNeverOlder == Spec => []ArgNotOlder
<1>1. IInv => ArgNotOlder
  BY DEF IInv
<1> QED
  BY <1>1, Inductive, PTL
=============================================================================
