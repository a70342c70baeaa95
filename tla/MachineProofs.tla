-------------------------- MODULE MachineProofs --------------------------
(***************************************************************************)
(* Proofs about the simulated machine.  Interrupts (Interrupt), for any    *)
(* threads and devices, any delays of the devices and any ticks; the       *)
(* loader (Loader), for any files of the linker, faults and byte orders,   *)
(* any page size and any magic number that swapping its bytes changes; and *)
(* the stub file system on the files of the host (StubFiles), for any      *)
(* number of names, files, open files and descriptors.                     *)
(***************************************************************************)
EXTENDS MCMachine, ListsProofs, FiniteSetTheorems

(* The levels s that a thread has saved, latest first, k of them in a      *)
(* handler: interrupts were on before the first of the thread's own        *)
(* sections only (own), and off before all others.                         *)
Bottom(s, own, k) ==
  \A i \in DOMAIN s : s[i] = "IntOn" <=> i = Len(s) /\ own /\ k # i

(* The levels that are saved and the one that is set. *)
Levels ==
  /\ machine # "aborted"
  /\ checking # NULL => level = "IntOff"
  /\ checking = NULL =>
       (level = "IntOff" <=> saved[currentThread] # << >> \/ booting)
  /\ \A t \in started \ {currentThread} : saved[t] # << >>
  /\ \A t \in Thread : Bottom(saved[t], ~(booting /\ t = main),
                              IF t = currentThread THEN inCallBack ELSE 0)

(* Where the machine is: in the code of a thread, in CheckIfDue or in a    *)
(* handler, and how many levels the running thread has saved there.        *)
Where ==
  /\ currentThread \in started
  /\ \A t \in Thread \ started : saved[t] = << >>
  /\ booting => started = {main}
  /\ handling # NULL \/ inHandler => checking # NULL
  /\ inCallBack > 0 => handling # NULL
  /\ inCallBack <= Len(saved[currentThread])
  /\ checking = "OneTick" => Len(saved[currentThread]) = inCallBack /\ ~booting
  /\ checking = "Idle" => Len(saved[currentThread]) > inCallBack
  /\ status = "IdleMode" <=> checking = "Idle"
  /\ status = "UserMode" => Len(saved[currentThread]) = inCallBack /\ ~booting

(* The list of pending interrupts. *)
DueTimes ==
  /\ IsInjective(pending) /\ Sorted(pending, due)
  /\ \A d \in Device : IsInList(pending, d) => due[d] > -SystemTick
  /\ checking = NULL => \A d \in Device : IsInList(pending, d) => due[d] > 0
  /\ \A d \in Periodic : IsInList(pending, d) <=> handling # d
  /\ handling # NULL => ~IsInList(pending, handling)
  /\ machine # "halted"

(* The inductive invariant. *)
IInv == TypeOK /\ Levels /\ Where /\ DueTimes

LevelSet == {"IntOn", "IntOff"}

-----------------------------------------------------------------------------
(* A critical section begins: in the code of a thread, or in a handler. *)
LEMMA PushFacts ==
  ASSUME NEW s \in Seq(LevelSet), NEW own \in BOOLEAN, NEW k \in Nat,
         k <= Len(s), Bottom(s, own, k), NEW lev \in LevelSet
  PROVE  LET r == <<lev>> \o s IN
         /\ r \in Seq(LevelSet) /\ Len(r) = Len(s) + 1 /\ r # << >>
         /\ k = 0 /\ (lev = "IntOn" <=> Len(s) = 0 /\ own) => Bottom(r, own, 0)
         /\ lev = "IntOff" => Bottom(r, own, k + 1)
<1> DEFINE r == <<lev>> \o s
<1>1. /\ r \in Seq(LevelSet) /\ Len(r) = Len(s) + 1 /\ Len(s) \in Nat
      /\ DOMAIN r = 1..(Len(s) + 1) /\ DOMAIN s = 1..Len(s)
      /\ r[1] = lev /\ \A i \in 2..(Len(s) + 1) : r[i] = s[i - 1]
  BY DEF LevelSet
<1> HIDE DEF r
<1>2. \A i \in 1..Len(s) : s[i] = "IntOn" <=> i = Len(s) /\ own /\ k # i
  BY <1>1 DEF Bottom
<1>3. \A i \in 2..(Len(s) + 1) :
        r[i] = "IntOn" <=> i = Len(s) + 1 /\ own /\ k + 1 # i
  <2> TAKE i \in 2..(Len(s) + 1)
  <2>1. /\ i - 1 \in 1..Len(s) /\ r[i] = s[i - 1]
        /\ i - 1 = Len(s) <=> i = Len(s) + 1
        /\ k # i - 1 <=> k + 1 # i
    BY <1>1
  <2>2. s[i - 1] = "IntOn" <=> i - 1 = Len(s) /\ own /\ k # i - 1
    BY <1>2, <2>1
  <2> QED
    BY <2>1, <2>2
<1>4. ASSUME k = 0, lev = "IntOn" <=> Len(s) = 0 /\ own
      PROVE  Bottom(r, own, 0)
  <2>1. ASSUME NEW i \in 1..(Len(s) + 1)
        PROVE  r[i] = "IntOn" <=> i = Len(s) + 1 /\ own /\ 0 # i
    <3>1. CASE i = 1
      BY <1>1, <1>4, <3>1
    <3>2. CASE i # 1
      BY <1>1, <1>3, <1>4, <3>2
    <3> QED
      BY <3>1, <3>2
  <2> QED
    BY <1>1, <2>1 DEF Bottom
<1>5. ASSUME lev = "IntOff" PROVE Bottom(r, own, k + 1)
  <2>1. ASSUME NEW i \in 1..(Len(s) + 1)
        PROVE  r[i] = "IntOn" <=> i = Len(s) + 1 /\ own /\ k + 1 # i
    <3>1. CASE i = 1
      BY <1>1, <1>5, <3>1
    <3>2. CASE i # 1
      BY <1>1, <1>3, <3>2
    <3> QED
      BY <3>1, <3>2
  <2> QED
    BY <1>1, <2>1 DEF Bottom
<1>6. r # << >>
  BY <1>1
<1> QED
  BY <1>1, <1>4, <1>5, <1>6 DEF r

(* ... and ends: interrupts are enabled only by a thread, at the end of    *)
(* its outermost section.                                                  *)
LEMMA PopFacts ==
  ASSUME NEW s \in Seq(LevelSet), NEW own \in BOOLEAN, NEW k \in Nat,
         k <= Len(s), Bottom(s, own, k), s # << >>
  PROVE  /\ Tail(s) \in Seq(LevelSet) /\ Len(Tail(s)) = Len(s) - 1
         /\ Head(s) \in LevelSet
         /\ k = 0 => /\ Head(s) = "IntOn" <=> Len(s) = 1 /\ own
                     /\ Bottom(Tail(s), own, 0)
         /\ k > 0 => /\ Head(s) = "IntOff"
                     /\ Bottom(Tail(s), own, k - 1)
<1> DEFINE r == Tail(s)
<1>1. /\ r \in Seq(LevelSet) /\ Len(r) = Len(s) - 1 /\ Len(s) \in Nat
      /\ Len(s) >= 1 /\ Head(s) = s[1] /\ Head(s) \in LevelSet
      /\ DOMAIN r = 1..(Len(s) - 1) /\ DOMAIN s = 1..Len(s)
      /\ \A i \in 1..(Len(s) - 1) : r[i] = s[i + 1]
  BY DEF LevelSet
<1> HIDE DEF r
<1>2. \A i \in 1..Len(s) : s[i] = "IntOn" <=> i = Len(s) /\ own /\ k # i
  BY <1>1 DEF Bottom
<1>3. \A i \in 1..(Len(s) - 1) :
        r[i] = "IntOn" <=> i + 1 = Len(s) /\ own /\ k # i + 1
  BY <1>1, <1>2
<1>4. s[1] = "IntOn" <=> 1 = Len(s) /\ own /\ k # 1
  BY <1>1, <1>2
<1>5. ASSUME k = 0 PROVE Bottom(r, own, 0)
  BY <1>1, <1>3, <1>5 DEF Bottom
<1>6. ASSUME k > 0 PROVE Bottom(r, own, k - 1)
  BY <1>1, <1>3, <1>6 DEF Bottom
<1>7. k > 0 => s[1] = "IntOff"
  <2>1. k > 0 => s[1] # "IntOn"
    BY <1>1, <1>4
  <2> QED
    BY <1>1, <2>1 DEF LevelSet
<1> QED
  BY <1>1, <1>4, <1>5, <1>6, <1>7 DEF r

-----------------------------------------------------------------------------
(* The list of pending interrupts does not change. *)
LEMMA SameTimes ==
  ASSUME TypeOK, DueTimes, UNCHANGED <<pending, due, handling>>,
         checking' = NULL => checking = NULL, machine' # "halted"
  PROVE  DueTimes' /\ pending' \in Seq(Device) /\ due' \in [Device -> Int]
<1>1. pending' \in Seq(Device) /\ due' \in [Device -> Int]
  BY DEF TypeOK
<1>2. (IsInjective(pending) /\ Sorted(pending, due))'
  <2>1. IsInjective(pending)'
    BY DEF DueTimes, IsInjective
  <2>2. Sorted(pending, due)'
    BY DEF DueTimes, Sorted
  <2> QED
    BY <2>1, <2>2
<1>3. \A d : IsInList(pending, d)' <=> IsInList(pending, d)
  BY DEF IsInList, Contains
<1> QED
  BY <1>1, <1>2, <1>3 DEF DueTimes

(* The clock goes on, while no handler runs. *)
LEMMA AdvanceTimes ==
  ASSUME InterruptAssumption, TypeOK, DueTimes, NEW n \in Int, Advance(n),
         pending' = pending, handling = NULL, handling' = NULL,
         checking' # NULL, machine' # "halted",
         \A d \in Device : IsInList(pending, d) => due[d] - n > -SystemTick
  PROVE  DueTimes' /\ pending' \in Seq(Device) /\ due' \in [Device -> Int]
<1>1. pending \in Seq(Device) /\ due \in [Device -> Int]
  BY DEF TypeOK
<1>2. due' = [d \in Device |-> IF IsInList(pending, d) THEN due[d] - n ELSE due[d]]
  BY DEF Advance
<1>3. due' \in [Device -> Int]
  BY <1>1, <1>2
<1>4. \A d \in Device : IsInList(pending, d) => due'[d] = due[d] - n
  BY <1>2
<1>5. \A i \in 1..Len(pending) : pending[i] \in Device /\ IsInList(pending, pending[i])
  BY <1>1 DEF IsInList, Contains
<1>6. Sorted(pending, due)'
  <2> SUFFICES ASSUME NEW i \in 1..Len(pending), NEW j \in 1..Len(pending), i < j
               PROVE  due'[pending[i]] <= due'[pending[j]]
    BY DEF Sorted
  <2>1. due[pending[i]] <= due[pending[j]]
    BY DEF DueTimes, Sorted
  <2>2. /\ due'[pending[i]] = due[pending[i]] - n
        /\ due'[pending[j]] = due[pending[j]] - n
        /\ due[pending[i]] \in Int /\ due[pending[j]] \in Int
    BY <1>1, <1>4, <1>5
  <2> QED
    BY <2>1, <2>2
<1>7. IsInjective(pending)'
  BY DEF DueTimes, IsInjective
<1>8. \A d : IsInList(pending, d)' <=> IsInList(pending, d)
  BY DEF IsInList, Contains
<1>9. \A d \in Device : IsInList(pending, d)' => due'[d] > -SystemTick
  BY <1>4, <1>8
<1>10. \A d \in Periodic : IsInList(pending, d)' <=> handling' # d
  BY <1>8 DEF DueTimes
<1> QED
  BY <1>1, <1>3, <1>6, <1>7, <1>9, <1>10 DEF DueTimes

(* Interrupt::OneTick, called while no interrupt is due. *)
LEMMA TickTimes ==
  ASSUME InterruptAssumption, IInv, checking = NULL, OneTick,
         handling' = handling, machine' # "halted"
  PROVE  DueTimes' /\ pending' \in Seq(Device) /\ due' \in [Device -> Int]
<1> DEFINE n == IF status = "SystemMode" THEN SystemTick ELSE UserTick
<1>1. n \in Nat /\ n <= SystemTick /\ SystemTick \in Nat
  BY DEF InterruptAssumption
<1>2. Advance(n) /\ pending' = pending /\ checking' = "OneTick"
  BY DEF OneTick
<1>3. handling = NULL /\ handling' = NULL /\ checking' # NULL
  BY <1>2 DEF IInv, Where, InterruptAssumption
<1> HIDE DEF n
<1>4. \A d \in Device : IsInList(pending, d) => due[d] - n > -SystemTick
  <2>1. \A d \in Device : due[d] \in Int
    BY DEF IInv, TypeOK
  <2>2. \A d \in Device : IsInList(pending, d) => due[d] > 0
    BY DEF IInv, DueTimes
  <2> QED
    BY <1>1, <2>1, <2>2
<1>5. TypeOK /\ DueTimes /\ n \in Int
  BY <1>1 DEF IInv
<1> QED
  BY <1>2, <1>3, <1>4, <1>5, AdvanceTimes

(* Interrupt::Schedule, for a device without a pending interrupt. *)
LEMMA ScheduleFacts ==
  ASSUME TypeOK, DueTimes, NEW d \in Device, ~IsInList(pending, d), NEW n \in Nat,
         Schedule(d, n)
  PROVE  /\ pending' \in Seq(Device) /\ due' \in [Device -> Int]
         /\ IsInjective(pending)' /\ Sorted(pending, due)'
         /\ \A e : IsInList(pending, e)' <=> IsInList(pending, e) \/ e = d
         /\ due'[d] = n /\ \A e \in Device : e # d => due'[e] = due[e]
<1> DEFINE new == [due EXCEPT ![d] = n]
<1>1. pending \in Seq(Device) /\ due \in [Device -> Int]
  BY DEF TypeOK
<1>2. due' = new /\ pending' = Insert(pending, d, new)
  BY DEF Schedule
<1>3. /\ new \in [Device -> Int] /\ new[d] = n
      /\ \A e \in Device : e # d => new[e] = due[e]
  BY <1>1
<1> HIDE DEF new
<1>4. Sorted(pending, new)
  <2>1. \A i \in 1..Len(pending) : pending[i] \in Device /\ pending[i] # d
    BY <1>1 DEF IsInList, Contains
  <2>2. Sorted(pending, due)
    BY DEF DueTimes
  <2> QED
    BY <1>3, <2>1, <2>2 DEF Sorted
<1> DEFINE list == Insert(pending, d, new)
<1>5. /\ list \in Seq(Device) /\ IsInjective(list) /\ Sorted(list, new)
      /\ \A e : IsInList(list, e) <=> IsInList(pending, e) \/ e = d
  <2>1. IsInjective(pending)
    BY DEF DueTimes
  <2> QED
    BY <1>1, <1>3, <1>4, <2>1, InsertFacts, InsertSorted
<1> HIDE DEF list
<1>6. pending' = list
  BY <1>2 DEF list
<1> QED
  BY <1>2, <1>3, <1>5, <1>6 DEF IsInjective, Sorted, IsInList, Contains

-----------------------------------------------------------------------------
(* The saved levels of the running thread, on their own. *)
LEMMA CurrentFacts ==
  ASSUME InterruptAssumption, IInv
  PROVE  /\ currentThread \in Thread /\ level \in LevelSet
         /\ saved[currentThread] \in Seq(LevelSet) /\ inCallBack \in Nat
         /\ inCallBack <= Len(saved[currentThread])
         /\ (booting /\ currentThread = main) <=> booting
         /\ Bottom(saved[currentThread], ~booting, inCallBack)
         /\ checking = NULL => handling = NULL /\ inCallBack = 0 /\ ~inHandler
         /\ Len(saved[currentThread]) = 0 <=> saved[currentThread] = << >>
<1>1. /\ currentThread \in Thread /\ level \in LevelSet
      /\ saved[currentThread] \in Seq(LevelSet) /\ inCallBack \in Nat
      /\ booting \in BOOLEAN /\ inHandler \in BOOLEAN
  BY DEF IInv, TypeOK, LevelSet
<1>2. inCallBack <= Len(saved[currentThread])
  BY DEF IInv, Where
<1>3. booting => currentThread = main
  BY DEF IInv, Where
<1>4. Bottom(saved[currentThread], ~(booting /\ currentThread = main), inCallBack)
  BY <1>1 DEF IInv, Levels
<1>5. (~(booting /\ currentThread = main)) = (~booting)
  BY <1>1, <1>3
<1>6. checking = NULL => handling = NULL /\ inCallBack = 0 /\ ~inHandler
  BY <1>1 DEF IInv, Where
<1>7. Len(saved[currentThread]) = 0 <=> saved[currentThread] = << >>
  BY <1>1
<1> QED
  BY <1>1, <1>2, <1>3, <1>4, <1>5, <1>6, <1>7

(* The saved levels of one thread change, while no thread starts. *)
LEMMA LevelsStep ==
  ASSUME InterruptAssumption, IInv, NEW new \in Seq(LevelSet),
         saved' = [saved EXCEPT ![currentThread] = new],
         UNCHANGED <<currentThread, started, booting>>,
         Bottom(new, ~booting, inCallBack'),
         machine' # "aborted",
         checking' # NULL => level' = "IntOff",
         checking' = NULL => (level' = "IntOff" <=> new # << >> \/ booting)
  PROVE  /\ Levels'
         /\ saved' \in [Thread -> Seq(LevelSet)]
         /\ saved'[currentThread] = new
         /\ \A t \in Thread \ started : saved'[t] = << >>
<1>1. /\ saved \in [Thread -> Seq(LevelSet)] /\ currentThread \in Thread
      /\ started \subseteq Thread /\ booting \in BOOLEAN
  BY DEF IInv, TypeOK, LevelSet
<1>2. /\ saved'[currentThread] = new
      /\ \A t \in Thread : t # currentThread => saved'[t] = saved[t]
      /\ saved' \in [Thread -> Seq(LevelSet)]
  BY <1>1
<1>3. \A t \in started \ {currentThread} : saved'[t] # << >>
  BY <1>1, <1>2 DEF IInv, Levels
<1>4. ASSUME NEW t \in Thread
      PROVE  Bottom(saved'[t], ~(booting /\ t = main),
                    IF t = currentThread THEN inCallBack' ELSE 0)
  <2>1. CASE t = currentThread
    <3>1. (~(booting /\ t = main)) = (~booting)
      BY <1>1, <2>1, CurrentFacts
    <3> QED
      BY <1>2, <2>1, <3>1
  <2>2. CASE t # currentThread
    <3>1. Bottom(saved[t], ~(booting /\ t = main), 0)
      BY <2>2 DEF IInv, Levels
    <3> QED
      BY <1>2, <2>2, <3>1
  <2> QED
    BY <2>1, <2>2
<1>5. Levels'
  BY <1>2, <1>3, <1>4 DEF Levels, Bottom
<1>6. \A t \in Thread \ started : saved'[t] = << >>
  BY <1>2 DEF IInv, Where
<1> QED
  BY <1>2, <1>5, <1>6

(* oldLevel = SetLevel(IntOff) *)
LEMMA DisableInv ==
  ASSUME InterruptAssumption, IInv, Disable
  PROVE  IInv'
<1> DEFINE old == saved[currentThread]
           new == <<level>> \o old
<1>1. /\ InKernel \/ (machine = "up" /\ handling # NULL)
      /\ saved' = [saved EXCEPT ![currentThread] = new]
      /\ inCallBack' = inCallBack + (IF handling # NULL THEN 1 ELSE 0)
      /\ machine' = "up" /\ level' = "IntOff"
      /\ UNCHANGED <<pending, due, inHandler, checking, status, handling,
                     currentThread, started, booting>>
  BY DEF Disable, SetLevel
<1>2. /\ currentThread \in Thread /\ level \in LevelSet /\ (~booting) \in BOOLEAN
      /\ old \in Seq(LevelSet) /\ inCallBack \in Nat
      /\ inCallBack <= Len(old) /\ Bottom(old, ~booting, inCallBack)
      /\ checking = NULL => handling = NULL /\ inCallBack = 0
      /\ Len(old) = 0 <=> old = << >>
  BY CurrentFacts DEF IInv, TypeOK
<1>3. /\ new \in Seq(LevelSet) /\ Len(new) = Len(old) + 1 /\ new # << >>
      /\ inCallBack = 0 /\ (level = "IntOn" <=> Len(old) = 0 /\ ~booting)
           => Bottom(new, ~booting, 0)
      /\ level = "IntOff" => Bottom(new, ~booting, inCallBack + 1)
  BY <1>2, PushFacts
<1> HIDE DEF old, new
<1>4. Bottom(new, ~booting, inCallBack')
  <2>1. CASE handling = NULL
    <3>1. checking = NULL
      BY <1>1, <2>1 DEF InKernel, InCode
    <3>2. level = "IntOff" <=> old # << >> \/ booting
      BY <3>1 DEF IInv, Levels, old
    <3>3. level = "IntOn" <=> Len(old) = 0 /\ ~booting
      BY <1>2, <3>2 DEF LevelSet
    <3>4. inCallBack' = 0
      BY <1>1, <1>2, <2>1, <3>1
    <3> QED
      BY <1>2, <1>3, <3>1, <3>3, <3>4
  <2>2. CASE handling # NULL
    <3>1. level = "IntOff"
      BY <2>2 DEF IInv, Where, Levels
    <3> QED
      BY <1>1, <1>3, <2>2, <3>1
  <2> QED
    BY <2>1, <2>2
<1>5. /\ Levels' /\ saved' \in [Thread -> Seq(LevelSet)]
      /\ saved'[currentThread] = new
      /\ \A t \in Thread \ started : saved'[t] = << >>
  BY <1>1, <1>3, <1>4, LevelsStep
<1>6. DueTimes' /\ pending' \in Seq(Device) /\ due' \in [Device -> Int]
  BY <1>1, SameTimes DEF IInv
<1>7. inCallBack' \in Nat
  BY <1>1, <1>2
<1>8. TypeOK'
  BY <1>1, <1>5, <1>6, <1>7 DEF IInv, TypeOK, LevelSet
<1>9. Where'
  <2>1. Where
    BY DEF IInv
  <2>2. Len(new) = Len(old) + 1 /\ Len(old) \in Nat
    BY <1>2, <1>3
  <2>3. /\ handling = NULL => checking = NULL /\ status = "SystemMode"
        /\ handling # NULL => inCallBack' = inCallBack + 1
        /\ handling = NULL => inCallBack' = 0
    BY <1>1, <1>2 DEF InKernel, InCode
  <2>4. NULL # "OneTick" /\ NULL # "Idle"
    BY DEF InterruptAssumption
  <2>5. CASE handling = NULL
    BY <1>1, <1>5, <2>1, <2>2, <2>3, <2>4, <2>5 DEF Where
  <2>6. CASE handling # NULL
    <3>1. /\ checking = "OneTick" \/ status = "UserMode" =>
               Len(old) = inCallBack /\ ~booting
          /\ checking = "Idle" => Len(old) > inCallBack
      BY <2>1 DEF Where, old
    <3>2. /\ inCallBack' <= Len(new)
          /\ checking = "OneTick" \/ status = "UserMode" =>
               Len(new) = inCallBack' /\ ~booting
          /\ checking = "Idle" => Len(new) > inCallBack'
      BY <1>2, <2>2, <2>3, <2>6, <3>1
    <3> QED
      BY <1>1, <1>5, <2>1, <2>6, <3>2 DEF Where
  <2> QED
    BY <2>5, <2>6
<1> QED
  BY <1>5, <1>6, <1>8, <1>9 DEF IInv

(* SetLevel(oldLevel): interrupts stay off, or the outermost section ends  *)
(* and OneTick runs.                                                       *)
LEMMA RestoreInv ==
  ASSUME InterruptAssumption, IInv, Restore
  PROVE  IInv'
<1> DEFINE old == saved[currentThread]
           new == Tail(old)
           on == Head(old) = "IntOn"
<1>1. /\ InKernel \/ (machine = "up" /\ inCallBack > 0)
      /\ old # << >>
      /\ saved' = [saved EXCEPT ![currentThread] = new]
      /\ inCallBack' = inCallBack - (IF handling # NULL THEN 1 ELSE 0)
      /\ SetLevel(Head(old), level)
      /\ UNCHANGED <<status, handling, currentThread, started, booting>>
  BY DEF Restore
<1>2. /\ currentThread \in Thread /\ level \in LevelSet /\ (~booting) \in BOOLEAN
      /\ old \in Seq(LevelSet) /\ inCallBack \in Nat /\ Len(old) \in Nat
      /\ inCallBack <= Len(old) /\ Bottom(old, ~booting, inCallBack)
      /\ checking = NULL => handling = NULL /\ inCallBack = 0 /\ ~inHandler
      /\ Len(old) = 0 <=> old = << >>
  BY CurrentFacts DEF IInv, TypeOK
<1>3. /\ new \in Seq(LevelSet) /\ Len(new) = Len(old) - 1
      /\ Head(old) \in LevelSet
      /\ inCallBack = 0 => /\ on <=> Len(old) = 1 /\ ~booting
                           /\ Bottom(new, ~booting, 0)
      /\ inCallBack > 0 => /\ Head(old) = "IntOff"
                           /\ Bottom(new, ~booting, inCallBack - 1)
  BY <1>1, <1>2, PopFacts
<1>4. /\ handling = NULL => checking = NULL /\ status = "SystemMode"
      /\ handling = NULL => inCallBack = 0 /\ inCallBack' = 0
      /\ handling # NULL => inCallBack > 0 /\ inCallBack' = inCallBack - 1
      /\ handling # NULL => checking # NULL
  BY <1>1, <1>2 DEF InKernel, InCode, IInv, Where
<1>5. level = "IntOff"
  BY <1>1, <1>4 DEF IInv, Levels
<1>6. NULL # "OneTick" /\ NULL # "Idle"
  BY DEF InterruptAssumption
<1>7. new = << >> <=> Len(old) = 1
  <2>1. \A s \in Seq(LevelSet) : s = << >> <=> Len(s) = 0
    OBVIOUS
  <2>2. new = << >> <=> Len(new) = 0
    BY <1>3, <2>1
  <2> HIDE DEF new, on
  <2> QED
    BY <1>2, <1>3, <2>2
<1>8. /\ machine' = "up" /\ level' = "IntOff"
      /\ on => /\ OneTick /\ checking' = "OneTick"
               /\ checking = NULL /\ Len(old) = 1 /\ ~booting
      /\ ~on => UNCHANGED <<pending, due, inHandler, checking>>
  <2>1. CASE on
    <3>1. handling = NULL /\ checking = NULL /\ ~inHandler
      BY <1>2, <1>3, <1>4, <2>1
    <3>2. machine' = "up" /\ OneTick
      BY <1>1, <1>5, <2>1, <3>1 DEF SetLevel
    <3> QED
      BY <1>3, <1>4, <2>1, <3>1, <3>2 DEF OneTick
  <2>2. CASE ~on
    <3>1. Head(old) = "IntOff"
      BY <1>3, <2>2 DEF LevelSet
    <3> QED
      BY <1>1, <2>2, <3>1 DEF SetLevel
  <2> QED
    BY <2>1, <2>2
<1>9. /\ Levels' /\ saved' \in [Thread -> Seq(LevelSet)]
      /\ saved'[currentThread] = new
      /\ \A t \in Thread \ started : saved'[t] = << >>
  <2>1. Bottom(new, ~booting, inCallBack')
    BY <1>2, <1>3, <1>4
  <2>2. checking' = NULL => new # << >> \/ booting
    <3> SUFFICES ASSUME checking' = NULL PROVE new # << >> \/ booting
      OBVIOUS
    <3>1. ~on /\ checking = NULL
      BY <1>6, <1>8
    <3> QED
      BY <1>2, <1>3, <1>7, <3>1
  <2> HIDE DEF new
  <2> QED
    BY <1>1, <1>3, <1>8, <2>1, <2>2, LevelsStep
<1>10. /\ DueTimes' /\ pending' \in Seq(Device) /\ due' \in [Device -> Int]
       /\ inHandler' \in BOOLEAN /\ checking' \in {"OneTick", "Idle", NULL}
  <2>1. CASE on
    <3>1. inHandler' = inHandler
      BY <1>8, <2>1 DEF OneTick
    <3> QED
      BY <1>1, <1>8, <2>1, <3>1, TickTimes DEF IInv, TypeOK
  <2>2. CASE ~on
    BY <1>1, <1>8, <2>2, SameTimes DEF IInv, TypeOK
  <2> QED
    BY <2>1, <2>2
<1>11. TypeOK'
  <2>1. inCallBack' \in Nat
    BY <1>2, <1>4
  <2> QED
    BY <1>1, <1>8, <1>9, <1>10, <2>1 DEF IInv, TypeOK, LevelSet
<1>12. Where'
  <2>1. Where
    BY DEF IInv
  <2>2. inHandler' = inHandler
    BY <1>8 DEF OneTick
  <2> HIDE DEF on, new
  <2>3. CASE on
    <3>1. handling = NULL /\ Len(new) = 0 /\ inCallBack' = 0 /\ ~booting
      BY <1>2, <1>3, <1>4, <1>8, <2>3
    <3>2. status' = "SystemMode" /\ handling' = NULL
      BY <1>1, <1>4, <3>1
    <3>3. saved'[currentThread'] = new /\ checking' = "OneTick"
      BY <1>1, <1>8, <1>9, <2>3
    <3>4. /\ currentThread' \in started' /\ (booting' => started' = {main})
          /\ \A t \in Thread \ started' : saved'[t] = << >>
      BY <1>1, <1>9, <2>1 DEF Where
    <3> QED
      BY <1>1, <1>6, <3>1, <3>2, <3>3, <3>4 DEF Where
  <2>4. CASE ~on /\ handling = NULL
    <3>1. checking' = NULL /\ status = "SystemMode" /\ inCallBack' = 0
      BY <1>4, <1>8, <2>4
    <3>2. Len(new) \in Nat
      BY <1>3
    <3> QED
      BY <1>1, <1>4, <1>6, <1>9, <2>1, <2>2, <2>4, <3>1, <3>2 DEF Where
  <2>5. CASE ~on /\ handling # NULL
    <3>1. /\ checking = "OneTick" \/ status = "UserMode" =>
               Len(old) = inCallBack /\ ~booting
          /\ checking = "Idle" => Len(old) > inCallBack
      BY <2>1 DEF Where
    <3> HIDE DEF old
    <3>2. /\ inCallBack' <= Len(new)
          /\ checking = "OneTick" \/ status = "UserMode" =>
               Len(new) = inCallBack' /\ ~booting
          /\ checking = "Idle" => Len(new) > inCallBack'
      BY <1>2, <1>3, <1>4, <2>5, <3>1
    <3> QED
      BY <1>1, <1>8, <1>9, <2>1, <2>2, <2>5, <3>2 DEF Where
  <2> QED
    BY <2>3, <2>4, <2>5
<1> QED
  BY <1>9, <1>10, <1>11, <1>12 DEF IInv

(* Kernel::Initialize and Thread::Begin enable interrupts. *)
LEMMA EnableStep ==
  ASSUME InterruptAssumption, IInv, InKernel, level = "IntOff",
         SetLevel("IntOn", level), UNCHANGED <<status, handling, inCallBack, saved>>
  PROVE  /\ machine' = "up" /\ level' = "IntOff" /\ checking' = "OneTick"
         /\ inHandler' = inHandler /\ ~inHandler /\ handling = NULL
         /\ inCallBack = 0 /\ status = "SystemMode"
         /\ DueTimes' /\ pending' \in Seq(Device) /\ due' \in [Device -> Int]
<1>1. checking = NULL /\ handling = NULL /\ inCallBack = 0 /\ ~inHandler
  BY CurrentFacts DEF InKernel, InCode
<1>2. machine' = "up" /\ OneTick
  BY <1>1 DEF SetLevel
<1>3. DueTimes' /\ pending' \in Seq(Device) /\ due' \in [Device -> Int]
  BY <1>1, <1>2, TickTimes
<1> QED
  BY <1>1, <1>2, <1>3 DEF OneTick, InKernel

(* interrupt->Enable() at the end of Kernel::Initialize *)
LEMMA BootInv ==
  ASSUME InterruptAssumption, IInv, Boot
  PROVE  IInv'
<1>1. /\ InKernel /\ booting /\ currentThread = main /\ saved[main] = << >>
      /\ booting' = FALSE /\ SetLevel("IntOn", level)
      /\ UNCHANGED <<status, handling, inCallBack, currentThread, saved, started>>
  BY DEF Boot
<1>2. level = "IntOff" /\ started = {main} /\ main \in Thread
  BY <1>1 DEF IInv, Levels, Where, InKernel, InCode, InterruptAssumption
<1>3. /\ machine' = "up" /\ level' = "IntOff" /\ checking' = "OneTick"
      /\ inHandler' = inHandler /\ ~inHandler /\ handling = NULL
      /\ inCallBack = 0 /\ status = "SystemMode"
      /\ DueTimes' /\ pending' \in Seq(Device) /\ due' \in [Device -> Int]
  BY <1>1, <1>2, EnableStep
<1>4. NULL # "OneTick"
  BY DEF InterruptAssumption
<1>5. Levels'
  <2>1. ASSUME NEW t \in Thread PROVE saved[t] = << >>
    BY <1>1, <1>2 DEF IInv, Where
  <2>2. \A own, k : Bottom(<< >>, own, k)
    BY DEF Bottom
  <2>3. \A t \in Thread : Bottom(saved[t], ~(FALSE /\ t = main),
                                 IF t = currentThread THEN inCallBack ELSE 0)
    BY <2>1, <2>2
  <2>4. \A t \in Thread : Bottom(saved'[t], ~(booting' /\ t = main),
                                 IF t = currentThread' THEN inCallBack' ELSE 0)
    BY <1>1, <2>3
  <2> QED
    BY <1>1, <1>2, <1>3, <1>4, <2>4 DEF Levels, Bottom
<1>6. TypeOK'
  BY <1>1, <1>3 DEF IInv, TypeOK
<1>7. Where'
  <2>1. Where /\ Len(saved[main]) = 0
    BY <1>1 DEF IInv
  <2> QED
    BY <1>1, <1>3, <2>1 DEF Where
<1> QED
  BY <1>3, <1>5, <1>6, <1>7 DEF IInv

(* Scheduler::Run goes on in another thread, in its critical section. *)
LEMMA SwitchInv ==
  ASSUME InterruptAssumption, IInv, NEW t \in Thread, Switch(t)
  PROVE  IInv'
<1>1. /\ InKernel /\ level = "IntOff" /\ saved[currentThread] # << >>
      /\ t \in started /\ t # currentThread /\ currentThread' = t
      /\ UNCHANGED <<level, status, pending, due, inHandler, checking, handling,
                     inCallBack, saved, started, booting, machine>>
  BY DEF Switch
<1>2. checking = NULL /\ handling = NULL /\ inCallBack = 0 /\ status = "SystemMode"
  BY <1>1, CurrentFacts DEF InKernel, InCode
<1>3. NULL # "OneTick" /\ NULL # "Idle"
  BY DEF InterruptAssumption
<1>4. saved[t] # << >>
  BY <1>1 DEF IInv, Levels
<1>5. Levels'
  <2>1. ASSUME NEW u \in Thread PROVE Bottom(saved[u], ~(booting /\ u = main), 0)
    BY <1>2 DEF IInv, Levels
  <2>2. \A u \in Thread : Bottom(saved'[u], ~(booting' /\ u = main),
                                 IF u = currentThread' THEN inCallBack' ELSE 0)
    BY <1>1, <1>2, <2>1
  <2>3. \A u \in started' \ {currentThread'} : saved'[u] # << >>
    BY <1>1 DEF IInv, Levels
  <2> QED
    BY <1>1, <1>2, <1>4, <2>2, <2>3 DEF IInv, Levels, Bottom
<1>6. DueTimes'
  BY <1>1, SameTimes DEF IInv, DueTimes
<1>7. TypeOK'
  BY <1>1 DEF IInv, TypeOK
<1>8. Where'
  <2>1. Len(saved[t]) \in Nat
    BY DEF IInv, TypeOK
  <2> QED
    BY <1>1, <1>2, <1>3, <2>1 DEF IInv, Where
<1> QED
  BY <1>5, <1>6, <1>7, <1>8 DEF IInv

(* Scheduler::Run starts a thread, which enables interrupts. *)
LEMMA BeginInv ==
  ASSUME InterruptAssumption, IInv, NEW t \in Thread, Begin(t)
  PROVE  IInv'
<1>1. /\ InKernel /\ ~booting /\ level = "IntOff" /\ saved[currentThread] # << >>
      /\ t \notin started /\ currentThread' = t /\ started' = started \union {t}
      /\ SetLevel("IntOn", level)
      /\ UNCHANGED <<status, handling, inCallBack, saved, booting>>
  BY DEF Begin
<1>2. /\ machine' = "up" /\ level' = "IntOff" /\ checking' = "OneTick"
      /\ inHandler' = inHandler /\ ~inHandler /\ handling = NULL
      /\ inCallBack = 0 /\ status = "SystemMode"
      /\ DueTimes' /\ pending' \in Seq(Device) /\ due' \in [Device -> Int]
  BY <1>1, EnableStep
<1>3. NULL # "OneTick"
  BY DEF InterruptAssumption
<1>4. saved[t] = << >> /\ Len(saved[t]) = 0
  BY <1>1 DEF IInv, Where
<1>5. Levels'
  <2>1. ASSUME NEW u \in Thread PROVE Bottom(saved[u], ~(booting /\ u = main), 0)
    BY <1>2 DEF IInv, Levels
  <2>2. \A u \in Thread : Bottom(saved'[u], ~(booting' /\ u = main),
                                 IF u = currentThread' THEN inCallBack' ELSE 0)
    BY <1>1, <1>2, <2>1
  <2>3. \A u \in started' \ {currentThread'} : saved'[u] # << >>
    BY <1>1 DEF IInv, Levels
  <2> QED
    BY <1>1, <1>2, <1>3, <2>2, <2>3 DEF Levels, Bottom
<1>6. TypeOK'
  BY <1>1, <1>2 DEF IInv, TypeOK
<1>7. Where'
  BY <1>1, <1>2, <1>3, <1>4 DEF IInv, Where
<1> QED
  BY <1>2, <1>5, <1>6, <1>7 DEF IInv

(* Machine::Run and an exception: only the mode changes. *)
LEMMA ModeInv ==
  ASSUME InterruptAssumption, IInv, EnterUser \/ RaiseException
  PROVE  IInv'
<1>1. /\ InCode /\ status' \in {"UserMode", "SystemMode"}
      /\ UNCHANGED <<level, pending, due, inHandler, checking, handling,
                     inCallBack, currentThread, saved, started, booting, machine>>
  BY DEF EnterUser, RaiseException, InKernel, threads
<1>2. checking = NULL /\ inCallBack = 0
  BY <1>1, CurrentFacts DEF InCode
<1>3. status' = "UserMode" => Len(saved[currentThread]) = 0 /\ ~booting
  <2>1. status' = "UserMode" => EnterUser
    BY DEF RaiseException
  <2>2. EnterUser => saved[currentThread] = << >> /\ level = "IntOn"
    BY DEF EnterUser
  <2> QED
    BY <1>2, <2>1, <2>2 DEF IInv, Levels
<1>4. Levels'
  BY <1>1 DEF IInv, Levels, Bottom
<1>5. DueTimes'
  BY <1>1, SameTimes DEF IInv, DueTimes
<1>6. TypeOK'
  BY <1>1 DEF IInv, TypeOK
<1>7. Where'
  BY <1>1, <1>2, <1>3 DEF IInv, Where, InterruptAssumption
<1> QED
  BY <1>4, <1>5, <1>6, <1>7 DEF IInv

(* An instruction of a user program. *)
LEMMA UserInv ==
  ASSUME InterruptAssumption, IInv, UserInstruction
  PROVE  IInv'
<1>1. /\ InCode /\ status = "UserMode" /\ OneTick
      /\ UNCHANGED <<status, handling, inCallBack, currentThread, saved, started,
                     booting, machine>>
  BY DEF UserInstruction, threads
<1>2. /\ checking = NULL /\ handling = NULL /\ inCallBack = 0 /\ ~inHandler
      /\ machine = "up"
  BY <1>1, CurrentFacts DEF InCode
<1>3. level' = "IntOff" /\ checking' = "OneTick" /\ inHandler' = inHandler
  BY <1>1 DEF OneTick
<1>4. DueTimes' /\ pending' \in Seq(Device) /\ due' \in [Device -> Int]
  BY <1>1, <1>2, TickTimes
<1>5. Len(saved[currentThread]) = 0 /\ ~booting
  BY <1>1, <1>2 DEF IInv, Where
<1>6. NULL # "OneTick"
  BY DEF InterruptAssumption
<1>7. Levels'
  BY <1>1, <1>2, <1>3, <1>6 DEF IInv, Levels, Bottom
<1>8. TypeOK'
  BY <1>1, <1>3, <1>4 DEF IInv, TypeOK
<1>9. Where'
  BY <1>1, <1>2, <1>3, <1>5, <1>6 DEF IInv, Where
<1> QED
  BY <1>4, <1>7, <1>8, <1>9 DEF IInv

(* A request to a device. *)
LEMMA RequestInv ==
  ASSUME InterruptAssumption, IInv, NEW d \in Device, NEW n \in Delay[d],
         Request(d, n)
  PROVE  IInv'
<1>1. /\ InKernel /\ d \notin Periodic /\ ~IsInList(pending, d) /\ Schedule(d, n)
      /\ UNCHANGED <<level, status, inHandler, checking, handling, inCallBack,
                     currentThread, saved, started, booting, machine>>
  BY DEF Request, threads
<1>2. n \in Nat /\ n > 0 /\ SystemTick \in Nat /\ Periodic \subseteq Device
  BY DEF InterruptAssumption
<1>3. checking = NULL /\ handling = NULL
  BY <1>1, CurrentFacts DEF InKernel, InCode
<1>4. /\ pending' \in Seq(Device) /\ due' \in [Device -> Int]
      /\ IsInjective(pending)' /\ Sorted(pending, due)'
      /\ \A e : IsInList(pending, e)' <=> IsInList(pending, e) \/ e = d
      /\ due'[d] = n /\ \A e \in Device : e # d => due'[e] = due[e]
  BY <1>1, <1>2, ScheduleFacts DEF IInv
<1>5. DueTimes'
  <2>1. DueTimes /\ due \in [Device -> Int]
    BY DEF IInv, TypeOK
  <2>2. \A e \in Device : IsInList(pending, e)' => due'[e] > 0
    BY <1>2, <1>3, <1>4, <2>1 DEF DueTimes
  <2>3. \A e \in Device : IsInList(pending, e)' => due'[e] > -SystemTick
    BY <1>2, <1>4, <2>2
  <2>4. \A e \in Periodic : IsInList(pending, e)' <=> handling' # e
    BY <1>1, <1>4, <2>1 DEF DueTimes
  <2> QED
    BY <1>1, <1>3, <1>4, <2>1, <2>2, <2>3, <2>4 DEF DueTimes
<1>6. Levels'
  BY <1>1 DEF IInv, Levels, Bottom
<1>7. TypeOK'
  BY <1>1, <1>4 DEF IInv, TypeOK
<1>8. Where'
  BY <1>1 DEF IInv, Where
<1> QED
  BY <1>5, <1>6, <1>7, <1>8 DEF IInv

(* Interrupt::Idle finds an interrupt pending: the timer's at least. *)
LEMMA IdleInv ==
  ASSUME InterruptAssumption, IInv, Idle
  PROVE  IInv'
<1>1. InKernel /\ level = "IntOff" /\ saved[currentThread] # << >>
  BY DEF Idle
<1>2. /\ checking = NULL /\ handling = NULL /\ inCallBack = 0 /\ ~inHandler
      /\ machine = "up" /\ status = "SystemMode"
      /\ saved[currentThread] \in Seq(LevelSet)
  BY <1>1, CurrentFacts DEF InKernel, InCode
<1>3. NULL # "Idle" /\ NULL \notin Device /\ Periodic \subseteq Device /\ Periodic # {}
  BY DEF InterruptAssumption
<1>4. pending # << >> /\ pending \in Seq(Device) /\ due \in [Device -> Int]
  <2>1. PICK d \in Periodic : TRUE
    BY <1>3
  <2>2. IsInList(pending, d)
    BY <1>2, <1>3 DEF IInv, DueTimes
  <2>3. pending # << >>
    BY <2>2 DEF IsInList, Contains
  <2> QED
    BY <2>3 DEF IInv, TypeOK
<1> DEFINE n == due[Head(pending)]
<1>5. /\ Advance(n) /\ status' = "IdleMode" /\ checking' = "Idle"
      /\ UNCHANGED <<machine, level, pending, inHandler, handling, inCallBack,
                     currentThread, saved, started, booting>>
  BY <1>4 DEF Idle, threads
<1>6. n \in Int
  BY <1>4
<1>7. \A d \in Device : IsInList(pending, d) => n <= due[d]
  BY <1>4, TailSorted DEF IInv, DueTimes
<1> HIDE DEF n
<1>8. \A d \in Device : IsInList(pending, d) => due[d] - n > -SystemTick
  <2>1. SystemTick \in Nat /\ SystemTick > 0 /\ \A d \in Device : due[d] \in Int
    BY <1>4 DEF InterruptAssumption
  <2> QED
    BY <1>6, <1>7, <2>1
<1>9. DueTimes' /\ pending' \in Seq(Device) /\ due' \in [Device -> Int]
  <2>1. checking' # NULL /\ machine' # "halted" /\ handling' = NULL
    BY <1>2, <1>3, <1>5
  <2>2. pending' = pending
    BY <1>5
  <2> QED
    BY <1>2, <1>5, <1>6, <1>8, <2>1, <2>2, AdvanceTimes DEF IInv
<1>10. Len(saved[currentThread]) > 0
  BY <1>1, <1>2
<1>11. Levels'
  BY <1>1, <1>2, <1>3, <1>5 DEF IInv, Levels, Bottom
<1>12. TypeOK'
  BY <1>5, <1>9 DEF IInv, TypeOK
<1>13. Where'
  BY <1>2, <1>3, <1>5, <1>10 DEF IInv, Where
<1> QED
  BY <1>9, <1>11, <1>12, <1>13 DEF IInv

(* CheckIfDue takes an interrupt off the list and calls its handler. *)
LEMMA FireInv ==
  ASSUME InterruptAssumption, IInv, Fire
  PROVE  IInv'
<1> DEFINE d == Head(pending)
<1>1. /\ machine = "up" /\ checking # NULL /\ handling = NULL /\ pending # << >>
      /\ pending' = Tail(pending) /\ handling' = d
      /\ due' = [due EXCEPT ![d] = 0] /\ inHandler' = TRUE
      /\ UNCHANGED <<level, status, checking, inCallBack, currentThread, saved,
                     started, booting, machine>>
  BY DEF Fire, Due, threads
<1>2. /\ pending \in Seq(Device) /\ due \in [Device -> Int]
      /\ IsInjective(pending) /\ Sorted(pending, due)
      /\ NULL \notin Device /\ Periodic \subseteq Device
  BY DEF IInv, TypeOK, DueTimes, InterruptAssumption
<1>3. /\ d \in Device /\ pending' \in Seq(Device) /\ IsInjective(pending')
      /\ \A e : IsInList(pending, e) <=> IsInList(pending', e) \/ e = d
      /\ ~IsInList(pending', d) /\ Sorted(pending', due)
  BY <1>1, <1>2, TailFacts, TailSorted
<1> HIDE DEF d
<1>4. due' \in [Device -> Int] /\ \A e \in Device : e # d => due'[e] = due[e]
  BY <1>1, <1>2, <1>3
<1>5. Sorted(pending', due')
  <2>1. \A i \in 1..Len(pending') : pending'[i] \in Device /\ pending'[i] # d
    BY <1>3 DEF IsInList, Contains
  <2> QED
    BY <1>3, <1>4, <2>1 DEF Sorted
<1>6. DueTimes'
  <2>1. \A e \in Device : IsInList(pending', e) => due'[e] > -SystemTick
    BY <1>3, <1>4 DEF IInv, DueTimes
  <2>2. \A e \in Periodic : IsInList(pending', e) <=> handling' # e
    BY <1>1, <1>2, <1>3 DEF IInv, DueTimes
  <2>3. /\ IsInjective(pending)' /\ Sorted(pending, due)'
        /\ \A e : IsInList(pending, e)' <=> IsInList(pending', e)
    BY <1>3, <1>5 DEF IsInjective, Sorted, IsInList, Contains
  <2>4. ~IsInList(pending, handling)'
    BY <1>1, <1>3 DEF IsInList, Contains
  <2> QED
    BY <1>1, <2>1, <2>2, <2>3, <2>4 DEF DueTimes
<1>7. Levels'
  BY <1>1 DEF IInv, Levels, Bottom
<1>8. TypeOK'
  BY <1>1, <1>3, <1>4 DEF IInv, TypeOK
<1>9. Where'
  BY <1>1, <1>2, <1>3 DEF IInv, Where
<1> QED
  BY <1>6, <1>7, <1>8, <1>9 DEF IInv

(* The handler returns, and its device may have been scheduled again. *)
LEMMA ReturnInv ==
  ASSUME InterruptAssumption, IInv, NEW again \in BOOLEAN, NEW n,
         CallBackReturns(again, n)
  PROVE  IInv'
<1> DEFINE d == handling
<1>1. /\ machine = "up" /\ d # NULL /\ inCallBack = 0 /\ n \in Delay[d]
      /\ d \in Periodic => again
      /\ handling' = NULL
      /\ UNCHANGED <<level, status, inHandler, checking, inCallBack,
                     currentThread, saved, started, booting, machine>>
  BY DEF CallBackReturns, threads
<1>2. /\ again => Schedule(d, n)
      /\ ~again => pending' = pending /\ due' = due
  BY DEF CallBackReturns
<1>3. /\ d \in Device /\ NULL \notin Device /\ Periodic \subseteq Device
      /\ pending \in Seq(Device) /\ due \in [Device -> Int]
      /\ checking # NULL
  BY <1>1 DEF IInv, TypeOK, Where, InterruptAssumption
<1>4. n \in Nat /\ n > 0 /\ SystemTick \in Nat
  BY <1>1, <1>3 DEF InterruptAssumption
<1>5. ~IsInList(pending, d)
  BY <1>1 DEF IInv, DueTimes
<1>6. DueTimes' /\ pending' \in Seq(Device) /\ due' \in [Device -> Int]
  <2>1. CASE again
    <3>1. /\ pending' \in Seq(Device) /\ due' \in [Device -> Int]
          /\ IsInjective(pending)' /\ Sorted(pending, due)'
          /\ \A e : IsInList(pending, e)' <=> IsInList(pending, e) \/ e = d
          /\ due'[d] = n /\ \A e \in Device : e # d => due'[e] = due[e]
      BY <1>2, <1>3, <1>4, <1>5, <2>1, ScheduleFacts DEF IInv
    <3>2. \A e \in Device : IsInList(pending, e)' => due'[e] > -SystemTick
      BY <1>4, <3>1 DEF IInv, DueTimes
    <3>3. \A e \in Periodic : IsInList(pending, e)' <=> handling' # e
      BY <1>1, <1>3, <3>1 DEF IInv, DueTimes
    <3> QED
      BY <1>1, <1>3, <3>1, <3>2, <3>3 DEF DueTimes
  <2>2. CASE ~again
    <3>1. pending' = pending /\ due' = due /\ d \notin Periodic
      BY <1>1, <1>2, <2>2
    <3>2. \A e : IsInList(pending, e)' <=> IsInList(pending, e)
      BY <3>1 DEF IsInList, Contains
    <3>3. IsInjective(pending)' /\ Sorted(pending, due)'
      BY <3>1 DEF IInv, DueTimes, IsInjective, Sorted
    <3>4. \A e \in Periodic : IsInList(pending, e)' <=> handling' # e
      BY <1>1, <1>3, <3>1, <3>2 DEF IInv, DueTimes
    <3> QED
      BY <1>1, <1>3, <3>1, <3>2, <3>3, <3>4 DEF IInv, DueTimes
  <2> QED
    BY <2>1, <2>2
<1>7. Levels'
  BY <1>1 DEF IInv, Levels, Bottom
<1>8. TypeOK'
  BY <1>1, <1>6 DEF IInv, TypeOK
<1>9. Where'
  BY <1>1, <1>3 DEF IInv, Where
<1> QED
  BY <1>6, <1>7, <1>8, <1>9 DEF IInv

(* No more interrupts are due: the code of the thread goes on. *)
LEMMA CheckedInv ==
  ASSUME InterruptAssumption, IInv, Checked
  PROVE  IInv'
<1>1. /\ machine = "up" /\ checking # NULL /\ handling = NULL /\ ~Due
      /\ inHandler' = FALSE /\ checking' = NULL
      /\ level' = IF checking = "OneTick" THEN "IntOn" ELSE level
      /\ status' = IF checking = "Idle" THEN "SystemMode" ELSE status
      /\ UNCHANGED <<pending, due, handling, inCallBack, currentThread, saved,
                     started, booting, machine>>
  BY DEF Checked, threads
<1>2. /\ inCallBack = 0 /\ level = "IntOff"
      /\ checking \in {"OneTick", "Idle"}
      /\ saved[currentThread] \in Seq(LevelSet)
      /\ checking = "OneTick" => Len(saved[currentThread]) = 0 /\ ~booting
      /\ checking = "Idle" => Len(saved[currentThread]) > 0
  BY <1>1, CurrentFacts DEF IInv, TypeOK, Where, Levels
<1>3. NULL # "OneTick" /\ NULL # "Idle"
  BY DEF InterruptAssumption
<1>4. saved[currentThread] = << >> <=> Len(saved[currentThread]) = 0
  BY <1>2
<1>5. Levels'
  <2>1. level' = "IntOff" <=> saved[currentThread] # << >> \/ booting
    BY <1>1, <1>2, <1>4
  <2> QED
    BY <1>1, <2>1 DEF IInv, Levels, Bottom
<1>6. \A d \in Device : IsInList(pending, d) => due[d] > 0
  <2>1. pending \in Seq(Device) /\ due \in [Device -> Int]
    BY DEF IInv, TypeOK
  <2>2. CASE pending = << >>
    BY <2>2 DEF IsInList, Contains
  <2>3. CASE pending # << >>
    <3>1. Head(pending) \in Device /\ due[Head(pending)] > 0
      BY <1>1, <2>1, <2>3 DEF Due
    <3>2. \A d : IsInList(pending, d) => due[Head(pending)] <= due[d]
      BY <2>1, <2>3, TailSorted DEF IInv, DueTimes
    <3> QED
      BY <2>1, <3>1, <3>2
  <2> QED
    BY <2>2, <2>3
<1>7. DueTimes'
  <2>1. \A e : IsInList(pending, e)' <=> IsInList(pending, e)
    BY <1>1 DEF IsInList, Contains
  <2>2. IsInjective(pending)' /\ Sorted(pending, due)'
    BY <1>1 DEF IInv, DueTimes, IsInjective, Sorted
  <2> QED
    BY <1>1, <1>6, <2>1, <2>2 DEF IInv, DueTimes
<1>8. TypeOK'
  BY <1>1 DEF IInv, TypeOK
<1>9. Where'
  <2>1. status' = "UserMode" => status = "UserMode"
    BY <1>1
  <2>2. status' # "IdleMode"
    BY <1>1, <1>2 DEF IInv, Where
  <2> QED
    BY <1>1, <1>2, <1>3, <2>1, <2>2 DEF IInv, Where
<1> QED
  BY <1>5, <1>7, <1>8, <1>9 DEF IInv

-----------------------------------------------------------------------------
(* Initially the timer and the keyboard have their first interrupt pending *)
(* and interrupts are off.                                                 *)
LEMMA InitInv == InterruptAssumption /\ Init => IInv
<1> SUFFICES ASSUME InterruptAssumption, Init PROVE IInv
  OBVIOUS
<1> DEFINE S == Periodic \union Polling
           D == 1..Cardinality(S)
<1>1. S \subseteq Device /\ IsFiniteSet(Device) /\ NULL \notin Device
  BY DEF InterruptAssumption
<1>2. IsFiniteSet(S) /\ Cardinality(S) \in Nat
  <2> HIDE DEF S
  <2> QED
    BY <1>1, FS_Subset, FS_CardinalityType
<1>3. pending \in [D -> S] /\ \A i, j \in D : i # j => pending[i] # pending[j]
  BY DEF Init, SetToSeqs
<1> HIDE DEF S
<1>4. pending \in Seq(S) /\ pending \in Seq(Device) /\ Len(pending) = Cardinality(S)
  <2>1. pending \in Seq(S) /\ Len(pending) = Cardinality(S)
    BY <1>2, <1>3
  <2>2. pending \in [D -> Device]
    BY <1>1, <1>3
  <2>3. pending \in Seq(Device)
    BY <1>2, <2>2
  <2> QED
    BY <2>1, <2>3
<1>5. \A d \in S : \E i \in D : pending[i] = d
  <2>1. pending \in Injection(D, S)
    BY <1>3 DEF Injection, IsInjective
  <2>2. Cardinality(D) = Cardinality(S)
    <3>1. 1 \in Int /\ Cardinality(S) \in Int
      BY <1>2
    <3> QED
      BY <1>2, <3>1, FS_Interval
  <2>3. pending \in Surjection(D, S)
    BY <1>2, <2>1, <2>2, FS_Injection
  <2> QED
    BY <2>3 DEF Surjection
<1>6. \A d : IsInList(pending, d) <=> d \in S
  <2>1. \A d : IsInList(pending, d) <=> \E i \in D : pending[i] = d
    BY <1>4 DEF IsInList, Contains
  <2> QED
    BY <1>3, <1>5, <2>1
<1>7. due \in [Device -> Int] /\ \A d \in S : due[d] > 0
  <2>1. \A d \in Device : Delay[d] \subseteq Nat \ {0}
    BY DEF InterruptAssumption
  <2>2. \A d \in Device : due[d] \in IF d \in S THEN Delay[d] ELSE {0}
    BY DEF Init, S
  <2>3. due = [d \in Device |-> due[d]]
    BY DEF Init
  <2>4. \A d \in Device : due[d] \in Int
    BY <2>1, <2>2
  <2> QED
    BY <1>1, <2>1, <2>2, <2>3, <2>4
<1>8. DueTimes
  <2>1. IsInjective(pending)
    BY <1>3 DEF IsInjective
  <2>2. Sorted(pending, due)
    BY <1>4 DEF Init, Sorted
  <2>3. SystemTick \in Nat
    BY DEF InterruptAssumption
  <2>4. \A d \in Device : IsInList(pending, d) => due[d] > 0 /\ due[d] > -SystemTick
    BY <1>6, <1>7, <2>3
  <2>5. Periodic \subseteq S
    BY DEF S
  <2> QED
    BY <1>1, <1>6, <2>1, <2>2, <2>4, <2>5 DEF Init, DueTimes
<1>9. TypeOK
  <2>1. main \in Thread
    BY DEF InterruptAssumption
  <2>2. /\ level = "IntOff" /\ status = "SystemMode" /\ inHandler = FALSE
        /\ checking = NULL /\ handling = NULL /\ inCallBack = 0
        /\ currentThread = main /\ started = {main} /\ booting = TRUE
        /\ machine = "up" /\ saved = [t \in Thread |-> << >>]
    BY DEF Init
  <2>3. saved \in [Thread -> Seq(LevelSet)] /\ LevelSet = {"IntOn", "IntOff"}
    BY <2>2 DEF LevelSet
  <2> QED
    BY <1>4, <1>7, <2>1, <2>2, <2>3 DEF TypeOK
<1>10. Levels
  <2>1. \A own, k : Bottom(<< >>, own, k)
    BY DEF Bottom
  <2> QED
    BY <2>1 DEF Init, Levels, InterruptAssumption
<1>11. Where
  BY DEF Init, Where, InterruptAssumption
<1> QED
  BY <1>8, <1>9, <1>10, <1>11 DEF IInv

(* Every step keeps the invariant. *)
LEMMA NextInv == InterruptAssumption /\ IInv /\ [Next]_vars => IInv'
<1> SUFFICES ASSUME InterruptAssumption, IInv, [Next]_vars PROVE IInv'
  OBVIOUS
<1>1. CASE \E t \in Thread : Switch(t) \/ Begin(t)
  BY <1>1, SwitchInv, BeginInv
<1>2. CASE \E d \in Device : \E n \in Delay[d] : Request(d, n)
  BY <1>2, RequestInv
<1>3. CASE \E again \in BOOLEAN : \E n : CallBackReturns(again, n)
  BY <1>3, ReturnInv
<1>4. CASE UNCHANGED vars
  <2>1. UNCHANGED <<level, status, pending, due, inHandler, checking, handling,
                    inCallBack, currentThread, saved, started, booting, machine>>
    BY <1>4 DEF vars, threads
  <2>2. DueTimes'
    BY <2>1, SameTimes DEF IInv, DueTimes
  <2>3. TypeOK' /\ Where'
    BY <2>1 DEF IInv, TypeOK, Where
  <2>4. Levels'
    BY <2>1 DEF IInv, Levels, Bottom
  <2> QED
    BY <2>2, <2>3, <2>4 DEF IInv
<1>5. CASE Disable \/ Restore \/ Boot
  BY <1>5, DisableInv, RestoreInv, BootInv
<1>6. CASE EnterUser \/ RaiseException \/ UserInstruction
  BY <1>6, ModeInv, UserInv
<1>7. CASE Idle \/ Fire \/ Checked
  BY <1>7, IdleInv, FireInv, CheckedInv
<1> QED
  BY <1>1, <1>2, <1>3, <1>4, <1>5, <1>6, <1>7 DEF Next

(* The inductive invariant holds in every behaviour. *)
LEMMA Invariance ==
  ASSUME InterruptAssumption PROVE Spec => []IInv
<1>1. Init => IInv
  BY InitInv
<1>2. IInv /\ [Next]_vars => IInv'
  BY NextInv
<1> QED
  BY <1>1, <1>2, PTL DEF Spec

(* Interrupt::CheckIfDue handles every interrupt before more code runs and *)
(* in the order of their times, and the timer never stops, so that         *)
(* Interrupt::Idle never halts the machine.                                *)
THEOREM InterruptsOnTime ==
  ASSUME InterruptAssumption PROVE Spec => []HandledOnTime
<1>1. IInv => HandledOnTime
  <2> SUFFICES ASSUME IInv PROVE OnTime /\ TimerPending
    BY DEF HandledOnTime
  <2>1. /\ pending \in Seq(Device) /\ due \in [Device -> Int]
        /\ DOMAIN pending = 1..Len(pending)
    BY DEF IInv, TypeOK
  <2>2. \A i \in DOMAIN pending : pending[i] \in Device /\ IsInList(pending, pending[i])
    BY <2>1 DEF IsInList, Contains
  <2>3. ASSUME NEW i \in DOMAIN pending, NEW j \in DOMAIN pending, i <= j
        PROVE  due[pending[i]] <= due[pending[j]]
    <3>1. due[pending[i]] \in Int
      BY <2>1, <2>2
    <3>2. CASE i = j
      BY <3>1, <3>2
    <3>3. CASE i < j
      BY <2>1, <3>3 DEF IInv, DueTimes, Sorted
    <3> QED
      BY <2>1, <2>3, <3>2, <3>3
  <2>4. OnTime
    BY <2>2, <2>3 DEF OnTime, IInv, DueTimes
  <2> QED
    BY <2>4 DEF TimerPending, IInv, DueTimes
<1> QED
  BY <1>1, Invariance, PTL

(* SetLevel pairs up: interrupts are off in every critical section and     *)
(* handler, and every thread gets back the level that it had, through      *)
(* nested sections, handlers on its stack and context switches.            *)
THEOREM LevelsAreRestored ==
  ASSUME InterruptAssumption PROVE Spec => []LevelRestored
<1>1. IInv => LevelRestored
  <2> SUFFICES ASSUME IInv PROVE LevelRestored
    OBVIOUS
  <2>1. /\ \A t \in Thread : saved[t] \in Seq(LevelSet)
        /\ booting => currentThread = main
    BY DEF IInv, TypeOK, Where, LevelSet
  <2>2. ASSUME NEW t \in Thread, NEW i \in DOMAIN saved[t]
        PROVE  saved[t][i] = "IntOn" <=>
                 /\ i = Len(saved[t])
                 /\ ~(booting /\ t = main)
                 /\ ~(t = currentThread /\ inCallBack = i)
    <3>1. Bottom(saved[t], ~(booting /\ t = main),
                 IF t = currentThread THEN inCallBack ELSE 0)
      BY DEF IInv, Levels
    <3>2. i # 0
      BY <2>1
    <3> QED
      BY <3>1, <3>2 DEF Bottom
  <2> QED
    BY <2>1, <2>2 DEF IInv, Levels, LevelRestored
<1> QED
  BY <1>1, Invariance, PTL
-----------------------------------------------------------------------------
(* The loader.                                                             *)
Word == {w \in Nat : w < 65536}
Octet == {b \in Nat : b < 256}

(* A word in the file is little-endian, whichever host has written it, and *)
(* swapped as often as it has to be is itself.                             *)
LEMMA HighAndLow ==
  ASSUME NEW w \in Word
  PROVE  \E h \in Octet, l \in Octet :
           h = w \div 256 /\ l = w % 256 /\ w = 256 * h + l
<1>1. w \in Int /\ 0 <= w /\ w <= 65535
  BY DEF Word
<1>2. w \div 256 \in Octet /\ w % 256 \in Octet
  BY <1>1 DEF Octet
<1>3. w = 256 * (w \div 256) + (w % 256)
  BY <1>1
<1> QED
  BY <1>2, <1>3

LEMMA Swapped ==
  ASSUME NEW w \in Word
  PROVE  Ld!Swap(w) \in Word /\ Ld!Swap(Ld!Swap(w)) = w
<1>1. PICK h \in Octet, l \in Octet :
        h = w \div 256 /\ l = w % 256 /\ w = 256 * h + l
  BY HighAndLow
<1>2. Ld!Swap(w) = l * 256 + h
  BY <1>1 DEF Ld!Swap
<1>3. (l * 256 + h) \div 256 = l /\ (l * 256 + h) % 256 = h
  BY <1>1 DEF Octet
<1>4. Ld!Swap(l * 256 + h) = h * 256 + l
  BY <1>3 DEF Ld!Swap
<1>5. l * 256 + h \in Word /\ h * 256 + l = w
  <2>1. l * 256 \in Int /\ 0 <= l * 256 /\ l * 256 <= 65280
    BY <1>1
  <2>2. h * 256 = 256 * h
    BY <1>1
  <2>3. l * 256 + h <= 65535 /\ 0 <= l * 256 + h /\ l * 256 + h \in Int
    BY <1>1, <2>1 DEF Octet
  <2>4. l * 256 + h \in Word
    <3>1. \A z \in Int : 0 <= z /\ z <= 65535 => z \in Word
      BY DEF Word
    <3> QED
      BY <2>3, <3>1
  <2>5. h * 256 + l = w
    BY <1>1, <2>2
  <2> QED
    BY <2>4, <2>5
<1> QED
  BY <1>2, <1>4, <1>5

LEMMA ReadBack ==
  ASSUME NEW w \in Word, NEW o1 \in Ld!Order, NEW o2 \in Ld!Order
  PROVE  Ld!FromBytes(Ld!Bytes(Ld!WordToHost(w, o1), o1), o2)
           = Ld!WordToHost(w, o2)
<1>1. PICK h \in Octet, l \in Octet :
        h = w \div 256 /\ l = w % 256 /\ w = 256 * h + l
  BY HighAndLow
<1>2. Ld!Swap(w) = l * 256 + h
  BY <1>1 DEF Ld!Swap
<1>3. (l * 256 + h) \div 256 = l /\ (l * 256 + h) % 256 = h
  BY <1>1 DEF Octet
<1>4. Ld!Bytes(Ld!WordToHost(w, o1), o1) = <<l, h>>
  <2>1. CASE o1 = "little"
    BY <1>1, <2>1 DEF Ld!Bytes, Ld!WordToHost
  <2>2. CASE o1 = "big"
    BY <1>2, <1>3, <2>2 DEF Ld!Bytes, Ld!WordToHost
  <2> QED
    BY <2>1, <2>2 DEF Ld!Order
<1>5. Ld!FromBytes(<<l, h>>, o2) = IF o2 = "little" THEN l + 256 * h ELSE 256 * l + h
  BY DEF Ld!FromBytes
<1>6. Ld!WordToHost(w, o2) = IF o2 = "little" THEN 256 * h + l ELSE l * 256 + h
  BY <1>1, <1>2 DEF Ld!WordToHost, Ld!Order
<1> QED
  BY <1>4, <1>5, <1>6 DEF Octet

-----------------------------------------------------------------------------
Header == [magic : Word,
           segment : [Ld!Segment -> [virtualAddr : Nat, inFileAddr : Nat, size : Nat]]]

SizeSum(h) == h.segment["code"].size + h.segment["initData"].size
              + h.segment["readonlyData"].size + h.segment["uninitData"].size

(* The sections before the one where coff2noff is; r is where they end. *)
Before == {n \in Ld!Filled : n < section}
EndsAt(r) ==
  /\ \A m \in Before : Ld!EndOf(m) <= r
  /\ r # 0 => \E m \in Before : Ld!EndOf(m) = r

NameOf(s) == IF s = "code" THEN ".text" ELSE IF s = "initData" THEN ".data"
             ELSE IF s = "readonlyData" THEN ".rdata" ELSE ".bss"

(* What coff2noff has written of a contiguous program. *)
Copied ==
  /\ \A n \in Before : coff.sections[n].name # ".bss" =>
       \A k \in 0..(Len(coff.sections[n].data) - 1) :
         /\ coff.sections[n].paddr + k < Len(file.body)
         /\ file.body[coff.sections[n].paddr + k + 1] = coff.sections[n].data[k + 1]
  /\ (\A n \in Before : coff.sections[n].name # ".bss") => EndsAt(Len(file.body))

(* What the header says of it.  A segment has a size only if a section     *)
(* before has given it one.                                                *)
Counted ==
  /\ \A s \in Ld!Segment : noffH.segment[s].size # 0 =>
       \E m \in Before : coff.sections[m].name = NameOf(s)
  /\ Ld!Contiguous => EndsAt(SizeSum(noffH))

(* The header in the file. *)
Written == Ld!MapHeader(Ld!SwapHeader(noffH, builder),
                        LAMBDA w : Ld!Bytes(w, builder))

(* What has happened is as pc and the exit status say. *)
Stage ==
  /\ pc \in {"open", "headers", "sections", "exited", "runs"}
  /\ pc \in {"open", "headers", "sections"} => loading = -1
  /\ pc = "exited" => loading \in {0, 1}
  /\ pc = "runs" => loading = 0
  /\ pc = "open" => ~file.exists
  /\ pc \in {"headers", "sections"} => (file.exists <=> fault # "noOutput")
  /\ pc \in {"headers", "sections"} => fault # "noInput"
  /\ pc = "sections" => fault # "shortHeader"
  /\ loading = 1 => ~file.exists
  /\ loading = 0 => /\ file.exists /\ section = Len(coff.sections) + 1
                    /\ fault \in {"none", "shortSection"}
                    /\ file.header # << >>
  /\ pc = "exited" /\ loading = 0 =>
       file.header = Written
  /\ pc # "runs" => memory = << >>

Loaded ==
  \A v \in DOMAIN memory : \A k \in 0..(PageSize - 1) :
    memory[v][k] = Ld!FileByte(v * PageSize + HeaderSize + k)

LoaderInv ==
  /\ coff \in CoffFiles /\ fault \in Fault
  /\ builder \in Ld!Order /\ host \in Ld!Order
  /\ section \in 1..(Len(coff.sections) + 1)
  /\ pc # "runs" => noffH \in Header /\ noffH.magic = NOFFMAGIC
  /\ file.body \in Seq(Nat) /\ DOMAIN file = {"exists", "header", "body"}
  /\ Stage
  /\ loading # 1 /\ Ld!Contiguous => Copied
  /\ pc # "runs" /\ loading # 1 => Counted
  /\ pc = "runs" /\ Ld!Contiguous =>
       \A n \in Ld!Filled : numPages * PageSize >= Ld!EndOf(n) + UserStackSize
  /\ Loaded

-----------------------------------------------------------------------------
LEMMA FileFacts ==
  ASSUME coff \in CoffFiles
  PROVE  Ld!Linked(coff)
  BY LoaderAssumed DEF Ld!LoaderAssumption

LEMMA SectionFacts ==
  ASSUME coff \in CoffFiles, NEW n \in DOMAIN coff.sections
  PROVE  /\ n \in 1..Len(coff.sections) /\ n \in Nat
         /\ coff.sections[n].paddr \in Nat /\ coff.sections[n].data \in Seq(Nat)
         /\ Len(coff.sections[n].data) \in Nat
         /\ Ld!EndOf(n) \in Nat /\ Ld!EndOf(n) <= 65535
         /\ Ld!EndOf(n) = coff.sections[n].paddr + Len(coff.sections[n].data)
         /\ n \in Ld!Filled <=> Len(coff.sections[n].data) > 0
<1>1. coff.sections \in Seq(Ld!CoffSection)
  BY FileFacts DEF Ld!Linked
<1>2. coff.sections[n].paddr + Len(coff.sections[n].data) < 65536
  BY FileFacts DEF Ld!Linked
<1>3. n \in 1..Len(coff.sections) /\ n \in Nat
  BY <1>1
<1>4. coff.sections[n] \in Ld!CoffSection
  BY <1>1, <1>3
<1>5. coff.sections[n].paddr \in Nat /\ coff.sections[n].data \in Seq(Nat)
  BY <1>4 DEF Ld!CoffSection
<1>6. Len(coff.sections[n].data) \in Nat
  BY <1>5
<1>7. coff.sections[n].data # << >> <=> Len(coff.sections[n].data) > 0
  BY <1>5, <1>6, EmptySeq
<1> QED
  BY <1>2, <1>3, <1>5, <1>6, <1>7 DEF Ld!EndOf, Ld!Filled

LEMMA SectionsNumbered ==
  ASSUME coff \in CoffFiles
  PROVE  Len(coff.sections) \in Nat /\ DOMAIN coff.sections = 1..Len(coff.sections)
  BY FileFacts DEF Ld!Linked

LEMMA EndIsOne ==
  ASSUME coff \in CoffFiles, NEW q \in Nat, NEW r \in Nat, EndsAt(q), EndsAt(r)
  PROVE  q = r
<1>1. \A m \in Before : Ld!EndOf(m) \in Nat /\ Ld!EndOf(m) <= q /\ Ld!EndOf(m) <= r
  BY SectionFacts DEF EndsAt, Before, Ld!Filled
<1>2. CASE q # 0
  <2>1. q <= r
    BY <1>1, <1>2 DEF EndsAt
  <2>2. r # 0
    BY <1>2, <2>1
  <2> QED
    BY <1>1, <2>1, <2>2 DEF EndsAt
<1>3. CASE q = 0
  BY <1>1, <1>3 DEF EndsAt
<1> QED
  BY <1>2, <1>3

(* Where the next section of a contiguous program goes. *)
LEMMA NextEnd ==
  ASSUME coff \in CoffFiles, section \in Ld!Filled, Ld!Contiguous,
         section' = section + 1, coff' = coff
  PROVE  /\ EndsAt(coff.sections[section].paddr)
         /\ \A e : e = Ld!EndOf(section) => EndsAt(e)'
         /\ Before' = Before \union {section}
         /\ \A n \in Before : coff.sections[n].name = ".bss" =>
                                coff.sections[section].name = ".bss"
<1> DEFINE p == coff.sections[section].paddr
<1>1. section \in DOMAIN coff.sections /\ section \in Nat
  BY SectionFacts DEF Ld!Filled
<1>2. Ld!EndOf(section) \in Nat /\ p \in Nat /\ p < Ld!EndOf(section)
  BY <1>1, SectionFacts
<1>3. \A m \in Ld!Filled : m \in Nat /\ Ld!EndOf(m) \in Nat
  BY SectionFacts DEF Ld!Filled
<1>4. Ld!Filled' = Ld!Filled
  BY DEF Ld!Filled
<1>5. Before' = Before \union {section}
  BY <1>1, <1>3, <1>4 DEF Before
<1>6. EndsAt(p)
  BY <1>3 DEF EndsAt, Before, Ld!Contiguous
<1>7. ASSUME NEW e, e = Ld!EndOf(section) PROVE EndsAt(e)'
  <2>1. \A m \in Before' : Ld!EndOf(m) <= e
    BY <1>2, <1>3, <1>5, <1>6, <1>7 DEF EndsAt, Before
  <2>2. \A m : Ld!EndOf(m)' = Ld!EndOf(m)
    BY DEF Ld!EndOf
  <2> QED
    BY <1>5, <1>7, <2>1, <2>2 DEF EndsAt
<1>8. \A n \in Before : coff.sections[n].name = ".bss" =>
                          coff.sections[section].name = ".bss"
  BY <1>1, <1>3 DEF Before, Ld!Contiguous
<1> QED
  BY <1>5, <1>6, <1>7, <1>8

LEMMA LoaderInit ==
  ASSUME Ld!Init
  PROVE  LoaderInv
<1>1. /\ coff \in CoffFiles /\ fault \in Fault
      /\ builder \in Ld!Order /\ host \in Ld!Order
      /\ section = 1 /\ pc = "open" /\ loading = -1
  BY DEF Ld!Init
<1>2. noffH \in Header /\ noffH.magic = NOFFMAGIC
      /\ \A s \in Ld!Segment : noffH.segment[s].size = 0
  <2>1. NOFFMAGIC \in Word /\ Junk \in Nat
    BY LoaderAssumed DEF Word, Ld!LoaderAssumption
  <2>2. noffH = [magic |-> NOFFMAGIC,
                 segment |-> [s \in Ld!Segment |->
                    [virtualAddr |-> Junk, inFileAddr |-> Junk, size |-> 0]]]
    BY DEF Ld!Init, Ld!EmptyHeader
  <2>3. noffH.segment = [s \in Ld!Segment |->
                    [virtualAddr |-> Junk, inFileAddr |-> Junk, size |-> 0]]
    BY <2>2
  <2>4. noffH.segment \in [Ld!Segment -> [virtualAddr : Nat, inFileAddr : Nat, size : Nat]]
    BY <2>1, <2>3
  <2>5. noffH \in Header
    BY <2>1, <2>2, <2>4 DEF Header
  <2> QED
    BY <2>2, <2>3, <2>5
<1>3. file = [exists |-> FALSE, header |-> << >>, body |-> << >>]
  BY DEF Ld!Init, Ld!NoFile
<1>4. file.body = << >> /\ DOMAIN file = {"exists", "header", "body"} /\ ~file.exists
  BY <1>3
<1>5. section \in 1..(Len(coff.sections) + 1)
  BY <1>1, SectionsNumbered
<1>6. Before = {}
  BY <1>1, SectionFacts DEF Before, Ld!Filled
<1>7. memory = << >>
  BY DEF Ld!Init
<1>8. Stage
  BY <1>1, <1>4, <1>7 DEF Stage
<1>9. EndsAt(0)
  BY <1>6 DEF EndsAt
<1>10. Copied
  BY <1>4, <1>6, <1>9 DEF Copied
<1>11. Counted
  <2>1. SizeSum(noffH) = 0
    BY <1>2 DEF SizeSum, Ld!Segment
  <2> QED
    BY <1>2, <1>9, <2>1 DEF Counted
<1>12. Loaded
  BY <1>7 DEF Loaded
<1> QED
  BY <1>1, <1>2, <1>4, <1>5, <1>8, <1>10, <1>11, <1>12 DEF LoaderInv

(* coff2noff gives up: the file is gone. *)
LEMMA GaveUp ==
  ASSUME LoaderInv, Ld!GiveUp, pc \in {"headers", "sections"},
         UNCHANGED <<coff, fault, builder, host, numPages, memory>>
  PROVE  LoaderInv'
<1>1. /\ coff' \in CoffFiles /\ fault' \in Fault
      /\ builder' \in Ld!Order /\ host' \in Ld!Order
      /\ section' \in 1..(Len(coff'.sections) + 1)
      /\ pc' = "exited" /\ loading' = 1
      /\ noffH' = noffH /\ noffH \in Header /\ noffH.magic = NOFFMAGIC
      /\ memory' = memory /\ memory = << >>
  BY DEF LoaderInv, Ld!GiveUp, Ld!Ended, Stage
<1>2. file' = [exists |-> FALSE, header |-> << >>, body |-> << >>]
  BY DEF Ld!GiveUp, Ld!NoFile
<1>3. file'.body = << >> /\ DOMAIN file' = {"exists", "header", "body"} /\ ~file'.exists
  BY <1>2
<1>4. Stage'
  BY <1>1, <1>3 DEF Stage
<1>5. Loaded'
  BY <1>1 DEF Loaded
<1> QED
  BY <1>1, <1>3, <1>4, <1>5 DEF LoaderInv

(* A step of coff2noff that reads or writes nothing of a section. *)
LEMMA SameSections ==
  ASSUME LoaderInv, UNCHANGED <<coff, section, noffH, file>>
  PROVE  /\ Ld!Contiguous' <=> Ld!Contiguous
         /\ Copied' <=> Copied
         /\ Counted' <=> Counted
         /\ Ld!Filled' = Ld!Filled
         /\ \A n : Ld!EndOf(n)' = Ld!EndOf(n)
<1>1. Ld!Filled' = Ld!Filled
  BY DEF Ld!Filled
<1>2. \A n : Ld!EndOf(n)' = Ld!EndOf(n)
  BY DEF Ld!EndOf
<1>3. Ld!Contiguous' <=> Ld!Contiguous
  BY <1>1, <1>2 DEF Ld!Contiguous
<1>4. Before' = Before
  BY <1>1 DEF Before
<1>5. \A r : EndsAt(r)' <=> EndsAt(r)
  BY <1>2, <1>4 DEF EndsAt
<1>6. Copied' <=> Copied
  BY <1>4, <1>5 DEF Copied, EndsAt
<1>7. Counted' <=> Counted
  BY <1>3, <1>4, <1>5 DEF Counted
<1> QED
  BY <1>1, <1>2, <1>3, <1>6, <1>7

LEMMA OpenKeeps ==
  ASSUME LoaderInv, Ld!Open,
         UNCHANGED <<coff, fault, builder, host, numPages, memory>>
  PROVE  LoaderInv'
<1>1. /\ coff' = coff /\ fault' = fault /\ builder' = builder /\ host' = host
      /\ section' = section /\ noffH' = noffH /\ memory' = memory
      /\ pc = "open" /\ loading = -1 /\ memory = << >>
      /\ coff \in CoffFiles /\ fault \in Fault
      /\ builder \in Ld!Order /\ host \in Ld!Order
      /\ section \in 1..(Len(coff.sections) + 1)
      /\ noffH \in Header /\ noffH.magic = NOFFMAGIC
      /\ file.body \in Seq(Nat) /\ DOMAIN file = {"exists", "header", "body"}
      /\ ~file.exists /\ Counted /\ (Ld!Contiguous => Copied)
  BY DEF LoaderInv, Ld!Open, Stage
<1>2. Loaded'
  BY <1>1 DEF Loaded
<1>3. CASE fault = "noInput"
  <2>1. pc' = "exited" /\ loading' = 1 /\ file' = file
    BY <1>3 DEF Ld!Open, Ld!Ended
  <2>2. Stage'
    BY <1>1, <2>1 DEF Stage
  <2> QED
    BY <1>1, <1>2, <2>1, <2>2 DEF LoaderInv
<1>4. CASE fault # "noInput"
  <2>1. /\ pc' = "headers" /\ loading' = loading
        /\ file' = [file EXCEPT !.exists = fault # "noOutput"]
    BY <1>4 DEF Ld!Open
  <2>2. /\ file'.body = file.body /\ DOMAIN file' = DOMAIN file
        /\ file'.exists <=> fault # "noOutput"
    BY <1>1, <2>1
  <2>3. Stage'
    BY <1>1, <1>4, <2>1, <2>2 DEF Stage
  <2>4. \A r : EndsAt(r)' <=> EndsAt(r)
    BY <1>1 DEF EndsAt, Before, Ld!Filled, Ld!EndOf
  <2>5. Before' = Before
    BY <1>1 DEF Before, Ld!Filled
  <2>6. Copied' <=> Copied
    <3>1. \A n : Ld!EndOf(n)' = Ld!EndOf(n)
      BY <1>1 DEF Ld!EndOf
    <3> QED
      BY <1>1, <2>2, <2>4, <2>5, <3>1 DEF Copied, EndsAt
  <2>7. (Counted' <=> Counted) /\ (Ld!Contiguous' <=> Ld!Contiguous)
    <3>1. Ld!Contiguous' <=> Ld!Contiguous
      BY <1>1 DEF Ld!Contiguous, Ld!Filled, Ld!EndOf
    <3> QED
      BY <1>1, <2>4, <2>5, <3>1 DEF Counted
  <2> QED
    BY <1>1, <1>2, <2>1, <2>2, <2>3, <2>6, <2>7 DEF LoaderInv
<1> QED
  BY <1>3, <1>4

LEMMA ReadHeadersKeeps ==
  ASSUME LoaderInv, Ld!ReadHeaders,
         UNCHANGED <<coff, fault, builder, host, numPages, memory>>
  PROVE  LoaderInv'
<1>1. CASE coff.bad \/ fault = "shortHeader"
  BY <1>1, GaveUp DEF Ld!ReadHeaders
<1>2. CASE ~(coff.bad \/ fault = "shortHeader")
  <2>1. /\ coff' = coff /\ fault' = fault /\ builder' = builder /\ host' = host
        /\ section' = section /\ noffH' = noffH /\ memory' = memory
        /\ pc = "headers" /\ pc' = "sections" /\ loading' = loading
        /\ file' = file
    BY <1>2 DEF Ld!ReadHeaders
  <2>2. /\ coff \in CoffFiles /\ fault \in Fault
        /\ builder \in Ld!Order /\ host \in Ld!Order
        /\ section \in 1..(Len(coff.sections) + 1)
        /\ noffH \in Header /\ noffH.magic = NOFFMAGIC
        /\ file.body \in Seq(Nat) /\ DOMAIN file = {"exists", "header", "body"}
        /\ Counted /\ (Ld!Contiguous => Copied) /\ Stage /\ loading = -1
        /\ memory = << >>
    BY <2>1 DEF LoaderInv, Stage
  <2>3. Stage'
    BY <1>2, <2>1, <2>2 DEF Stage
  <2>4. Loaded'
    BY <2>1, <2>2 DEF Loaded
  <2> QED
    BY <2>1, <2>2, <2>3, <2>4, SameSections DEF LoaderInv
<1> QED
  BY <1>1, <1>2

(* What coff2noff knows while it goes from section to section. *)
LEMMA AtSection ==
  ASSUME LoaderInv, pc = "sections"
  PROVE  /\ coff \in CoffFiles /\ fault \in Fault
         /\ builder \in Ld!Order /\ host \in Ld!Order
         /\ section \in 1..(Len(coff.sections) + 1) /\ section \in Nat
         /\ Len(coff.sections) \in Nat
         /\ section <= Len(coff.sections) => section \in DOMAIN coff.sections
         /\ noffH \in Header /\ noffH.magic = NOFFMAGIC
         /\ file.body \in Seq(Nat) /\ DOMAIN file = {"exists", "header", "body"}
         /\ file.exists <=> fault # "noOutput"
         /\ fault # "noInput" /\ fault # "shortHeader"
         /\ Counted /\ (Ld!Contiguous => Copied) /\ loading = -1
         /\ memory = << >>
<1>1. coff \in CoffFiles /\ section \in 1..(Len(coff.sections) + 1)
  BY DEF LoaderInv
<1>2. /\ Len(coff.sections) \in Nat /\ section \in Nat
      /\ section <= Len(coff.sections) => section \in DOMAIN coff.sections
  BY <1>1, SectionsNumbered
<1> QED
  BY <1>1, <1>2 DEF LoaderInv, Stage

(* The invariant behind a section is a matter of header and file. *)
LEMMA OneMore ==
  ASSUME LoaderInv, pc = "sections", section <= Len(coff.sections),
         UNCHANGED <<coff, fault, builder, host, numPages, memory, pc, loading>>,
         section' = section + 1, noffH' \in Header, noffH'.magic = NOFFMAGIC,
         file'.body \in Seq(Nat), DOMAIN file' = DOMAIN file,
         file'.exists = file.exists, Counted', Ld!Contiguous => Copied'
  PROVE  LoaderInv'
<1>1. /\ coff \in CoffFiles /\ fault \in Fault
      /\ builder \in Ld!Order /\ host \in Ld!Order
      /\ DOMAIN file = {"exists", "header", "body"}
      /\ file.exists <=> fault # "noOutput"
      /\ fault # "noInput" /\ fault # "shortHeader"
      /\ loading = -1 /\ memory = << >>
      /\ section \in Nat /\ Len(coff.sections) \in Nat
      /\ section \in 1..(Len(coff.sections) + 1)
  BY AtSection
<1>2. section' \in 1..(Len(coff'.sections) + 1)
  BY <1>1
<1>3. Stage'
  BY <1>1 DEF Stage
<1>4. Loaded'
  BY <1>1 DEF Loaded
<1>5. Ld!Contiguous' <=> Ld!Contiguous
  BY DEF Ld!Contiguous, Ld!Filled, Ld!EndOf
<1> QED
  BY <1>1, <1>2, <1>3, <1>4, <1>5 DEF LoaderInv

LEMMA OtherSectionKeeps ==
  ASSUME LoaderInv, Ld!OtherSection,
         UNCHANGED <<coff, fault, builder, host, numPages, memory>>
  PROVE  LoaderInv'
<1>1. pc = "sections" /\ section <= Len(coff.sections)
  BY DEF Ld!OtherSection
<1>2. CASE Ld!GiveUp
  BY <1>1, <1>2, GaveUp
<1>3. CASE ~Ld!GiveUp
  <2>1. /\ Ld!Size = 0 /\ section' = section + 1
        /\ pc' = pc /\ file' = file /\ loading' = loading /\ noffH' = noffH
    BY <1>3 DEF Ld!OtherSection
  <2>2. section \in DOMAIN coff.sections /\ section \in Nat
    BY <1>1, AtSection
  <2>3. section \notin Ld!Filled
    BY <2>1, <2>2, AtSection, <1>1, SectionFacts DEF Ld!Size, Ld!Section
  <2>4. Ld!Filled' = Ld!Filled /\ \A n : Ld!EndOf(n)' = Ld!EndOf(n)
    BY DEF Ld!Filled, Ld!EndOf
  <2>5. \A n \in Ld!Filled : n \in Nat
    BY <1>1, AtSection, SectionFacts DEF Ld!Filled
  <2>6. Before' = Before
    BY <2>1, <2>2, <2>3, <2>4, <2>5 DEF Before
  <2>7. \A r : EndsAt(r)' <=> EndsAt(r)
    BY <2>4, <2>6 DEF EndsAt
  <2>8. Copied' <=> Copied
    BY <2>1, <2>6, <2>7 DEF Copied, EndsAt
  <2>9. Ld!Contiguous' <=> Ld!Contiguous
    BY <2>4 DEF Ld!Contiguous
  <2>10. Counted' <=> Counted
    BY <2>1, <2>6, <2>7, <2>9 DEF Counted
  <2> QED
    BY <1>1, <2>1, <2>8, <2>10, AtSection, OneMore
<1> QED
  BY <1>2, <1>3

LEMMA SegmentSizes ==
  ASSUME NEW h \in Header
  PROVE  /\ \A s \in Ld!Segment : h.segment[s].size \in Nat
         /\ SizeSum(h) \in Nat
         /\ \A s \in Ld!Segment : h.segment[s].size <= SizeSum(h)
<1>1. \A s \in Ld!Segment : h.segment[s].size \in Nat
  BY DEF Header
<1> QED
  BY <1>1 DEF SizeSum, Ld!Segment

(* One segment has grown by a section. *)
LEMMA SizeAdded ==
  ASSUME NEW h \in Header, NEW s \in Ld!Segment, NEW n \in Nat,
         NEW sg \in [virtualAddr : Nat, inFileAddr : Nat, size : Nat],
         sg.size = h.segment[s].size + n,
         NEW g, g = [h EXCEPT !.segment[s] = sg]
  PROVE  /\ g \in Header /\ g.magic = h.magic
         /\ SizeSum(g) = SizeSum(h) + n
         /\ \A z \in Ld!Segment : z # s => g.segment[z] = h.segment[z]
<1>1. h.segment \in [Ld!Segment -> [virtualAddr : Nat, inFileAddr : Nat, size : Nat]]
      /\ h.magic \in Word /\ DOMAIN h = {"magic", "segment"}
  BY DEF Header
<1>2. g.segment = [h.segment EXCEPT ![s] = sg] /\ g.magic = h.magic
      /\ g = [magic |-> h.magic, segment |-> [h.segment EXCEPT ![s] = sg]]
  BY <1>1 DEF Header
<1>3. g \in Header
  BY <1>1, <1>2 DEF Header
<1>4. \A z \in Ld!Segment : g.segment[z] = IF z = s THEN sg ELSE h.segment[z]
  BY <1>1, <1>2
<1>5. \A z \in Ld!Segment : g.segment[z].size =
        h.segment[z].size + (IF z = s THEN n ELSE 0)
  BY <1>1, <1>4
<1>6. SizeSum(g) = SizeSum(h) + n
  <2>1. \A z \in Ld!Segment : h.segment[z].size \in Nat
    BY <1>1
  <2> QED
    BY <1>5, <2>1 DEF SizeSum, Ld!Segment
<1> QED
  BY <1>2, <1>3, <1>4, <1>6

(* The sections of one name, but .bss, are one. *)
LEMMA OneOfAName ==
  ASSUME coff \in CoffFiles, section \in Ld!Filled,
         NEW m \in Ld!Filled, coff.sections[m].name = coff.sections[section].name,
         coff.sections[section].name # ".bss"
  PROVE  m = section
  BY FileFacts DEF Ld!Linked, Ld!Filled

(* The bytes of the file when others have been appended to it. *)
LEMMA Appended ==
  ASSUME NEW b \in Seq(Nat), NEW d \in Seq(Nat), NEW c, c = b \o d
  PROVE  /\ c \in Seq(Nat) /\ Len(c) = Len(b) + Len(d)
         /\ \A k \in Nat : k < Len(b) => k < Len(c) /\ c[k + 1] = b[k + 1]
         /\ \A k \in 0..(Len(d) - 1) :
              Len(b) + k < Len(c) /\ c[Len(b) + k + 1] = d[k + 1]
<1>1. Len(b) \in Nat /\ Len(d) \in Nat
  OBVIOUS
<1>2. /\ c \in Seq(Nat) /\ Len(c) = Len(b) + Len(d)
      /\ \A k \in 1..(Len(b) + Len(d)) :
           c[k] = IF k <= Len(b) THEN b[k] ELSE d[k - Len(b)]
  BY ConcatProperties
<1>3. ASSUME NEW k \in Nat, k < Len(b)
      PROVE  k < Len(c) /\ c[k + 1] = b[k + 1]
  <2>1. k + 1 \in 1..(Len(b) + Len(d)) /\ k + 1 <= Len(b)
    BY <1>1, <1>3
  <2> QED
    BY <1>1, <1>2, <1>3, <2>1
<1>4. ASSUME NEW k \in 0..(Len(d) - 1)
      PROVE  Len(b) + k < Len(c) /\ c[Len(b) + k + 1] = d[k + 1]
  <2>1. PICK x : x = Len(b) + k + 1
    OBVIOUS
  <2>2. x \in 1..(Len(b) + Len(d)) /\ ~(x <= Len(b)) /\ x - Len(b) = k + 1
    BY <1>1, <2>1
  <2>3. c[x] = d[k + 1]
    BY <1>2, <2>2
  <2> QED
    BY <1>1, <1>2, <2>1, <2>3
<1> QED
  BY <1>2, <1>3, <1>4

LEMMA CopySectionKeeps ==
  ASSUME LoaderInv, Ld!CopySection,
         UNCHANGED <<coff, fault, builder, host, numPages, memory>>
  PROVE  LoaderInv'
<1> DEFINE sec == coff.sections[section]
<1>1. pc = "sections" /\ section <= Len(coff.sections)
  BY DEF Ld!CopySection
<1>2. CASE Ld!CannotCopy
  BY <1>1, <1>2, GaveUp DEF Ld!CopySection
<1>3. CASE ~Ld!CannotCopy
  <2>1. PICK s \in DOMAIN Ld!SegmentOf :
          /\ Ld!SegmentOf[s] = sec.name
          /\ noffH' = [noffH EXCEPT !.segment[s] =
                         [virtualAddr |-> sec.paddr, size |-> Len(sec.data),
                          inFileAddr |-> HeaderSize + Len(file.body)]]
          /\ file' = [file EXCEPT !.body = @ \o sec.data]
          /\ section' = section + 1 /\ UNCHANGED <<pc, loading>>
    BY <1>3 DEF Ld!CopySection, Ld!Section, Ld!Size
  <2>2. s \in Ld!Segment /\ sec.name = NameOf(s) /\ sec.name # ".bss"
    BY <2>1 DEF Ld!SegmentOf, Ld!Segment, NameOf
  <2>3. /\ coff \in CoffFiles /\ section \in DOMAIN coff.sections
        /\ section \in Nat
        /\ noffH \in Header /\ noffH.magic = NOFFMAGIC
        /\ file.body \in Seq(Nat) /\ DOMAIN file = {"exists", "header", "body"}
        /\ Counted /\ (Ld!Contiguous => Copied)
    BY <1>1, AtSection
  <2>4. /\ sec.paddr \in Nat /\ sec.data \in Seq(Nat) /\ Len(sec.data) \in Nat
        /\ section \in Ld!Filled
        /\ Ld!EndOf(section) = sec.paddr + Len(sec.data)
    BY <2>3, SectionFacts DEF Ld!CopySection, Ld!Size, Ld!Section
  <2>5. /\ file'.body = file.body \o sec.data /\ file'.exists = file.exists
        /\ DOMAIN file' = DOMAIN file
    BY <2>1, <2>3
  <2>6. file'.body \in Seq(Nat)
    BY <2>3, <2>4, <2>5
  <2>7. noffH.segment[s].size = 0
    <3>1. ASSUME NEW m \in Before, coff.sections[m].name = NameOf(s) PROVE FALSE
      <4>1. m \in Ld!Filled /\ m < section
        BY <3>1 DEF Before
      <4> QED
        BY <2>2, <2>3, <2>4, <3>1, <4>1, OneOfAName
    <3> QED
      BY <2>2, <2>3, <3>1 DEF Counted
  <2>8. /\ noffH' \in Header /\ noffH'.magic = NOFFMAGIC
        /\ SizeSum(noffH') = SizeSum(noffH) + Len(sec.data)
        /\ \A z \in Ld!Segment : z # s => noffH'.segment[z] = noffH.segment[z]
    <3> DEFINE sg == [virtualAddr |-> sec.paddr, size |-> Len(sec.data),
                      inFileAddr |-> HeaderSize + Len(file.body)]
    <3>1. sg \in [virtualAddr : Nat, inFileAddr : Nat, size : Nat]
      BY <2>3, <2>4, LoaderAssumed DEF Ld!LoaderAssumption
    <3>2. sg.size = noffH.segment[s].size + Len(sec.data)
      BY <2>4, <2>7
    <3>3. noffH' = [noffH EXCEPT !.segment[s] = sg]
      BY <2>1
    <3> HIDE DEF sg
    <3>4. PICK g : g = noffH'
      OBVIOUS
    <3>5. g = [noffH EXCEPT !.segment[s] = sg]
      BY <3>3, <3>4
    <3> DEFINE l == Len(sec.data)
    <3>6. l \in Nat /\ sg.size = noffH.segment[s].size + l
      BY <2>4, <3>2
    <3> HIDE DEF l
    <3>7. /\ g \in Header /\ g.magic = noffH.magic
          /\ SizeSum(g) = SizeSum(noffH) + l
          /\ \A z \in Ld!Segment : z # s => g.segment[z] = noffH.segment[z]
      <4>1. noffH \in Header /\ s \in Ld!Segment
        BY <2>2, <2>3
      <4> QED
        BY <3>1, <3>5, <3>6, <4>1, SizeAdded
    <3> QED
      BY <2>3, <3>4, <3>7 DEF l
  <2>9. Ld!Filled' = Ld!Filled /\ (Ld!Contiguous' <=> Ld!Contiguous)
    BY DEF Ld!Filled, Ld!Contiguous, Ld!EndOf
  <2>10. Before' = Before \union {section}
    <3>1. \A n \in Ld!Filled : n \in Nat
      BY <2>3, SectionFacts DEF Ld!Filled
    <3> QED
      BY <2>1, <2>3, <2>4, <2>9, <3>1 DEF Before
  <2>11. Counted'
    <3>1. ASSUME NEW z \in Ld!Segment, noffH'.segment[z].size # 0
          PROVE  \E m \in Before' : coff'.sections[m].name = NameOf(z)
      <4>1. CASE z = s
        BY <2>2, <2>10, <4>1
      <4>2. CASE z # s
        BY <2>3, <2>8, <2>10, <3>1, <4>2 DEF Counted
      <4> QED
        BY <4>1, <4>2
    <3>2. ASSUME Ld!Contiguous PROVE EndsAt(SizeSum(noffH))'
      <4>1. EndsAt(sec.paddr) /\ \A e : e = Ld!EndOf(section) => EndsAt(e)'
        BY <2>1, <2>3, <2>4, <3>2, NextEnd
      <4>2. SizeSum(noffH) = sec.paddr
        BY <2>3, <2>4, <3>2, <4>1, SegmentSizes, EndIsOne DEF Counted
      <4>3. PICK e : e = SizeSum(noffH)'
        OBVIOUS
      <4>4. e = Ld!EndOf(section)
        BY <2>4, <2>8, <4>2, <4>3 DEF SizeSum
      <4>5. EndsAt(e)'
        BY <4>1, <4>4
      <4> QED
        BY <4>3, <4>5 DEF EndsAt
    <3> QED
      BY <2>9, <3>1, <3>2 DEF Counted
  <2>12. ASSUME Ld!Contiguous PROVE Copied'
    <3>1. EndsAt(sec.paddr) /\ \A e : e = Ld!EndOf(section) => EndsAt(e)'
      BY <2>1, <2>3, <2>4, <2>12, NextEnd
    <3>2. \A n \in Before : coff.sections[n].name # ".bss"
      BY <2>1, <2>2, <2>3, <2>4, <2>12, NextEnd
    <3>3. Len(file.body) = sec.paddr
      BY <2>3, <2>4, <2>12, <3>1, <3>2, EndIsOne DEF Copied
    <3> DEFINE b == file.body
               d == sec.data
               c == file'.body
    <3>4. /\ Len(c) = sec.paddr + Len(d)
          /\ \A k \in Nat : k < Len(b) => k < Len(c) /\ c[k + 1] = b[k + 1]
          /\ \A k \in 0..(Len(d) - 1) :
               sec.paddr + k < Len(c) /\ c[sec.paddr + k + 1] = d[k + 1]
      <4>1. b \in Seq(Nat) /\ d \in Seq(Nat) /\ c = b \o d
        BY <2>3, <2>4, <2>5
      <4> HIDE DEF b, c, d
      <4>2. /\ Len(c) = Len(b) + Len(d)
            /\ \A k \in Nat : k < Len(b) => k < Len(c) /\ c[k + 1] = b[k + 1]
            /\ \A k \in 0..(Len(d) - 1) :
                 Len(b) + k < Len(c) /\ c[Len(b) + k + 1] = d[k + 1]
        BY <4>1, Appended
      <4>3. Len(b) = sec.paddr
        BY <3>3 DEF b
      <4> QED
        BY <4>2, <4>3
    <3>5. ASSUME NEW n \in Before', NEW k \in 0..(Len(coff'.sections[n].data) - 1)
          PROVE  /\ coff'.sections[n].paddr + k < Len(c)
                 /\ c[coff'.sections[n].paddr + k + 1] = coff'.sections[n].data[k + 1]
      <4>1. CASE n = section
        <5>1. coff'.sections[n] = sec /\ k \in 0..(Len(d) - 1)
          BY <4>1
        <5> HIDE DEF b, c, d, sec
        <5>2. sec.paddr + k < Len(c) /\ c[sec.paddr + k + 1] = d[k + 1]
          BY <3>4, <5>1
        <5> QED
          BY <5>1, <5>2 DEF d
      <4>2. CASE n \in Before
        <5> DEFINE old == coff.sections[n]
        <5>1. /\ old.paddr + k < Len(b)
              /\ b[old.paddr + k + 1] = old.data[k + 1]
          BY <2>3, <2>12, <3>2, <4>2 DEF Copied
        <5>2. old.paddr \in Nat /\ k \in Nat /\ coff'.sections[n] = old
          BY <2>3, <4>2, SectionFacts DEF Before, Ld!Filled
        <5> HIDE DEF b, c, d, old
        <5>3. PICK x : x = old.paddr + k
          OBVIOUS
        <5>4. x \in Nat
          BY <5>2, <5>3
        <5>5. x < Len(c) /\ c[x + 1] = b[x + 1]
          BY <3>4, <5>1, <5>3, <5>4
        <5> QED
          BY <5>1, <5>2, <5>3, <5>5
      <4> QED
        BY <2>10, <4>1, <4>2
    <3>6. EndsAt(Len(file.body))'
      <4>1. PICK e : e = Len(file.body)'
        OBVIOUS
      <4>2. e = Ld!EndOf(section)
        BY <2>4, <3>4, <4>1
      <4>3. EndsAt(e)'
        BY <3>1, <4>2
      <4> QED
        BY <4>1, <4>3 DEF EndsAt
    <3> QED
      BY <3>5, <3>6 DEF Copied
  <2> QED
    BY <1>1, <2>1, <2>5, <2>6, <2>8, <2>11, <2>12, OneMore
<1> QED
  BY <1>2, <1>3

LEMMA FieldsReplaced ==
  ASSUME NEW f \in [virtualAddr : Nat, inFileAddr : Nat, size : Nat],
         NEW n, NEW v, NEW sg,
         sg = [virtualAddr |-> IF f.size # 0 THEN f.virtualAddr ELSE v,
               inFileAddr |-> f.inFileAddr, size |-> f.size + n]
  PROVE  [[f EXCEPT !.size = @ + n] EXCEPT !.virtualAddr =
            IF f.size # 0 THEN @ ELSE v] = sg
<1>1. [f EXCEPT !.size = @ + n] = [virtualAddr |-> f.virtualAddr,
         inFileAddr |-> f.inFileAddr, size |-> f.size + n]
  OBVIOUS
<1>2. PICK g : g = [virtualAddr |-> f.virtualAddr,
         inFileAddr |-> f.inFileAddr, size |-> f.size + n]
  OBVIOUS
<1>3. [g EXCEPT !.virtualAddr = IF f.size # 0 THEN @ ELSE v] = sg
  <2>1. CASE f.size # 0
    BY <1>2, <2>1
  <2>2. CASE f.size = 0
    BY <1>2, <2>2
  <2> QED
    BY <2>1, <2>2
<1> QED
  BY <1>1, <1>2, <1>3

LEMMA BssSectionKeeps ==
  ASSUME LoaderInv, Ld!BssSection,
         UNCHANGED <<coff, fault, builder, host, numPages, memory>>
  PROVE  LoaderInv'
<1> DEFINE sec == coff.sections[section]
           bss == noffH.segment["uninitData"]
<1>1. pc = "sections" /\ section <= Len(coff.sections)
  BY DEF Ld!BssSection
<1>2. CASE bss.size # 0 /\ sec.paddr = bss.virtualAddr + bss.size
  BY <1>1, <1>2, GaveUp DEF Ld!BssSection, Ld!Section
<1>3. CASE ~(bss.size # 0 /\ sec.paddr = bss.virtualAddr + bss.size)
  <2>1. /\ sec.name = ".bss" /\ Len(sec.data) > 0
        /\ noffH' = [noffH EXCEPT
                   !.segment["uninitData"].size = @ + Len(sec.data),
                   !.segment["uninitData"].virtualAddr =
                      IF bss.size # 0 THEN @ ELSE sec.paddr]
        /\ section' = section + 1 /\ UNCHANGED <<pc, file, loading>>
    BY <1>3 DEF Ld!BssSection, Ld!Section, Ld!Size
  <2>2. "uninitData" \in Ld!Segment /\ sec.name = NameOf("uninitData")
    BY <2>1 DEF Ld!Segment, NameOf
  <2>3. /\ coff \in CoffFiles /\ section \in DOMAIN coff.sections
        /\ section \in Nat
        /\ noffH \in Header /\ noffH.magic = NOFFMAGIC
        /\ file.body \in Seq(Nat)
        /\ Counted /\ (Ld!Contiguous => Copied)
    BY <1>1, AtSection
  <2>4. /\ sec.paddr \in Nat /\ sec.data \in Seq(Nat) /\ Len(sec.data) \in Nat
        /\ section \in Ld!Filled
        /\ Ld!EndOf(section) = sec.paddr + Len(sec.data)
    BY <2>1, <2>3, SectionFacts
  <2>8. /\ noffH' \in Header /\ noffH'.magic = NOFFMAGIC
        /\ SizeSum(noffH') = SizeSum(noffH) + Len(sec.data)
        /\ \A z \in Ld!Segment : z # "uninitData" => noffH'.segment[z] = noffH.segment[z]
    <3>1. /\ noffH.segment \in [Ld!Segment -> [virtualAddr : Nat, inFileAddr : Nat, size : Nat]]
          /\ noffH = [magic |-> noffH.magic, segment |-> noffH.segment]
      BY <2>3 DEF Header
    <3>2. bss \in [virtualAddr : Nat, inFileAddr : Nat, size : Nat]
      BY <2>2, <3>1
    <3>3. PICK sg : sg = [virtualAddr |-> IF bss.size # 0 THEN bss.virtualAddr ELSE sec.paddr,
                          inFileAddr |-> bss.inFileAddr, size |-> bss.size + Len(sec.data)]
      OBVIOUS
    <3>4. /\ bss.virtualAddr \in Nat /\ bss.inFileAddr \in Nat /\ bss.size \in Nat
          /\ DOMAIN bss = {"virtualAddr", "inFileAddr", "size"}
      BY <3>2
    <3>5. (IF bss.size # 0 THEN bss.virtualAddr ELSE sec.paddr) \in Nat
      BY <2>4, <3>4
    <3>6. sg \in [virtualAddr : Nat, inFileAddr : Nat, size : Nat]
          /\ sg.size = bss.size + Len(sec.data)
      BY <2>4, <3>3, <3>4, <3>5
    <3>7. [[bss EXCEPT !.size = @ + Len(sec.data)] EXCEPT !.virtualAddr =
             IF bss.size # 0 THEN @ ELSE sec.paddr] = sg
      <4> DEFINE size == Len(sec.data)
                 paddr == sec.paddr
      <4> HIDE DEF bss, size, paddr
      <4>1. sg = [virtualAddr |-> IF bss.size # 0 THEN bss.virtualAddr ELSE paddr,
                  inFileAddr |-> bss.inFileAddr, size |-> bss.size + size]
        BY <3>3 DEF bss, size, paddr
      <4>2. [[bss EXCEPT !.size = @ + size] EXCEPT !.virtualAddr =
               IF bss.size # 0 THEN @ ELSE paddr] = sg
        BY <3>2, <4>1, FieldsReplaced
      <4> QED
        BY <4>2 DEF bss, size, paddr
    <3>8. noffH' = [noffH EXCEPT !.segment["uninitData"] = sg]
      <4>1. noffH' = [[noffH EXCEPT !.segment["uninitData"].size = @ + Len(sec.data)]
               EXCEPT !.segment["uninitData"].virtualAddr =
                         IF bss.size # 0 THEN @ ELSE sec.paddr]
        BY <2>1, <3>2, <3>1
      <4> QED
        BY <2>2, <3>1, <3>7, <4>1
    <3>9. PICK g : g = noffH'
      OBVIOUS
    <3>10. g = [noffH EXCEPT !.segment["uninitData"] = sg]
      BY <3>8, <3>9
    <3> DEFINE l == Len(sec.data)
    <3>11. l \in Nat /\ sg.size = noffH.segment["uninitData"].size + l
      BY <2>4, <3>6
    <3> HIDE DEF l
    <3>12. /\ g \in Header /\ g.magic = noffH.magic
           /\ SizeSum(g) = SizeSum(noffH) + l
           /\ \A z \in Ld!Segment : z # "uninitData" => g.segment[z] = noffH.segment[z]
      BY <2>2, <2>3, <3>6, <3>10, <3>11, SizeAdded
    <3> QED
      BY <2>3, <3>9, <3>12 DEF l
  <2>9. Ld!Filled' = Ld!Filled /\ (Ld!Contiguous' <=> Ld!Contiguous)
    BY DEF Ld!Filled, Ld!Contiguous, Ld!EndOf
  <2>10. Before' = Before \union {section}
    <3>1. \A n \in Ld!Filled : n \in Nat
      BY <2>3, SectionFacts DEF Ld!Filled
    <3> QED
      BY <2>1, <2>3, <2>4, <2>9, <3>1 DEF Before
  <2>11. Counted'
    <3>1. ASSUME NEW z \in Ld!Segment, noffH'.segment[z].size # 0
          PROVE  \E m \in Before' : coff'.sections[m].name = NameOf(z)
      <4>1. CASE z = "uninitData"
        BY <2>2, <2>10, <4>1
      <4>2. CASE z # "uninitData"
        BY <2>3, <2>8, <2>10, <3>1, <4>2 DEF Counted
      <4> QED
        BY <4>1, <4>2
    <3>2. ASSUME Ld!Contiguous PROVE EndsAt(SizeSum(noffH))'
      <4>1. EndsAt(sec.paddr) /\ \A e : e = Ld!EndOf(section) => EndsAt(e)'
        BY <2>1, <2>3, <2>4, <3>2, NextEnd
      <4>2. SizeSum(noffH) = sec.paddr
        BY <2>3, <2>4, <3>2, <4>1, SegmentSizes, EndIsOne DEF Counted
      <4>3. PICK e : e = SizeSum(noffH)'
        OBVIOUS
      <4>4. e = Ld!EndOf(section)
        BY <2>4, <2>8, <4>2, <4>3 DEF SizeSum
      <4>5. EndsAt(e)'
        BY <4>1, <4>4
      <4> QED
        BY <4>3, <4>5 DEF EndsAt
    <3> QED
      BY <2>9, <3>1, <3>2 DEF Counted
  <2>12. ASSUME Ld!Contiguous PROVE Copied'
    <3>1. \A n \in Before' : coff'.sections[n].name # ".bss" => n \in Before
      BY <2>1, <2>10
    <3>2. \E n \in Before' : coff'.sections[n].name = ".bss"
      BY <2>1, <2>10
    <3> QED
      BY <2>1, <2>3, <2>12, <3>1, <3>2 DEF Copied
  <2> QED
    BY <1>1, <2>1, <2>3, <2>8, <2>11, <2>12, OneMore
<1> QED
  BY <1>2, <1>3

LEMMA WriteHeaderKeeps ==
  ASSUME LoaderInv, Ld!WriteHeader,
         UNCHANGED <<coff, fault, builder, host, numPages, memory>>
  PROVE  LoaderInv'
<1>1. pc = "sections" /\ section > Len(coff.sections)
  BY DEF Ld!WriteHeader
<1>2. CASE fault \in {"noOutput", "diskFull"}
  BY <1>1, <1>2, GaveUp DEF Ld!WriteHeader
<1>3. CASE fault \notin {"noOutput", "diskFull"}
  <2>1. /\ file' = [file EXCEPT !.header = Written]
        /\ pc' = "exited" /\ loading' = 0 /\ UNCHANGED <<section, noffH>>
    BY <1>3 DEF Ld!WriteHeader, Ld!Ended, Written
  <2>2. /\ coff \in CoffFiles /\ fault \in Fault
        /\ builder \in Ld!Order /\ host \in Ld!Order
        /\ section \in 1..(Len(coff.sections) + 1) /\ section \in Nat
        /\ Len(coff.sections) \in Nat
        /\ noffH \in Header /\ noffH.magic = NOFFMAGIC
        /\ file.body \in Seq(Nat) /\ DOMAIN file = {"exists", "header", "body"}
        /\ file.exists <=> fault # "noOutput"
        /\ fault # "noInput" /\ fault # "shortHeader"
        /\ Counted /\ (Ld!Contiguous => Copied) /\ memory = << >>
    BY <1>1, AtSection
  <2>3. section = Len(coff.sections) + 1
    BY <1>1, <2>2
  <2>4. fault \in {"none", "shortSection"}
    BY <1>3, <2>2, LoaderAssumed DEF Ld!LoaderAssumption
  <2>5. Written # << >>
    <3>1. DOMAIN Written = {"magic", "segment"}
      BY DEF Written, Ld!MapHeader
    <3>2. "magic" \in DOMAIN Written
      BY <3>1
    <3> QED
      BY <3>2
  <2>6. /\ file'.body = file.body /\ DOMAIN file' = DOMAIN file
        /\ file'.exists = file.exists /\ file'.header = Written
    BY <2>1, <2>2
  <2>7. Ld!Filled' = Ld!Filled /\ \A n : Ld!EndOf(n)' = Ld!EndOf(n)
    BY DEF Ld!Filled, Ld!EndOf
  <2>8. Before' = Before
    BY <2>1, <2>7 DEF Before
  <2>9. \A r : EndsAt(r)' <=> EndsAt(r)
    BY <2>7, <2>8 DEF EndsAt
  <2>10. Copied' <=> Copied
    BY <2>6, <2>7, <2>8, <2>9 DEF Copied, EndsAt
  <2>11. Ld!Contiguous' <=> Ld!Contiguous
    BY <2>7 DEF Ld!Contiguous
  <2>12. Counted' <=> Counted
    BY <2>1, <2>8, <2>9, <2>11 DEF Counted
  <2>13. Stage'
    <3>1. Written' = Written
      BY <2>1 DEF Written, Ld!MapHeader, Ld!SwapHeader
    <3>2. /\ file'.exists /\ section' = Len(coff'.sections) + 1
          /\ fault' \in {"none", "shortSection"} /\ file'.header # << >>
      BY <2>1, <2>2, <2>3, <2>4, <2>5, <2>6
    <3> QED
      BY <2>1, <2>2, <2>6, <3>1, <3>2 DEF Stage
  <2>14. Loaded'
    BY <2>2 DEF Loaded
  <2> QED
    BY <2>1, <2>2, <2>6, <2>10, <2>11, <2>12, <2>13, <2>14 DEF LoaderInv
<1> QED
  BY <1>2, <1>3

-----------------------------------------------------------------------------
LEMMA PageFaultKeeps ==
  ASSUME LoaderInv, NEW vpn \in 0..(numPages - 1), Ld!PageFault(vpn)
  PROVE  LoaderInv'
<1>1. /\ pc = "runs" /\ UNCHANGED <<coff, fault, builder, host, pc, section, noffH,
                                    file, loading, numPages>>
      /\ memory' = [p \in DOMAIN memory \union {vpn} |->
                      IF p # vpn THEN memory[p]
                      ELSE [k \in 0..(PageSize - 1) |->
                              Ld!FileByte(vpn * PageSize + HeaderSize + k)]]
  BY DEF Ld!PageFault
<1>2. \A x : Ld!FileByte(x)' = Ld!FileByte(x)
  BY <1>1 DEF Ld!FileByte
<1>3. Loaded'
  <2>1. ASSUME NEW v \in DOMAIN memory', NEW k \in 0..(PageSize - 1)
        PROVE  memory'[v][k] = Ld!FileByte(v * PageSize + HeaderSize + k)
    <3>1. CASE v = vpn
      BY <1>1, <2>1, <3>1
    <3>2. CASE v # vpn
      <4>1. v \in DOMAIN memory /\ memory'[v] = memory[v]
        BY <1>1, <2>1, <3>2
      <4> QED
        BY <2>1, <4>1 DEF LoaderInv, Loaded
    <3> QED
      BY <3>1, <3>2
  <2> QED
    BY <1>2, <2>1 DEF Loaded
<1>4. Stage'
  BY <1>1 DEF Stage, LoaderInv
<1>5. LoaderInv /\ (Ld!Contiguous' <=> Ld!Contiguous) /\ (Copied' <=> Copied)
      /\ Ld!Filled' = Ld!Filled /\ \A n : Ld!EndOf(n)' = Ld!EndOf(n)
  BY <1>1, SameSections
<1> QED
  BY <1>1, <1>3, <1>4, <1>5 DEF LoaderInv

(* The pages have room for the bytes. *)
LEMMA PagesSuffice ==
  ASSUME NEW n \in Nat, NEW s \in Nat \ {0}
  PROVE  /\ Ld!divRoundUp(n, s) \in Int
         /\ Ld!divRoundUp(n, s) * s >= n
<1>1. n \in Int /\ n \div s \in Int /\ n % s \in Int
  BY DivMod
<1>2. PICK q \in Int, m \in Int : q = n \div s /\ m = n % s
  BY <1>1, Zenon
<1>3. 0 <= m /\ m < s /\ n = q * s + m
  <2>1. n % s \in 0..(s - 1)
    BY <1>1, DivMod
  <2>2. n = q * s + m
    BY <1>1, <1>2, DivMod
  <2> QED
    BY <1>2, <2>1, <2>2
<1>4. CASE m > 0
  <2>1. Ld!divRoundUp(n, s) = q + 1
    BY <1>2, <1>4 DEF Ld!divRoundUp
  <2>2. (q + 1) * s = q * s + s
    OBVIOUS
  <2>3. PICK p \in Int : p = q * s
    OBVIOUS
  <2>4. p + s >= n
    BY <1>3, <2>3
  <2> QED
    BY <2>1, <2>2, <2>3, <2>4
<1>5. CASE m = 0
  <2>1. Ld!divRoundUp(n, s) = q
    BY <1>2, <1>5 DEF Ld!divRoundUp
  <2> QED
    BY <1>3, <1>5, <2>1
<1> QED
  BY <1>3, <1>4, <1>5

(* The header as AddrSpace has it: the sizes are those of coff2noff where  *)
(* they are words.                                                         *)
LEMMA HeaderRead ==
  ASSUME NEW h \in Header, h.magic = NOFFMAGIC,
         builder \in Ld!Order, host \in Ld!Order,
         file.header = Ld!MapHeader(Ld!SwapHeader(h, builder),
                                    LAMBDA w : Ld!Bytes(w, builder))
  PROVE  /\ Ld!InHostOrder(Ld!AsRead).magic = NOFFMAGIC
         /\ \A s \in Ld!Segment : h.segment[s].size \in Word =>
              Ld!InHostOrder(Ld!AsRead).segment[s].size = h.segment[s].size
<1> DEFINE F(w) == Ld!FromBytes(Ld!Bytes(Ld!WordToHost(w, builder), builder), host)
<1>1. Ld!AsRead = [magic |-> F(h.magic),
                   segment |-> [s \in Ld!Segment |-> [f \in Ld!Field |->
                                  F(h.segment[s][f])]]]
  BY DEF Ld!AsRead, Ld!MapHeader, Ld!SwapHeader
<1>2. \A w \in Word : F(w) = Ld!WordToHost(w, host)
  BY ReadBack
<1> HIDE DEF F
<1>3. NOFFMAGIC \in Word /\ "size" \in Ld!Field
  BY LoaderAssumed DEF Ld!LoaderAssumption, Word, Ld!Field
<1>4. /\ Ld!AsRead.magic = Ld!WordToHost(NOFFMAGIC, host)
      /\ \A s \in Ld!Segment : h.segment[s].size \in Word =>
           Ld!AsRead.segment[s].size = Ld!WordToHost(h.segment[s].size, host)
  BY <1>1, <1>2, <1>3
<1>5. CASE host = "little"
  <2>1. \A w : Ld!WordToHost(w, host) = w
    BY <1>5 DEF Ld!WordToHost
  <2>2. Ld!InHostOrder(Ld!AsRead) = Ld!AsRead
    BY <1>4, <2>1 DEF Ld!InHostOrder
  <2> QED
    BY <1>4, <2>1, <2>2
<1>6. CASE host = "big"
  <2>1. \A w : Ld!WordToHost(w, host) = Ld!Swap(w)
    BY <1>6 DEF Ld!WordToHost
  <2>2. Ld!Swap(NOFFMAGIC) # NOFFMAGIC
    <3>1. PICK w \in Word : w = NOFFMAGIC
      BY <1>3
    <3>2. PICK hi \in Octet, lo \in Octet :
            hi = w \div 256 /\ lo = w % 256 /\ w = 256 * hi + lo
      BY HighAndLow
    <3>3. hi # lo
      <4>1. NOFFMAGIC % 256 # NOFFMAGIC \div 256
        BY LoaderAssumed DEF Ld!LoaderAssumption
      <4> QED
        BY <3>1, <3>2, <4>1
    <3>4. Ld!Swap(w) = lo * 256 + hi
      BY <3>2 DEF Ld!Swap
    <3>5. lo * 256 = 256 * lo
      BY <3>2 DEF Octet
    <3>6. lo * 256 + hi # 256 * hi + lo
      <4>1. \A x, y \in Int : x # y => 256 * x + y # 256 * y + x
        OBVIOUS
      <4> QED
        BY <3>3, <3>5, <4>1 DEF Octet
    <3> QED
      BY <3>1, <3>2, <3>4, <3>6
  <2>3. Ld!InHostOrder(Ld!AsRead) = Ld!SwapHeader(Ld!AsRead, host)
    BY <1>3, <1>4, <2>1, <2>2, Swapped DEF Ld!InHostOrder
  <2>4. Ld!SwapHeader(Ld!AsRead, host) =
          [magic |-> Ld!Swap(Ld!AsRead.magic),
           segment |-> [s \in Ld!Segment |-> [f \in Ld!Field |->
                          Ld!Swap(Ld!AsRead.segment[s][f])]]]
    BY <2>1 DEF Ld!SwapHeader, Ld!MapHeader
  <2>5. Ld!InHostOrder(Ld!AsRead).magic = NOFFMAGIC
    BY <1>3, <1>4, <2>1, <2>3, <2>4, Swapped
  <2>6. ASSUME NEW s \in Ld!Segment, h.segment[s].size \in Word
        PROVE  Ld!InHostOrder(Ld!AsRead).segment[s].size = h.segment[s].size
    <3>1. Ld!InHostOrder(Ld!AsRead).segment[s].size = Ld!Swap(Ld!AsRead.segment[s].size)
      BY <1>3, <2>3, <2>4
    <3>2. Ld!AsRead.segment[s].size = Ld!Swap(h.segment[s].size)
      BY <1>4, <2>1, <2>6
    <3> QED
      BY <2>6, <3>1, <3>2, Swapped
  <2> QED
    BY <2>5, <2>6
<1> QED
  BY <1>5, <1>6 DEF Ld!Order

LEMMA NewAddrSpaceKeeps ==
  ASSUME LoaderInv, Ld!NewAddrSpace
  PROVE  LoaderInv'
<1>1. /\ pc = "exited" /\ loading = 0
      /\ UNCHANGED <<coff, fault, builder, host, section, file, loading, memory>>
      /\ noffH' = Ld!InHostOrder(Ld!AsRead)
  BY DEF Ld!NewAddrSpace
<1>2. /\ coff \in CoffFiles /\ fault \in Fault
      /\ builder \in Ld!Order /\ host \in Ld!Order
      /\ section \in 1..(Len(coff.sections) + 1)
      /\ noffH \in Header /\ noffH.magic = NOFFMAGIC
      /\ file.body \in Seq(Nat) /\ DOMAIN file = {"exists", "header", "body"}
      /\ Counted /\ (Ld!Contiguous => Copied) /\ memory = << >>
      /\ file.exists /\ section = Len(coff.sections) + 1
      /\ fault \in {"none", "shortSection"}
      /\ file.header # << >> /\ file.header = Written
  BY <1>1 DEF LoaderInv, Stage
<1>3. /\ noffH'.magic = NOFFMAGIC
      /\ \A s \in Ld!Segment : noffH.segment[s].size \in Word =>
           noffH'.segment[s].size = noffH.segment[s].size
  BY <1>1, <1>2, HeaderRead DEF Written
<1>4. pc' = "runs" /\ numPages' = Ld!divRoundUp(Ld!SizeOf(noffH'), PageSize)
  BY <1>3 DEF Ld!NewAddrSpace
<1>5. Ld!Filled' = Ld!Filled /\ \A n : Ld!EndOf(n)' = Ld!EndOf(n)
  BY <1>1 DEF Ld!Filled, Ld!EndOf
<1>6. Before = Ld!Filled
  <2>1. \A n \in Ld!Filled : n \in 1..Len(coff.sections) /\ Len(coff.sections) \in Nat
    BY <1>2, SectionFacts, SectionsNumbered DEF Ld!Filled
  <2> QED
    BY <1>2, <2>1 DEF Before
<1>7. Before' = Before
  BY <1>1, <1>5 DEF Before
<1>8. \A r : EndsAt(r)' <=> EndsAt(r)
  BY <1>5, <1>7 DEF EndsAt
<1>9. (Ld!Contiguous' <=> Ld!Contiguous) /\ (Copied' <=> Copied)
  <2>1. Ld!Contiguous' <=> Ld!Contiguous
    BY <1>1, <1>5 DEF Ld!Contiguous
  <2> QED
    BY <1>1, <1>5, <1>7, <1>8, <2>1 DEF Copied, EndsAt
<1>10. ASSUME Ld!Contiguous, NEW n \in Ld!Filled
       PROVE  numPages' * PageSize >= Ld!EndOf(n) + UserStackSize
  <2>1. EndsAt(SizeSum(noffH)) /\ SizeSum(noffH) \in Nat
    BY <1>2, <1>10, SegmentSizes DEF Counted
  <2>2. \A m \in Ld!Filled : Ld!EndOf(m) \in Nat /\ Ld!EndOf(m) <= 65535
    BY <1>2, SectionFacts DEF Ld!Filled
  <2>3. SizeSum(noffH) <= 65535
    <3>1. CASE SizeSum(noffH) = 0
      BY <3>1
    <3>2. CASE SizeSum(noffH) # 0
      <4>1. PICK m \in Before : Ld!EndOf(m) = SizeSum(noffH)
        BY <2>1, <3>2 DEF EndsAt
      <4> QED
        BY <1>6, <2>2, <4>1
    <3> QED
      BY <3>1, <3>2
  <2>4. \A s \in Ld!Segment : noffH.segment[s].size \in Word
    <3>1. \A s \in Ld!Segment : noffH.segment[s].size \in Nat
                                /\ noffH.segment[s].size <= SizeSum(noffH)
      BY <1>2, SegmentSizes
    <3> QED
      BY <2>1, <2>3, <3>1 DEF Word
  <2>5. \A s \in Ld!Segment : /\ noffH'.segment[s].size = noffH.segment[s].size
                              /\ noffH.segment[s].size \in Nat
    BY <1>2, <1>3, <2>4, SegmentSizes
  <2>6. Ld!SizeOf(noffH') = SizeSum(noffH) + UserStackSize
    BY <2>5, LoaderAssumed DEF Ld!SizeOf, SizeSum, Ld!Segment, Ld!LoaderAssumption
  <2>7. PICK z : z = SizeSum(noffH) + UserStackSize
    OBVIOUS
  <2>8. z \in Nat /\ PageSize \in Nat \ {0} /\ UserStackSize \in Nat
    BY <2>1, <2>7, LoaderAssumed DEF Ld!LoaderAssumption
  <2>9. Ld!divRoundUp(z, PageSize) * PageSize >= z /\ Ld!divRoundUp(z, PageSize) \in Int
    BY <2>8, PagesSuffice
  <2>10. Ld!EndOf(n) + UserStackSize <= z
    BY <1>6, <1>10, <2>1, <2>2, <2>7, <2>8 DEF EndsAt
  <2>11. numPages' = Ld!divRoundUp(z, PageSize)
    BY <1>4, <2>6, <2>7
  <2>12. PICK y \in Int : y = Ld!divRoundUp(z, PageSize) * PageSize
    BY <2>8, <2>9
  <2>13. Ld!EndOf(n) + UserStackSize \in Int /\ y >= z
    BY <1>10, <2>2, <2>8, <2>9, <2>12
  <2> QED
    BY <2>8, <2>10, <2>11, <2>12, <2>13
<1>11. Stage'
  BY <1>1, <1>2, <1>4 DEF Stage
<1>12. Loaded'
  BY <1>1, <1>2 DEF Loaded
<1> QED
  BY <1>1, <1>2, <1>4, <1>5, <1>9, <1>10, <1>11, <1>12 DEF LoaderInv

LEMMA LoaderStep ==
  LoaderInv /\ [Ld!Next]_(Ld!vars) => LoaderInv'
<1> SUFFICES ASSUME LoaderInv, [Ld!Next]_(Ld!vars) PROVE LoaderInv'
  OBVIOUS
<1>1. CASE Ld!Convert
  <2>1. UNCHANGED <<coff, fault, builder, host, numPages, memory>>
    BY <1>1 DEF Ld!Convert
  <2> QED
    BY <1>1, <2>1, OpenKeeps, ReadHeadersKeeps, CopySectionKeeps, BssSectionKeeps,
       OtherSectionKeeps, WriteHeaderKeeps DEF Ld!Convert
<1>2. CASE Ld!NewAddrSpace
  BY <1>2, NewAddrSpaceKeeps
<1>3. CASE \E vpn \in 0..(numPages - 1) : Ld!PageFault(vpn)
  BY <1>3, PageFaultKeeps
<1>4. CASE UNCHANGED Ld!vars
  <2>1. UNCHANGED <<coff, fault, builder, host, pc, section, noffH, file, loading,
                    numPages, memory>>
    BY <1>4 DEF Ld!vars
  <2>2. Stage' /\ Loaded'
    <3>1. Written' = Written
      BY <2>1 DEF Written, Ld!MapHeader, Ld!SwapHeader
    <3>2. Stage'
      BY <2>1, <3>1 DEF LoaderInv, Stage
    <3>3. \A x : Ld!FileByte(x)' = Ld!FileByte(x)
      BY <2>1 DEF Ld!FileByte
    <3> QED
      BY <2>1, <3>2, <3>3 DEF LoaderInv, Loaded
  <2> QED
    BY <2>1, <2>2, SameSections DEF LoaderInv
<1> QED
  BY <1>1, <1>2, <1>3, <1>4 DEF Ld!Next, Ld!Terminated

LEMMA LoaderMeans ==
  LoaderInv => Ld!ImageLoaded
<1> SUFFICES ASSUME LoaderInv PROVE Ld!ImageLoaded
  OBVIOUS
<1>1. pc # "aborted"
  BY DEF LoaderInv, Stage
<1>2. ASSUME Ld!Contiguous, NEW n \in Ld!Filled,
             NEW k \in 0..(Len(coff.sections[n].data) - 1),
             ((coff.sections[n].paddr + k) \div PageSize) \in DOMAIN memory,
             coff.sections[n].name # ".bss"
      PROVE  memory[(coff.sections[n].paddr + k) \div PageSize]
                   [(coff.sections[n].paddr + k) % PageSize]
               = coff.sections[n].data[k + 1]
  <2>1. pc = "runs" /\ loading = 0 /\ section = Len(coff.sections) + 1
    <3>1. CASE pc # "runs"
      <4>1. memory = << >>
        BY <3>1 DEF LoaderInv, Stage
      <4>2. DOMAIN memory = {}
        BY <4>1
      <4> QED
        BY <1>2, <4>2
    <3> QED
      BY <3>1 DEF LoaderInv, Stage
  <2>2. coff \in CoffFiles /\ Copied /\ file.body \in Seq(Nat)
    BY <1>2, <2>1 DEF LoaderInv
  <2>3. n \in Before
    BY <2>1, <2>2, SectionFacts, SectionsNumbered DEF Before, Ld!Filled
  <2>4. coff.sections[n].paddr \in Nat /\ k \in Nat
    BY <2>2, SectionFacts DEF Ld!Filled
  <2>5. PICK a \in Nat : a = coff.sections[n].paddr + k
    BY <2>4
  <2>6. a < Len(file.body) /\ file.body[a + 1] = coff.sections[n].data[k + 1]
    BY <1>2, <2>2, <2>3, <2>5 DEF Copied
  <2>7. PageSize \in Nat \ {0} /\ HeaderSize \in Nat
    BY LoaderAssumed DEF Ld!LoaderAssumption
  <2>8. PICK q \in Int, m \in Int : q = a \div PageSize /\ m = a % PageSize
    <3>1. a \div PageSize \in Int /\ a % PageSize \in Int
      BY <2>7, DivMod
    <3> QED
      BY <3>1, Zenon
  <2>9. a = q * PageSize + m /\ m \in 0..(PageSize - 1)
    <3>1. a \in Int
      OBVIOUS
    <3>2. /\ a % PageSize \in 0..(PageSize - 1)
          /\ \A x, y \in Int : x = a \div PageSize /\ y = a % PageSize =>
                                a = x * PageSize + y
      BY <2>7, <3>1, DivMod, Zenon
    <3>3. a = q * PageSize + m
      BY <2>8, <3>2, Zenon
    <3> QED
      BY <2>8, <3>2, <3>3, Zenon
  <2>10. q \in DOMAIN memory
    BY <1>2, <2>5, <2>8
  <2>11. memory[q][m] = Ld!FileByte(q * PageSize + HeaderSize + m)
    BY <2>9, <2>10 DEF LoaderInv, Loaded
  <2>12. PICK y \in Int : y = q * PageSize
    BY <2>7
  <2>13. q * PageSize + HeaderSize + m = a + HeaderSize
    BY <2>7, <2>9, <2>12
  <2>14. Ld!FileByte(a + HeaderSize) = file.body[a + 1]
    <3>1. (a + HeaderSize) - HeaderSize = a /\ Len(file.body) \in Nat
      BY <2>2, <2>7
    <3>2. a \in 0..(Len(file.body) - 1)
      BY <2>6, <3>1
    <3> QED
      BY <3>1, <3>2 DEF Ld!FileByte
  <2> QED
    BY <2>5, <2>6, <2>8, <2>11, <2>13, <2>14
<1>3. Ld!Contiguous => Ld!InPlace
  BY <1>2 DEF Ld!InPlace
<1>4. pc = "runs" /\ Ld!Contiguous =>
       \A n \in Ld!Filled : numPages * PageSize >= Ld!EndOf(n) + UserStackSize
  BY DEF LoaderInv
<1>5. pc \in {"exited", "runs"} =>
       /\ file.exists <=> loading = 0
       /\ loading = 0 => file.header # << >> /\ fault \notin Fault \ {"none",
                          "shortSection"}
  BY DEF LoaderInv, Stage
<1> QED
  BY <1>1, <1>3, <1>4, <1>5 DEF Ld!ImageLoaded

(* coff2noff, AddrSpace and pageFaultHandler bring a program without gaps  *)
(* into memory as the linker wrote it, whatever the byte orders of the     *)
(* hosts; when coff2noff fails, at whatever point, there is no file.       *)
THEOREM ProgramsAreLoaded ==
  MachineSpec => []ImageLoaded
<1>1. MachineInit => LoaderInv
  BY LoaderInit DEF MachineInit
<1>2. LoaderInv /\ [MachineNext]_<<part, processor, vars, loader, files>>
        => LoaderInv'
  <2> SUFFICES ASSUME [MachineNext]_<<part, processor, vars, loader, files>>
               PROVE  [Ld!Next]_(Ld!vars)
    BY LoaderStep
  <2>1. UNCHANGED loader => UNCHANGED Ld!vars
    BY DEF loader, Ld!vars
  <2> QED
    BY <2>1 DEF MachineNext
<1>3. LoaderInv => ImageLoaded
  BY LoaderMeans DEF ImageLoaded
<1> QED
  BY <1>1, <1>2, <1>3, PTL DEF MachineSpec
-----------------------------------------------------------------------------
(* The stub file system on the files of the host. *)

(* The smallest of a set of numbers, as in the lemmas about lists. *)
LEMMA Smallest ==
  ASSUME NEW T, T \subseteq Nat, T # {}
  PROVE  Fs!Min(T) \in T /\ \A y \in T : Fs!Min(T) <= y
<1>1. Fs!Min(T) = Min(T)
  BY DEF Fs!Min, Min
<1> QED
  BY <1>1, MinFacts

-----------------------------------------------------------------------------
OpenHandles == {o \in Handle : openFile[o] # None}
Entry == [file : File, position : Nat]

HostState ==
  [names : [Name -> File \union {None}], data : [File -> Seq(Byte \union {0})],
   fds : [Descriptor -> Entry \union {None}]]

(* The types.  No ASSERT has failed. *)
FilesTyped ==
  /\ unix \in HostState
  /\ openFile \in [Handle -> [file : Descriptor, currentOffset : Nat]
                             \union {None}]
  /\ failed = FALSE

(* Every open file has a descriptor of its own, and no descriptor is open  *)
(* that no open file has: Create, Print and the destructor close theirs.   *)
DescriptorsOwned ==
  /\ \A o \in OpenHandles : openFile[o].file \in Fs!Opened(unix)
  /\ \A o, p \in OpenHandles : openFile[o].file = openFile[p].file => o = p
  /\ \A d \in Fs!Opened(unix) : \E o \in OpenHandles : openFile[o].file = d

(* A file to which nothing leads has no data, so that a new file is empty. *)
UnusedEmpty == \A f \in File \ Fs!InUse(unix) : unix.data[f] = << >>

FilesInv == FilesTyped /\ DescriptorsOwned /\ UnusedEmpty

-----------------------------------------------------------------------------
(* What the operations of the host do to names, data and descriptors. *)

(* A state of the host that differs only in where descriptors are. *)
OnlyMoved(g, h) ==
  /\ g \in HostState
  /\ g.names = h.names /\ g.data = h.data
  /\ \A d \in Descriptor :
       /\ g.fds[d] = None <=> h.fds[d] = None
       /\ h.fds[d] # None => g.fds[d].file = h.fds[d].file

LEMMA EntryFacts ==
  ASSUME Fs!StubFilesAssumption, NEW h \in HostState, NEW d \in Fs!Opened(h)
  PROVE  /\ d \in Descriptor /\ h.fds[d] \in Entry
         /\ h.fds[d].file \in File /\ h.fds[d].position \in Nat
         /\ Fs!DataOf(h, d) \in Seq(Byte \union {0}) /\ Len(Fs!DataOf(h, d)) \in Nat
<1>1. d \in Descriptor /\ h.fds[d] \in Entry
  BY DEF Fs!Opened, HostState
<1>2. h.fds[d].file \in File /\ h.fds[d].position \in Nat
  BY <1>1 DEF Entry
<1> QED
  BY <1>1, <1>2 DEF Fs!DataOf, HostState

LEMMA MoveFacts ==
  ASSUME Fs!StubFilesAssumption, NEW h \in HostState, NEW d \in Fs!Opened(h),
         NEW p \in Nat
  PROVE  LET g == [h EXCEPT !.fds[d].position = p]
         IN  /\ OnlyMoved(g, h) /\ d \in Fs!Opened(g)
             /\ g.fds[d] = [file |-> h.fds[d].file, position |-> p]
<1> DEFINE e == [file |-> h.fds[d].file, position |-> p]
           g == [h EXCEPT !.fds = [h.fds EXCEPT ![d] = e]]
<1>1. /\ d \in Descriptor /\ h.fds[d] \in Entry
  BY EntryFacts
<1>2. e \in Entry /\ e # None
  BY <1>1 DEF Entry, Fs!StubFilesAssumption, Fs!HostFilesAssumption
<1>3. [h EXCEPT !.fds[d].position = p] = g
  <2>1. [h.fds[d] EXCEPT !.position = p] = e
    BY <1>1 DEF Entry
  <2>2. [h EXCEPT !.fds[d].position = p] =
          [h EXCEPT !.fds = [h.fds EXCEPT ![d] = [h.fds[d] EXCEPT !.position = p]]]
    BY <1>1 DEF HostState
  <2> QED
    BY <2>1, <2>2
<1> HIDE DEF e
<1>4. /\ g.names = h.names /\ g.data = h.data
      /\ g.fds = [h.fds EXCEPT ![d] = e]
      /\ g \in HostState
  BY <1>1, <1>2 DEF HostState
<1> HIDE DEF g
<1>5. g.fds[d] = e /\ \A c \in Descriptor : c # d => g.fds[c] = h.fds[c]
  BY <1>1, <1>4 DEF HostState
<1>6. h.fds[d] # None /\ e.file = h.fds[d].file
  BY DEF Fs!Opened, e
<1>7. OnlyMoved(g, h) /\ d \in Fs!Opened(g)
  BY <1>1, <1>2, <1>4, <1>5, <1>6 DEF OnlyMoved, Fs!Opened
<1> QED
  BY <1>3, <1>5, <1>7 DEF e

LEMMA OnlyMovedInUse ==
  ASSUME NEW h, NEW g, OnlyMoved(g, h)
  PROVE  Fs!Opened(g) = Fs!Opened(h) /\ Fs!InUse(g) = Fs!InUse(h)
<1>1. Fs!Opened(g) = Fs!Opened(h)
  BY DEF OnlyMoved, Fs!Opened
<1>2. {g.fds[d].file : d \in Fs!Opened(g)} = {h.fds[d].file : d \in Fs!Opened(h)}
  BY <1>1 DEF OnlyMoved, Fs!Opened
<1>3. {g.names[n] : n \in Name} = {h.names[n] : n \in Name}
  BY DEF OnlyMoved
<1> QED
  BY <1>1, <1>2, <1>3 DEF Fs!InUse

(* The first free descriptor is free. *)
LEMMA FreeFacts ==
  ASSUME Fs!StubFilesAssumption, NEW h \in HostState, Fs!Opened(h) # Descriptor
  PROVE  /\ Fs!FreeDescriptor(h) \in Descriptor /\ Fs!FreeDescriptor(h) # -1
         /\ h.fds[Fs!FreeDescriptor(h)] = None
<1>1. /\ Descriptor \ Fs!Opened(h) \subseteq Nat
      /\ Descriptor \ Fs!Opened(h) # {}
  BY DEF Fs!Opened, Fs!StubFilesAssumption, Fs!HostFilesAssumption
<1>2. Fs!FreeDescriptor(h) \in Descriptor \ Fs!Opened(h)
  BY <1>1, Smallest DEF Fs!FreeDescriptor
<1> QED
  BY <1>1, <1>2 DEF Fs!Opened

LEMMA OpenFacts ==
  ASSUME Fs!StubFilesAssumption, NEW h \in HostState, Fs!Opened(h) # Descriptor,
         NEW f \in File
  PROVE  LET g == Fs!OpenAs(h, f)
             d == Fs!FreeDescriptor(h)
         IN  /\ g \in HostState
             /\ g.names = h.names /\ g.data = h.data
             /\ g.fds = [h.fds EXCEPT ![d] = [file |-> f, position |-> 0]]
             /\ Fs!Opened(g) = Fs!Opened(h) \union {d}
<1> DEFINE e == [file |-> f, position |-> 0]
           d == Fs!FreeDescriptor(h)
           g == Fs!OpenAs(h, f)
<1>1. d \in Descriptor
  BY FreeFacts
<1>2. e \in Entry /\ e # None
  BY DEF Entry, Fs!StubFilesAssumption, Fs!HostFilesAssumption
<1>3. g = [h EXCEPT !.fds = [h.fds EXCEPT ![d] = e]]
  BY DEF Fs!OpenAs, HostState
<1> HIDE DEF e, d
<1>4. /\ g.names = h.names /\ g.data = h.data
      /\ g.fds = [h.fds EXCEPT ![d] = e]
      /\ g \in HostState
  BY <1>1, <1>2, <1>3 DEF HostState
<1> HIDE DEF g
<1>5. Fs!Opened(g) = Fs!Opened(h) \union {d}
  BY <1>1, <1>2, <1>4 DEF Fs!Opened, HostState
<1> QED
  BY <1>4, <1>5 DEF e, d, g

(* Files without name and descriptor lose their data. *)
LEMMA ReclaimFacts ==
  ASSUME NEW h \in HostState
  PROVE  LET g == Fs!Reclaimed(h)
         IN  /\ g \in HostState
             /\ g.names = h.names /\ g.fds = h.fds
             /\ Fs!Opened(g) = Fs!Opened(h) /\ Fs!InUse(g) = Fs!InUse(h)
             /\ \A f \in File :
                  g.data[f] = IF f \in Fs!InUse(h) THEN h.data[f] ELSE << >>
<1> DEFINE kept == [f \in File |-> IF f \in Fs!InUse(h) THEN h.data[f] ELSE << >>]
           g == Fs!Reclaimed(h)
<1>1. g = [h EXCEPT !.data = kept]
  BY DEF Fs!Reclaimed, HostState
<1>2. kept \in [File -> Seq(Byte \union {0})]
  BY DEF HostState
<1>3. \A f \in File : kept[f] = IF f \in Fs!InUse(h) THEN h.data[f] ELSE << >>
  OBVIOUS
<1> HIDE DEF kept
<1>4. g \in HostState /\ g.names = h.names /\ g.fds = h.fds /\ g.data = kept
  BY <1>1, <1>2 DEF HostState
<1> HIDE DEF g
<1>5. Fs!Opened(g) = Fs!Opened(h)
  BY <1>4 DEF Fs!Opened
<1>6. Fs!InUse(g) = Fs!InUse(h)
  BY <1>4, <1>5 DEF Fs!InUse
<1> QED
  BY <1>3, <1>4, <1>5, <1>6 DEF g

LEMMA CloseFacts ==
  ASSUME NEW h \in HostState, NEW d \in Descriptor
  PROVE  LET g == Fs!Close(h, d)
         IN  /\ g \in HostState
             /\ g.names = h.names /\ g.fds = [h.fds EXCEPT ![d] = None]
             /\ Fs!Opened(g) = Fs!Opened(h) \ {d}
             /\ \A f \in File :
                  g.data[f] = IF f \in Fs!InUse(g) THEN h.data[f] ELSE << >>
<1> DEFINE k == [h EXCEPT !.fds[d] = None]
           g == Fs!Close(h, d)
<1>1. /\ k \in HostState /\ k.names = h.names /\ k.data = h.data
      /\ k.fds = [h.fds EXCEPT ![d] = None]
  BY DEF HostState
<1>2. g = Fs!Reclaimed(k)
  BY DEF Fs!Close
<1> HIDE DEF k, g
<1>3. /\ g \in HostState /\ g.names = k.names /\ g.fds = k.fds
      /\ Fs!InUse(g) = Fs!InUse(k)
      /\ \A f \in File :
           g.data[f] = IF f \in Fs!InUse(k) THEN k.data[f] ELSE << >>
  BY <1>1, <1>2, ReclaimFacts
<1>4. Fs!Opened(g) = Fs!Opened(h) \ {d}
  BY <1>1, <1>3 DEF Fs!Opened, HostState
<1> QED
  BY <1>1, <1>3, <1>4 DEF g

LEMMA SeekFacts ==
  ASSUME Fs!StubFilesAssumption, NEW h \in HostState, NEW d \in Fs!Opened(h),
         NEW offset \in Nat, NEW whence
  PROVE  LET g == Fs!Lseek(h, d, offset, whence)
         IN  /\ OnlyMoved(g, h) /\ g \in HostState /\ d \in Fs!Opened(g)
             /\ Fs!Tell(g, d) = Fs!LseekTarget(h, d, offset, whence)
             /\ Fs!LseekTarget(h, d, offset, whence) \in Nat
             /\ Fs!DataOf(g, d) = Fs!DataOf(h, d)
             /\ Fs!LseekAsserts(h, d, offset, whence)
<1>1. PICK p : p = Fs!LseekTarget(h, d, offset, whence)
  OBVIOUS
<1>2. p \in Nat
  BY <1>1, EntryFacts DEF Fs!LseekTarget
<1>3. PICK g : g = [h EXCEPT !.fds[d].position = p]
  OBVIOUS
<1>4. g = Fs!Lseek(h, d, offset, whence)
  BY <1>1, <1>3 DEF Fs!Lseek
<1>5. /\ OnlyMoved(g, h) /\ d \in Fs!Opened(g)
      /\ g.fds[d] = [file |-> h.fds[d].file, position |-> p]
  BY <1>2, <1>3, MoveFacts
<1>6. /\ Fs!Tell(g, d) = p /\ Fs!DataOf(g, d) = Fs!DataOf(h, d)
      /\ g \in HostState
  BY <1>5 DEF Fs!Tell, Fs!DataOf, OnlyMoved
<1>7. Fs!LseekAsserts(h, d, offset, whence)
  BY <1>1, <1>2 DEF Fs!LseekAsserts
<1> QED
  BY <1>1, <1>2, <1>4, <1>5, <1>6, <1>7

(* The bytes from a position to the n-th behind it or the end. *)
FromTo(s, position, n) ==
  LET got == IF position + n <= Len(s) THEN n
             ELSE IF position <= Len(s) THEN Len(s) - position ELSE 0
  IN  SubSeq(s, position + 1, position + got)

LEMMA ReadFacts ==
  ASSUME Fs!StubFilesAssumption, NEW h \in HostState, NEW d \in Fs!Opened(h),
         NEW n \in Nat
  PROVE  /\ OnlyMoved(Fs!ReadPartial(h, d, n), h)
         /\ Fs!ReadPartialBytes(h, d, n) = FromTo(Fs!DataOf(h, d), Fs!Tell(h, d), n)
         /\ Fs!ReadPartialBytes(h, d, n) \in Seq(Byte \union {0})
         /\ Len(Fs!ReadPartialBytes(h, d, n)) \in Nat
<1> DEFINE s == Fs!DataOf(h, d)
           t == Fs!Tell(h, d)
           left == Len(s) - t
           count == IF left < 0 THEN 0 ELSE Fs!Min({left, n})
<1>1. s \in Seq(Byte \union {0}) /\ Len(s) \in Nat /\ t \in Nat
  BY EntryFacts DEF Fs!Tell
<1>2. count = IF t + n <= Len(s) THEN n ELSE IF t <= Len(s) THEN Len(s) - t
                                             ELSE 0
  <2>1. CASE left < 0
    BY <1>1, <2>1
  <2>2. CASE left >= 0
    <3>1. {left, n} \subseteq Nat /\ {left, n} # {}
      BY <1>1, <2>2
    <3>2. Fs!Min({left, n}) \in {left, n} /\ Fs!Min({left, n}) <= left
          /\ Fs!Min({left, n}) <= n
      BY <3>1, Smallest
    <3> QED
      BY <1>1, <2>2, <3>1, <3>2
  <2> QED
    BY <1>1, <2>1, <2>2
<1>3. Fs!ReadPartialBytes(h, d, n) = SubSeq(s, t + 1, t + count)
  BY DEF Fs!ReadPartialBytes
<1> HIDE DEF count, s, t
<1>4. Fs!ReadPartialBytes(h, d, n) = FromTo(s, t, n)
  BY <1>2, <1>3 DEF FromTo
<1>5. PICK c : c = count
  OBVIOUS
<1>6. (c \in Nat /\ t + c <= Len(s)) \/ c = 0
  BY <1>1, <1>2, <1>5
<1>7. SubSeq(s, t + 1, t + c) \in Seq(Byte \union {0})
  BY <1>1, <1>6
<1>8. Fs!ReadPartialBytes(h, d, n) \in Seq(Byte \union {0})
      /\ Len(Fs!ReadPartialBytes(h, d, n)) \in Nat
  BY <1>3, <1>5, <1>7
<1>9. PICK p : p = h.fds[d].position + Len(Fs!ReadPartialBytes(h, d, n))
  OBVIOUS
<1>10. Fs!ReadPartial(h, d, n) = [h EXCEPT !.fds[d].position = p]
  BY <1>9 DEF Fs!ReadPartial
<1>11. p \in Nat
  BY <1>8, <1>9, EntryFacts
<1>12. PICK g : g = [h EXCEPT !.fds[d].position = p]
  OBVIOUS
<1>13. OnlyMoved(g, h)
  BY <1>11, <1>12, MoveFacts
<1>14. OnlyMoved(Fs!ReadPartial(h, d, n), h)
  BY <1>10, <1>12, <1>13
<1> QED
  BY <1>4, <1>8, <1>14 DEF s, t

LEMMA WriteFacts ==
  ASSUME Fs!StubFilesAssumption, NEW h \in HostState, NEW d \in Fs!Opened(h),
         NEW b \in Byte
  PROVE  LET g == Fs!WriteFile(h, d, <<b>>)
             f == h.fds[d].file
         IN  /\ g \in HostState /\ g.names = h.names
             /\ g.data = [h.data EXCEPT ![f] =
                            Fs!Overwritten(h.data[f], Fs!Tell(h, d), <<b>>)]
             /\ \A c \in Descriptor :
                  /\ g.fds[c] = None <=> h.fds[c] = None
                  /\ h.fds[c] # None => g.fds[c].file = h.fds[c].file
<1>1. PICK f, t : f = h.fds[d].file /\ t = Fs!Tell(h, d)
  OBVIOUS
<1>2. f \in File /\ t \in Nat /\ h.data[f] \in Seq(Byte \union {0})
      /\ Len(h.data[f]) \in Nat
  BY <1>1, EntryFacts DEF Fs!Tell, HostState
<1>3. PICK s : s = Fs!Overwritten(h.data[f], t, <<b>>)
  OBVIOUS
<1>4. s \in Seq(Byte \union {0})
  <2>1. PICK old : old = h.data[f]
    OBVIOUS
  <2>2. PICK size \in Nat :
          size = IF Len(old) > t + 1 THEN Len(old) ELSE t + 1
    BY <1>2, <2>1
  <2>3. \A i \in 1..size :
          (IF i > t /\ i <= t + 1 THEN <<b>>[i - t]
           ELSE IF i <= Len(old) THEN old[i] ELSE 0) \in Byte \union {0}
    BY <1>2, <2>1, <2>2
  <2>4. s = [i \in 1..size |-> IF i > t /\ i <= t + 1 THEN <<b>>[i - t]
                               ELSE IF i <= Len(old) THEN old[i] ELSE 0]
    BY <1>3, <2>1, <2>2 DEF Fs!Overwritten
  <2> QED
    BY <2>2, <2>3, <2>4
<1>5. PICK k : k = [h EXCEPT !.data = [h.data EXCEPT ![f] = s]]
  OBVIOUS
<1>6. /\ k \in HostState /\ k.names = h.names /\ k.fds = h.fds
      /\ k.data = [h.data EXCEPT ![f] = s]
  BY <1>2, <1>4, <1>5 DEF HostState
<1>7. d \in Fs!Opened(k)
  BY <1>6 DEF Fs!Opened
<1>8. PICK p, g : p = t + 1 /\ g = [k EXCEPT !.fds[d].position = p]
  OBVIOUS
<1>9. OnlyMoved(g, k)
  <2>1. p \in Nat
    BY <1>2, <1>8
  <2> QED
    BY <1>6, <1>7, <1>8, <2>1, MoveFacts
<1>10. g = Fs!WriteFile(h, d, <<b>>)
  <2>1. Fs!WriteFile(h, d, <<b>>) =
          [h EXCEPT !.data[f] = s, !.fds[d].position = t + 1]
    BY <1>1, <1>3 DEF Fs!WriteFile, Fs!Tell
  <2>2. k = [h EXCEPT !.data[f] = s]
    BY <1>5
  <2> QED
    BY <1>8, <2>1, <2>2
<1> QED
  BY <1>1, <1>3, <1>6, <1>9, <1>10 DEF OnlyMoved

-----------------------------------------------------------------------------
(* There are fewer open files than descriptors, so one is always free. *)
LEMMA AlwaysFree ==
  ASSUME Fs!StubFilesAssumption, FilesInv
  PROVE  Fs!Opened(unix) # Descriptor
<1> SUFFICES ASSUME Fs!Opened(unix) = Descriptor PROVE FALSE
  OBVIOUS
<1> DEFINE user == [d \in Descriptor |->
                      CHOOSE o \in OpenHandles : openFile[o].file = d]
<1>1. \A d \in Descriptor :
        user[d] \in OpenHandles /\ openFile[user[d]].file = d
  BY DEF FilesInv, DescriptorsOwned
<1>2. user \in [Descriptor -> Handle]
  BY <1>1 DEF OpenHandles
<1> HIDE DEF user
<1>3. \E c, d \in Descriptor : c # d /\ user[c] = user[d]
  <2>1. /\ Fs!IsFiniteSet(Handle) <=> IsFiniteSet(Handle)
        /\ Fs!IsFiniteSet(Descriptor) <=> IsFiniteSet(Descriptor)
    BY DEF Fs!IsFiniteSet, IsFiniteSet
  <2>2. Fs!Cardinality(Handle) = Cardinality(Handle)
    BY DEF Fs!Cardinality, Cardinality
  <2>3. Fs!Cardinality(Descriptor) = Cardinality(Descriptor)
    BY DEF Fs!Cardinality, Cardinality
  <2>4. /\ IsFiniteSet(Handle) /\ IsFiniteSet(Descriptor)
        /\ Cardinality(Handle) < Cardinality(Descriptor)
    BY <2>1, <2>2, <2>3 DEF Fs!StubFilesAssumption, Fs!HostFilesAssumption
  <2> QED
    BY <1>2, <2>4, FS_PigeonHole
<1> QED
  BY <1>1, <1>3

(* What Create leaves: an empty file of that name. *)
LEMMA CreateEffect ==
  ASSUME Fs!StubFilesAssumption, FilesInv, NEW n \in Name, Fs!Create(n)
  PROVE  \E f \in IF unix.names[n] = None THEN File \ Fs!InUse(unix)
                  ELSE {unix.names[n]} :
           /\ f \in File /\ unix' \in HostState
           /\ unix'.names = [unix.names EXCEPT ![n] = f]
           /\ unix'.data = [unix.data EXCEPT ![f] = << >>]
           /\ unix'.fds = unix.fds /\ failed' = FALSE
<1>1. unix \in HostState /\ failed = FALSE
  BY DEF FilesInv, FilesTyped
<1>2. PICK fd : fd = Fs!FreeDescriptor(unix)
  OBVIOUS
<1>3. fd \in Descriptor /\ fd # -1 /\ unix.fds[fd] = None
  BY <1>1, <1>2, AlwaysFree, FreeFacts
<1>4. PICK f : f = IF unix.names[n] = None THEN Fs!NewFile(unix) ELSE unix.names[n]
  OBVIOUS
<1>5. f \in File /\ (unix.names[n] = None => f \notin Fs!InUse(unix))
  <2>1. CASE unix.names[n] = None
    <3>1. File \ Fs!InUse(unix) # {}
      BY <2>1 DEF Fs!Create, Fs!HostHasRoom
    <3> QED
      BY <1>4, <2>1, <3>1 DEF Fs!NewFile
  <2>2. CASE unix.names[n] # None
    BY <1>1, <1>4, <2>2 DEF HostState
  <2> QED
    BY <2>1, <2>2
<1>6. PICK h0 : h0 = [unix EXCEPT !.names[n] = f, !.data[f] = << >>]
  OBVIOUS
<1>7. /\ h0 \in HostState /\ h0.names = [unix.names EXCEPT ![n] = f]
      /\ h0.data = [unix.data EXCEPT ![f] = << >>] /\ h0.fds = unix.fds
  <2>1. PICK named : named = [unix.names EXCEPT ![n] = f]
    OBVIOUS
  <2>2. PICK emptied : emptied = [unix.data EXCEPT ![f] = << >>]
    OBVIOUS
  <2>3. /\ named \in [Name -> File \union {None}]
        /\ emptied \in [File -> Seq(Byte \union {0})]
    <3>1. << >> \in Seq(Byte \union {0})
      OBVIOUS
    <3> QED
      BY <1>1, <1>5, <2>1, <2>2, <3>1 DEF HostState
  <2>4. h0 = [unix EXCEPT !.names = named, !.data = emptied]
    BY <1>1, <1>6, <2>1, <2>2 DEF HostState
  <2>5. /\ h0 \in HostState /\ h0.names = named /\ h0.data = emptied
        /\ h0.fds = unix.fds
    BY <1>1, <2>3, <2>4 DEF HostState
  <2> QED
    BY <2>1, <2>2, <2>5
<1>8. Fs!Opened(h0) = Fs!Opened(unix) /\ Fs!FreeDescriptor(h0) = fd
  BY <1>2, <1>7 DEF Fs!Opened, Fs!FreeDescriptor
<1>9. PICK h1 : h1 = Fs!OpenAs(h0, f)
  OBVIOUS
<1>10. /\ h1 \in HostState /\ h1.names = h0.names /\ h1.data = h0.data
       /\ h1.fds = [h0.fds EXCEPT ![fd] = [file |-> f, position |-> 0]]
  BY <1>5, <1>7, <1>8, <1>9, AlwaysFree, OpenFacts
<1>11. Fs!OpenForWrite(unix, n) = h1
  BY <1>4, <1>6, <1>9 DEF Fs!OpenForWrite
<1>12. PICK h2 : h2 = Fs!Close(h1, fd)
  OBVIOUS
<1>13. /\ h2 \in HostState /\ h2.names = h1.names
       /\ h2.fds = [h1.fds EXCEPT ![fd] = None]
       /\ \A g \in File :
            h2.data[g] = IF g \in Fs!InUse(h2) THEN h1.data[g] ELSE << >>
  BY <1>3, <1>10, <1>12, CloseFacts
<1>14. h2.fds = unix.fds
  BY <1>1, <1>3, <1>7, <1>10, <1>13 DEF HostState
<1>15. unix' = h2 /\ failed' = FALSE
  BY <1>1, <1>2, <1>3, <1>11, <1>12 DEF Fs!Create, Fs!Becomes
<1>16. ASSUME NEW g \in File, g # f, g \notin Fs!InUse(h2)
       PROVE  unix.data[g] = << >>
  <2>1. \A m \in Name : unix.names[m] # g
    <3> SUFFICES ASSUME NEW m \in Name, unix.names[m] = g PROVE FALSE
      OBVIOUS
    <3>1. m # n
      BY <1>4, <1>16 DEF Fs!StubFilesAssumption, Fs!HostFilesAssumption
    <3>2. h2.names[m] = g
      BY <1>1, <1>7, <1>10, <1>13, <3>1 DEF HostState
    <3> QED
      BY <1>16, <3>2 DEF Fs!InUse
  <2>2. \A d \in Fs!Opened(unix) : unix.fds[d].file # g
    BY <1>14, <1>16 DEF Fs!InUse, Fs!Opened
  <2>3. g \notin Fs!InUse(unix)
    BY <2>1, <2>2 DEF Fs!InUse
  <2> QED
    BY <2>3 DEF FilesInv, UnusedEmpty
<1>17. h2.data = [unix.data EXCEPT ![f] = << >>]
  <2>1. \A g \in File : h1.data[g] = IF g = f THEN << >> ELSE unix.data[g]
    BY <1>1, <1>7, <1>10 DEF HostState
  <2>2. \A g \in File : h2.data[g] = IF g = f THEN << >> ELSE unix.data[g]
    BY <1>13, <1>16, <2>1
  <2>3. /\ h2.data \in [File -> Seq(Byte \union {0})]
        /\ unix.data \in [File -> Seq(Byte \union {0})]
    BY <1>1, <1>13 DEF HostState
  <2> QED
    BY <2>2, <2>3
<1>18. h2.names = [unix.names EXCEPT ![n] = f]
  BY <1>7, <1>10, <1>13
<1> QED
  BY <1>4, <1>5, <1>13, <1>14, <1>15, <1>17, <1>18

(* Print closes what it has opened. *)
LEMMA PrintEffect ==
  ASSUME Fs!StubFilesAssumption, FilesInv, NEW n \in Name, Fs!PrintFile(n)
  PROVE  /\ unix' \in HostState /\ unix'.names = unix.names
         /\ unix'.data = unix.data /\ unix'.fds = unix.fds
         /\ failed' = FALSE
<1>1. unix \in HostState /\ failed = FALSE
  BY DEF FilesInv, FilesTyped
<1>2. PICK fd : fd = Fs!FreeDescriptor(unix)
  OBVIOUS
<1>3. fd \in Descriptor /\ fd # -1 /\ unix.fds[fd] = None
  BY <1>1, <1>2, AlwaysFree, FreeFacts
<1>4. CASE unix.names[n] = None
  BY <1>1, <1>4 DEF Fs!PrintFile, Fs!OpenForReadWriteFd
<1>5. CASE unix.names[n] # None
  <2>1. unix.names[n] \in File /\ Fs!OpenForReadWriteFd(unix, n) = fd
    BY <1>1, <1>2, <1>5 DEF HostState, Fs!OpenForReadWriteFd
  <2>2. PICK h1 : h1 = Fs!OpenAs(unix, unix.names[n])
    OBVIOUS
  <2>3. /\ h1 \in HostState /\ h1.names = unix.names /\ h1.data = unix.data
        /\ h1.fds = [unix.fds EXCEPT ![fd] =
                       [file |-> unix.names[n], position |-> 0]]
        /\ Fs!Opened(h1) = Fs!Opened(unix) \union {fd}
    BY <1>1, <1>2, <2>1, <2>2, AlwaysFree, OpenFacts
  <2>4. Fs!OpenForReadWrite(unix, n) = h1
    BY <1>3, <2>1, <2>2 DEF Fs!OpenForReadWrite
  <2>5. PICK h2 : h2 = Fs!Close(h1, fd)
    OBVIOUS
  <2>6. /\ h2 \in HostState /\ h2.names = h1.names
        /\ h2.fds = [h1.fds EXCEPT ![fd] = None]
        /\ \A g \in File :
             h2.data[g] = IF g \in Fs!InUse(h2) THEN h1.data[g] ELSE << >>
    BY <1>3, <2>3, <2>5, CloseFacts
  <2>7. h2.fds = unix.fds
    BY <1>1, <1>3, <2>3, <2>6 DEF HostState
  <2>8. unix' = h2 /\ failed' = FALSE
    BY <1>1, <1>3, <2>1, <2>3, <2>4, <2>5 DEF Fs!PrintFile, Fs!Becomes, Fs!CloseAsserts
  <2>9. Fs!InUse(h2) = Fs!InUse(unix)
    BY <2>3, <2>6, <2>7 DEF Fs!InUse, Fs!Opened
  <2>10. \A g \in File : h2.data[g] = unix.data[g]
    BY <2>3, <2>6, <2>9 DEF FilesInv, UnusedEmpty
  <2>11. /\ h2.data \in [File -> Seq(Byte \union {0})]
         /\ unix.data \in [File -> Seq(Byte \union {0})]
    BY <1>1, <2>6 DEF HostState
  <2>12. h2.data = unix.data
    BY <2>10, <2>11
  <2> QED
    BY <2>3, <2>6, <2>7, <2>8, <2>12
<1> QED
  BY <1>4, <1>5

LEMMA OpenEffect ==
  ASSUME Fs!StubFilesAssumption, FilesInv, NEW n \in Name, NEW o \in Handle,
         Fs!Open(n, o), unix.names[n] # None
  PROVE  \E fd \in Descriptor :
           /\ unix' \in HostState /\ failed' = FALSE
           /\ unix'.names = unix.names /\ unix'.data = unix.data
           /\ unix.fds[fd] = None
           /\ unix'.fds = [unix.fds EXCEPT ![fd] =
                             [file |-> unix.names[n], position |-> 0]]
           /\ openFile' = [openFile EXCEPT ![o] =
                             [file |-> fd, currentOffset |-> 0]]
           /\ result' = <<"Open", TRUE>>
<1>1. unix \in HostState /\ failed = FALSE
  BY DEF FilesInv, FilesTyped
<1>2. PICK fd : fd = Fs!FreeDescriptor(unix)
  OBVIOUS
<1>3. fd \in Descriptor /\ fd # -1 /\ unix.fds[fd] = None
  BY <1>1, <1>2, AlwaysFree, FreeFacts
<1>4. unix.names[n] \in File /\ Fs!OpenForReadWriteFd(unix, n) = fd
  BY <1>1, <1>2 DEF HostState, Fs!OpenForReadWriteFd
<1>5. PICK h1 : h1 = Fs!OpenAs(unix, unix.names[n])
  OBVIOUS
<1>6. /\ h1 \in HostState /\ h1.names = unix.names /\ h1.data = unix.data
      /\ h1.fds = [unix.fds EXCEPT ![fd] =
                     [file |-> unix.names[n], position |-> 0]]
  BY <1>1, <1>2, <1>4, <1>5, AlwaysFree, OpenFacts
<1>7. Fs!OpenForReadWrite(unix, n) = h1
  BY <1>3, <1>4, <1>5 DEF Fs!OpenForReadWrite
<1>8. unix' = h1 /\ failed' = FALSE
  BY <1>1, <1>7 DEF Fs!Open, Fs!Becomes
<1>9. /\ openFile' = [openFile EXCEPT ![o] = [file |-> fd, currentOffset |-> 0]]
      /\ result' = <<"Open", TRUE>>
  BY <1>3, <1>4 DEF Fs!Open
<1> QED
  BY <1>3, <1>6, <1>8, <1>9

(* The file that an OpenFile reads and writes. *)
FileOf(o) == unix.fds[openFile[o].file].file

LEMMA HandleFacts ==
  ASSUME Fs!StubFilesAssumption, FilesInv, NEW o \in OpenHandles
  PROVE  /\ unix \in HostState /\ failed = FALSE
         /\ o \in Handle /\ openFile[o] \in [file : Descriptor, currentOffset : Nat]
         /\ openFile[o].file \in Fs!Opened(unix) /\ openFile[o].file \in Descriptor
         /\ openFile[o].currentOffset \in Nat
         /\ FileOf(o) \in File /\ unix.data[FileOf(o)] \in Seq(Byte \union {0})
         /\ Len(unix.data[FileOf(o)]) \in Nat
         /\ Fs!DataOf(unix, openFile[o].file) = unix.data[FileOf(o)]
<1>1. /\ unix \in HostState /\ failed = FALSE /\ o \in Handle
      /\ openFile[o] \in [file : Descriptor, currentOffset : Nat]
      /\ openFile[o].file \in Fs!Opened(unix)
  BY DEF FilesInv, FilesTyped, DescriptorsOwned, OpenHandles
<1>2. FileOf(o) \in File
  BY <1>1, EntryFacts DEF FileOf
<1>3. unix.data[FileOf(o)] \in Seq(Byte \union {0})
  BY <1>1, <1>2 DEF HostState
<1>4. openFile[o].file \in Descriptor /\ openFile[o].currentOffset \in Nat
  BY <1>1
<1>5. Len(unix.data[FileOf(o)]) \in Nat
  BY <1>3
<1>6. Fs!DataOf(unix, openFile[o].file) = unix.data[FileOf(o)]
  BY DEF Fs!DataOf, FileOf
<1> QED
  BY <1>1, <1>2, <1>3, <1>4, <1>5, <1>6

LEMMA MovedTwice ==
  ASSUME NEW f, NEW g, NEW h, OnlyMoved(f, g), OnlyMoved(g, h)
  PROVE  OnlyMoved(f, h)
  BY DEF OnlyMoved

LEMMA ReadAtEffect ==
  ASSUME Fs!StubFilesAssumption, FilesInv, NEW o \in OpenHandles,
         NEW n \in Nat, NEW position \in Nat, Fs!ReadAt(o, n, position)
  PROVE  /\ OnlyMoved(unix', unix) /\ failed' = FALSE
         /\ result' = <<"Read", FromTo(unix.data[FileOf(o)], position, n)>>
         /\ Len(result'[2]) \in Nat
<1>1. PICK fd : fd = openFile[o].file
  OBVIOUS
<1>2. /\ unix \in HostState /\ failed = FALSE /\ fd \in Fs!Opened(unix)
      /\ Fs!DataOf(unix, fd) = unix.data[FileOf(o)]
  BY <1>1, HandleFacts
<1>3. PICK there : there = Fs!Lseek(unix, fd, position, 0)
  OBVIOUS
<1>4. Fs!LseekTarget(unix, fd, position, 0) = position
  BY DEF Fs!LseekTarget
<1>5. /\ OnlyMoved(there, unix) /\ there \in HostState /\ fd \in Fs!Opened(there)
      /\ Fs!Tell(there, fd) = position /\ Fs!DataOf(there, fd) = Fs!DataOf(unix, fd)
      /\ Fs!LseekAsserts(unix, fd, position, 0)
  BY <1>2, <1>3, <1>4, SeekFacts
<1>6. /\ OnlyMoved(Fs!ReadPartial(there, fd, n), there)
      /\ Fs!ReadPartialBytes(there, fd, n) =
           FromTo(Fs!DataOf(there, fd), Fs!Tell(there, fd), n)
      /\ Len(Fs!ReadPartialBytes(there, fd, n)) \in Nat
  BY <1>5, ReadFacts
<1>7. /\ unix' = Fs!ReadPartial(there, fd, n)
      /\ result' = <<"Read", Fs!ReadPartialBytes(there, fd, n)>>
      /\ failed' = FALSE
  BY <1>1, <1>2, <1>3, <1>5 DEF Fs!ReadAt, Fs!Becomes
<1>8. OnlyMoved(unix', unix)
  BY <1>5, <1>6, <1>7, MovedTwice
<1>9. result'[2] = Fs!ReadPartialBytes(there, fd, n)
  BY <1>7
<1> QED
  BY <1>2, <1>5, <1>6, <1>7, <1>8, <1>9

LEMMA WriteAtEffect ==
  ASSUME Fs!StubFilesAssumption, FilesInv, NEW o \in OpenHandles,
         NEW b \in Byte, NEW position \in Nat, Fs!WriteAt(o, <<b>>, position)
  PROVE  /\ unix' \in HostState /\ failed' = FALSE
         /\ unix'.names = unix.names
         /\ unix'.data = [unix.data EXCEPT ![FileOf(o)] =
                            Fs!Overwritten(unix.data[FileOf(o)], position, <<b>>)]
         /\ \A d \in Descriptor :
              /\ unix'.fds[d] = None <=> unix.fds[d] = None
              /\ unix.fds[d] # None => unix'.fds[d].file = unix.fds[d].file
         /\ result' = <<"Write", 1>>
<1>1. PICK fd : fd = openFile[o].file
  OBVIOUS
<1>2. /\ unix \in HostState /\ failed = FALSE /\ fd \in Fs!Opened(unix)
      /\ FileOf(o) = unix.fds[fd].file
  BY <1>1, HandleFacts DEF FileOf
<1>3. PICK there : there = Fs!Lseek(unix, fd, position, 0)
  OBVIOUS
<1>4. Fs!LseekTarget(unix, fd, position, 0) = position
  BY DEF Fs!LseekTarget
<1>5. /\ OnlyMoved(there, unix) /\ there \in HostState /\ fd \in Fs!Opened(there)
      /\ Fs!Tell(there, fd) = position
      /\ Fs!LseekAsserts(unix, fd, position, 0)
  BY <1>2, <1>3, <1>4, SeekFacts
<1>6. fd \in Descriptor /\ there.fds[fd].file = FileOf(o)
  BY <1>2, <1>5 DEF OnlyMoved, Fs!Opened
<1>7. PICK g : g = Fs!WriteFile(there, fd, <<b>>)
  OBVIOUS
<1>8. /\ g \in HostState /\ g.names = there.names
      /\ g.data = [there.data EXCEPT ![there.fds[fd].file] =
                     Fs!Overwritten(there.data[there.fds[fd].file],
                                 Fs!Tell(there, fd), <<b>>)]
      /\ \A c \in Descriptor :
           /\ g.fds[c] = None <=> there.fds[c] = None
           /\ there.fds[c] # None => g.fds[c].file = there.fds[c].file
  BY <1>5, <1>7, WriteFacts
<1>9. unix' = g /\ failed' = FALSE /\ result' = <<"Write", 1>>
  BY <1>1, <1>2, <1>3, <1>5, <1>7 DEF Fs!WriteAt, Fs!Becomes
<1> QED
  BY <1>5, <1>6, <1>8, <1>9 DEF OnlyMoved

LEMMA LengthEffect ==
  ASSUME Fs!StubFilesAssumption, FilesInv, NEW o \in OpenHandles, Fs!Length(o)
  PROVE  /\ OnlyMoved(unix', unix) /\ failed' = FALSE
         /\ result' = <<"Length", Len(unix.data[FileOf(o)])>>
<1>1. PICK fd : fd = openFile[o].file
  OBVIOUS
<1>2. /\ unix \in HostState /\ failed = FALSE /\ fd \in Fs!Opened(unix)
      /\ Fs!DataOf(unix, fd) = unix.data[FileOf(o)]
      /\ Len(unix.data[FileOf(o)]) \in Nat
  BY <1>1, HandleFacts
<1>3. PICK end : end = Fs!Lseek(unix, fd, 0, 2)
  OBVIOUS
<1>4. Fs!LseekTarget(unix, fd, 0, 2) = Len(unix.data[FileOf(o)])
  BY <1>2 DEF Fs!LseekTarget
<1>5. /\ OnlyMoved(end, unix)
      /\ Fs!Tell(end, fd) = Len(unix.data[FileOf(o)])
      /\ Fs!LseekAsserts(unix, fd, 0, 2)
  BY <1>2, <1>3, <1>4, SeekFacts
<1> QED
  BY <1>1, <1>2, <1>3, <1>5 DEF Fs!Length, Fs!Becomes

LEMMA RemoveEffect ==
  ASSUME Fs!StubFilesAssumption, FilesInv, NEW n \in Name, Fs!Remove(n)
  PROVE  /\ unix' \in HostState /\ failed' = FALSE
         /\ unix'.names = [unix.names EXCEPT ![n] = None]
         /\ unix'.fds = unix.fds
         /\ \A f \in File : unix'.data[f] =
              IF f \in Fs!InUse(unix') THEN unix.data[f] ELSE << >>
<1>1. unix \in HostState /\ failed = FALSE
  BY DEF FilesInv, FilesTyped
<1>2. PICK k : k = [unix EXCEPT !.names[n] = None]
  OBVIOUS
<1>3. /\ k \in HostState /\ k.names = [unix.names EXCEPT ![n] = None]
      /\ k.data = unix.data /\ k.fds = unix.fds
  BY <1>1, <1>2 DEF HostState
<1>4. unix' = Fs!Reclaimed(k) /\ failed' = FALSE
  BY <1>1, <1>2 DEF Fs!Remove, Fs!Becomes, Fs!Unlink
<1> QED
  BY <1>3, <1>4, ReclaimFacts

LEMMA DeleteEffect ==
  ASSUME Fs!StubFilesAssumption, FilesInv, NEW o \in Handle, Fs!Delete(o)
  PROVE  /\ o \in OpenHandles /\ unix' \in HostState /\ failed' = FALSE
         /\ unix'.names = unix.names
         /\ unix'.fds = [unix.fds EXCEPT ![openFile[o].file] = None]
         /\ \A f \in File : unix'.data[f] =
              IF f \in Fs!InUse(unix') THEN unix.data[f] ELSE << >>
<1>1. o \in OpenHandles
  BY DEF Fs!Delete, OpenHandles
<1>2. PICK fd : fd = openFile[o].file
  OBVIOUS
<1>3. /\ unix \in HostState /\ failed = FALSE /\ fd \in Fs!Opened(unix)
      /\ fd \in Descriptor
  BY <1>1, <1>2, HandleFacts
<1>4. unix' = Fs!Close(unix, fd) /\ failed' = FALSE
  BY <1>2, <1>3 DEF Fs!Delete, Fs!Becomes, Fs!CloseAsserts
<1> QED
  BY <1>1, <1>2, <1>3, <1>4, CloseFacts

-----------------------------------------------------------------------------
(* A step that changes the files of neither descriptors nor OpenFiles.     *)
SameFiles ==
  /\ unix' \in HostState /\ failed' = FALSE
  /\ \A d \in Descriptor :
       /\ unix'.fds[d] = None <=> unix.fds[d] = None
       /\ unix.fds[d] # None => unix'.fds[d].file = unix.fds[d].file
  /\ openFile' \in [Handle -> [file : Descriptor, currentOffset : Nat]
                              \union {None}]
  /\ \A o \in Handle :
       /\ openFile'[o] = None <=> openFile[o] = None
       /\ openFile[o] # None => openFile'[o].file = openFile[o].file

LEMMA SameFilesFacts ==
  ASSUME Fs!StubFilesAssumption, FilesInv, SameFiles
  PROVE  /\ FilesTyped' /\ DescriptorsOwned'
         /\ {unix'.fds[d].file : d \in Fs!Opened(unix')} =
              {unix.fds[d].file : d \in Fs!Opened(unix)}
         /\ \A o \in OpenHandles : FileOf(o)' = FileOf(o)
<1>1. Fs!Opened(unix') = Fs!Opened(unix) /\ OpenHandles' = OpenHandles
  BY DEF SameFiles, Fs!Opened, OpenHandles
<1>2. \A o \in OpenHandles : openFile'[o].file = openFile[o].file
  BY DEF SameFiles, OpenHandles
<1>3. FilesTyped'
  BY DEF SameFiles, FilesTyped
<1>4. DescriptorsOwned'
  BY <1>1, <1>2 DEF DescriptorsOwned, FilesInv
<1>5. \A d \in Fs!Opened(unix) : unix'.fds[d].file = unix.fds[d].file
  BY DEF SameFiles, Fs!Opened
<1>6. \A o \in OpenHandles : openFile[o].file \in Fs!Opened(unix)
  BY DEF FilesInv, DescriptorsOwned
<1>7. \A o \in OpenHandles : FileOf(o)' = FileOf(o)
  BY <1>2, <1>5, <1>6 DEF FileOf
<1>8. {unix'.fds[d].file : d \in Fs!Opened(unix')} =
        {unix.fds[d].file : d \in Fs!Opened(unix)}
  BY <1>1, <1>5
<1> QED
  BY <1>3, <1>4, <1>7, <1>8

LEMMA MovedIsSame ==
  ASSUME FilesInv, OnlyMoved(unix', unix), failed' = FALSE,
         openFile' \in [Handle -> [file : Descriptor, currentOffset : Nat]
                                  \union {None}],
         \A o \in Handle :
           /\ openFile'[o] = None <=> openFile[o] = None
           /\ openFile[o] # None => openFile'[o].file = openFile[o].file
  PROVE  SameFiles /\ UnusedEmpty'
<1>1. Fs!InUse(unix') = Fs!InUse(unix)
  BY OnlyMovedInUse
<1> QED
  BY <1>1 DEF SameFiles, OnlyMoved, FilesInv, UnusedEmpty

(* The offset of an OpenFile goes on. *)
LEMMA OffsetMoves ==
  ASSUME Fs!StubFilesAssumption, FilesInv, NEW o \in OpenHandles, NEW n \in Nat,
         openFile' = [openFile EXCEPT ![o].currentOffset = @ + n]
  PROVE  /\ openFile' \in [Handle -> [file : Descriptor, currentOffset : Nat]
                                     \union {None}]
         /\ \A p \in Handle :
              /\ openFile'[p] = None <=> openFile[p] = None
              /\ openFile[p] # None => openFile'[p].file = openFile[p].file
         /\ openFile'[o] = [file |-> openFile[o].file,
                            currentOffset |-> openFile[o].currentOffset + n]
         /\ \A p \in Handle \ {o} : openFile'[p] = openFile[p]
<1>1. /\ openFile[o] \in [file : Descriptor, currentOffset : Nat]
      /\ o \in Handle /\ openFile[o] # None
  BY HandleFacts DEF OpenHandles
<1>2. PICK e : e = [file |-> openFile[o].file,
                    currentOffset |-> openFile[o].currentOffset + n]
  OBVIOUS
<1>3. e \in [file : Descriptor, currentOffset : Nat] /\ e # None
  BY <1>1, <1>2 DEF Fs!StubFilesAssumption
<1>4. openFile' = [openFile EXCEPT ![o] = e]
  <2>1. [openFile[o] EXCEPT !.currentOffset = openFile[o].currentOffset + n] = e
    BY <1>1, <1>2
  <2>2. openFile' = [openFile EXCEPT ![o] =
          [openFile[o] EXCEPT !.currentOffset = openFile[o].currentOffset + n]]
    OBVIOUS
  <2> QED
    BY <2>1, <2>2
<1>5. openFile \in [Handle -> [file : Descriptor, currentOffset : Nat]
                              \union {None}]
  BY DEF FilesInv, FilesTyped
<1>6. openFile'[o] = e /\ \A p \in Handle \ {o} : openFile'[p] = openFile[p]
  BY <1>1, <1>4, <1>5
<1>7. e.file = openFile[o].file
  BY <1>2
<1> QED
  BY <1>1, <1>2, <1>3, <1>4, <1>5, <1>6, <1>7

LEMMA FilesNextInv ==
  ASSUME Fs!StubFilesAssumption, FilesInv, [Fs!Next]_(Fs!vars)
  PROVE  FilesInv'
<1> USE DEF FilesInv
<1>0. /\ openFile \in [Handle -> [file : Descriptor, currentOffset : Nat]
                                 \union {None}]
      /\ unix \in HostState /\ failed = FALSE
  BY DEF FilesTyped
<1>1. ASSUME NEW n \in Name, Fs!Create(n) PROVE FilesInv'
  <2>1. PICK f \in IF unix.names[n] = None THEN File \ Fs!InUse(unix)
                   ELSE {unix.names[n]} :
           /\ f \in File /\ unix' \in HostState
           /\ unix'.names = [unix.names EXCEPT ![n] = f]
           /\ unix'.data = [unix.data EXCEPT ![f] = << >>]
           /\ unix'.fds = unix.fds /\ failed' = FALSE
    BY <1>1, CreateEffect
  <2>2. SameFiles
    BY <1>0, <1>1, <2>1 DEF SameFiles, Fs!Create
  <2>3. FilesTyped' /\ DescriptorsOwned'
    BY <2>2, SameFilesFacts
  <2>4. ASSUME NEW g \in File, g \notin Fs!InUse(unix') PROVE unix'.data[g] = << >>
    <3>1. unix'.names[n] = f /\ \A m \in Name \ {n} : unix'.names[m] = unix.names[m]
      BY <1>0, <1>1, <2>1 DEF HostState
    <3>2. g # f
      BY <2>4, <3>1, <1>1 DEF Fs!InUse
    <3>3. \A m \in Name : unix.names[m] # g
      BY <2>1, <2>4, <3>1, <3>2 DEF Fs!InUse, Fs!StubFilesAssumption,
                                    Fs!HostFilesAssumption
    <3>4. \A d \in Fs!Opened(unix) : unix.fds[d].file # g
      BY <2>1, <2>4 DEF Fs!InUse, Fs!Opened
    <3>5. g \notin Fs!InUse(unix)
      BY <3>3, <3>4 DEF Fs!InUse
    <3> QED
      BY <1>0, <2>1, <3>2, <3>5 DEF UnusedEmpty, HostState
  <2> QED
    BY <2>3, <2>4 DEF UnusedEmpty
<1>2. ASSUME NEW n \in Name, Fs!Remove(n) PROVE FilesInv'
  <2>1. /\ unix' \in HostState /\ failed' = FALSE
        /\ unix'.fds = unix.fds
        /\ \A f \in File : unix'.data[f] =
             IF f \in Fs!InUse(unix') THEN unix.data[f] ELSE << >>
    BY <1>2, RemoveEffect
  <2>2. SameFiles
    BY <1>0, <1>2, <2>1 DEF SameFiles, Fs!Remove
  <2> QED
    BY <2>1, <2>2, SameFilesFacts DEF UnusedEmpty
<1>3. ASSUME NEW n \in Name, Fs!PrintFile(n) PROVE FilesInv'
  <2>1. /\ unix' \in HostState /\ unix'.names = unix.names
        /\ unix'.data = unix.data /\ unix'.fds = unix.fds
        /\ failed' = FALSE
    BY <1>3, PrintEffect
  <2>2. OnlyMoved(unix', unix)
    BY <2>1 DEF OnlyMoved
  <2>3. SameFiles /\ UnusedEmpty'
    BY <1>0, <1>3, <2>1, <2>2, MovedIsSame DEF Fs!PrintFile
  <2> QED
    BY <2>3, SameFilesFacts
<1>4. ASSUME NEW n \in Name, NEW o \in Handle, Fs!Open(n, o) PROVE FilesInv'
  <2>1. CASE unix.names[n] = None
    <3>1. unix' = unix /\ failed' = FALSE /\ openFile' = openFile
      BY <1>0, <1>4, <2>1 DEF Fs!Open, Fs!OpenForReadWriteFd, Fs!OpenForReadWrite, Fs!Becomes
    <3>2. OnlyMoved(unix', unix)
      BY <1>0, <3>1 DEF OnlyMoved
    <3>3. SameFiles /\ UnusedEmpty'
      BY <1>0, <3>1, <3>2, MovedIsSame
    <3> QED
      BY <3>3, SameFilesFacts
  <2>2. CASE unix.names[n] # None
    <3>1. PICK fd \in Descriptor :
           /\ unix' \in HostState /\ failed' = FALSE
           /\ unix'.names = unix.names /\ unix'.data = unix.data
           /\ unix.fds[fd] = None
           /\ unix'.fds = [unix.fds EXCEPT ![fd] =
                             [file |-> unix.names[n], position |-> 0]]
           /\ openFile' = [openFile EXCEPT ![o] =
                             [file |-> fd, currentOffset |-> 0]]
           /\ result' = <<"Open", TRUE>>
      BY <1>4, <2>2, OpenEffect, ZenonT(60)
    <3>2. [file |-> fd, currentOffset |-> 0] \in
             [file : Descriptor, currentOffset : Nat]
      OBVIOUS
    <3>3. FilesTyped'
      BY <1>0, <3>1, <3>2 DEF FilesTyped
    <3>4. [file |-> fd, currentOffset |-> 0] # None
      BY <3>2 DEF Fs!StubFilesAssumption
    <3>5. /\ openFile'[o].file = fd /\ openFile'[o] # None
          /\ \A p \in Handle \ {o} : openFile'[p] = openFile[p]
      BY <1>0, <3>1, <3>4
    <3>6. openFile[o] = None
      BY <1>4 DEF Fs!Open
    <3>7. OpenHandles' = OpenHandles \union {o} /\ o \notin OpenHandles
      BY <3>5, <3>6, <1>4 DEF OpenHandles
    <3>8. unix.names[n] \in File
      BY <1>0, <2>2 DEF HostState
    <3>9. [file |-> unix.names[n], position |-> 0] # None
      BY <3>8 DEF Fs!StubFilesAssumption, Fs!HostFilesAssumption
    <3>10. /\ unix'.fds[fd] = [file |-> unix.names[n], position |-> 0]
           /\ \A d \in Descriptor \ {fd} : unix'.fds[d] = unix.fds[d]
      BY <1>0, <3>1 DEF HostState
    <3>11. Fs!Opened(unix') = Fs!Opened(unix) \union {fd} /\ fd \notin Fs!Opened(unix)
      BY <3>1, <3>9, <3>10 DEF Fs!Opened
    <3>12. \A p \in OpenHandles : openFile'[p].file = openFile[p].file
      BY <3>5, <3>7 DEF OpenHandles
    <3>13. DescriptorsOwned'
      BY <3>5, <3>7, <3>11, <3>12 DEF DescriptorsOwned
    <3>14. ASSUME NEW g \in File, g \notin Fs!InUse(unix')
           PROVE  unix'.data[g] = << >>
      <4>1. \A m \in Name : unix.names[m] # g
        BY <3>1, <3>14 DEF Fs!InUse
      <4>2. \A d \in Fs!Opened(unix) : unix.fds[d].file # g
        BY <3>10, <3>11, <3>14 DEF Fs!InUse, Fs!Opened
      <4> QED
        BY <3>1, <4>1, <4>2 DEF UnusedEmpty, Fs!InUse
    <3> QED
      BY <3>3, <3>13, <3>14 DEF UnusedEmpty
  <2> QED
    BY <2>1, <2>2
<1>5. ASSUME NEW o \in Handle, Fs!Delete(o) PROVE FilesInv'
  <2>1. /\ o \in OpenHandles /\ unix' \in HostState /\ failed' = FALSE
        /\ unix'.names = unix.names
        /\ unix'.fds = [unix.fds EXCEPT ![openFile[o].file] = None]
        /\ \A f \in File : unix'.data[f] =
             IF f \in Fs!InUse(unix') THEN unix.data[f] ELSE << >>
    BY <1>5, DeleteEffect
  <2>2. openFile' = [openFile EXCEPT ![o] = None]
    BY <1>5 DEF Fs!Delete
  <2>3. FilesTyped'
    BY <1>0, <2>1, <2>2 DEF FilesTyped
  <2>4. /\ OpenHandles' = OpenHandles \ {o}
        /\ \A p \in OpenHandles \ {o} : openFile'[p] = openFile[p]
    BY <1>0, <2>2 DEF OpenHandles
  <2>5. openFile[o].file \in Descriptor
    BY <2>1, HandleFacts
  <2>6. Fs!Opened(unix') = Fs!Opened(unix) \ {openFile[o].file}
    BY <1>0, <2>1, <2>5 DEF Fs!Opened, HostState
  <2>7. DescriptorsOwned'
    BY <2>1, <2>4, <2>6 DEF DescriptorsOwned
  <2> QED
    BY <2>1, <2>3, <2>7 DEF UnusedEmpty
<1>6. ASSUME NEW o \in Handle, Fs!Length(o) PROVE FilesInv'
  <2>1. o \in OpenHandles /\ openFile' = openFile
    BY <1>6 DEF Fs!Length, OpenHandles
  <2>2. OnlyMoved(unix', unix) /\ failed' = FALSE
    BY <1>6, <2>1, LengthEffect
  <2>3. SameFiles /\ UnusedEmpty'
    BY <1>0, <2>1, <2>2, MovedIsSame
  <2> QED
    BY <2>3, SameFilesFacts
<1>7. ASSUME NEW o \in Handle, openFile[o] # None, NEW p \in Nat,
             Fs!ReadAt(o, MaxLength, p), UNCHANGED openFile
      PROVE  FilesInv'
  <2>1. o \in OpenHandles /\ MaxLength \in Nat
    BY <1>7 DEF OpenHandles, Fs!StubFilesAssumption
  <2>2. OnlyMoved(unix', unix) /\ failed' = FALSE
    BY <1>7, <2>1, ReadAtEffect
  <2>3. SameFiles /\ UnusedEmpty'
    BY <1>0, <1>7, <2>2, MovedIsSame
  <2> QED
    BY <2>3, SameFilesFacts
<1>8. ASSUME NEW o \in Handle, Fs!Read(o, MaxLength) PROVE FilesInv'
  <2>1. o \in OpenHandles /\ MaxLength \in Nat
    BY <1>8 DEF OpenHandles, Fs!StubFilesAssumption, Fs!Read
  <2>2. openFile[o].currentOffset \in Nat
    BY <2>1, HandleFacts
  <2>3. /\ OnlyMoved(unix', unix) /\ failed' = FALSE
        /\ Len(result'[2]) \in Nat
    BY <1>8, <2>1, <2>2, ReadAtEffect DEF Fs!Read
  <2>4. PICK n \in Nat : n = Len(result'[2])
    BY <2>3
  <2>5. openFile' = [openFile EXCEPT ![o].currentOffset = @ + n]
    BY <1>8, <2>4 DEF Fs!Read
  <2>6. /\ openFile' \in [Handle -> [file : Descriptor, currentOffset : Nat]
                                    \union {None}]
        /\ \A p \in Handle :
             /\ openFile'[p] = None <=> openFile[p] = None
             /\ openFile[p] # None => openFile'[p].file = openFile[p].file
    BY <2>1, <2>5, OffsetMoves
  <2>7. SameFiles /\ UnusedEmpty'
    BY <2>3, <2>6, MovedIsSame
  <2> QED
    BY <2>7, SameFilesFacts
<1>9. ASSUME NEW o \in OpenHandles, NEW b \in Byte, NEW p \in Nat,
             Fs!WriteAt(o, <<b>>, p),
             openFile' \in [Handle -> [file : Descriptor, currentOffset : Nat]
                                      \union {None}],
             \A q \in Handle :
               /\ openFile'[q] = None <=> openFile[q] = None
               /\ openFile[q] # None => openFile'[q].file = openFile[q].file
      PROVE  FilesInv'
  <2>1. /\ unix' \in HostState /\ failed' = FALSE
        /\ unix'.names = unix.names
        /\ unix'.data = [unix.data EXCEPT ![FileOf(o)] =
                           Fs!Overwritten(unix.data[FileOf(o)], p, <<b>>)]
        /\ \A d \in Descriptor :
             /\ unix'.fds[d] = None <=> unix.fds[d] = None
             /\ unix.fds[d] # None => unix'.fds[d].file = unix.fds[d].file
    BY <1>9, WriteAtEffect
  <2>2. SameFiles
    BY <1>9, <2>1 DEF SameFiles
  <2>3. /\ FilesTyped' /\ DescriptorsOwned'
        /\ {unix'.fds[d].file : d \in Fs!Opened(unix')} =
             {unix.fds[d].file : d \in Fs!Opened(unix)}
    BY <2>2, SameFilesFacts
  <2>4. Fs!InUse(unix') = Fs!InUse(unix)
    <3>1. unix'.names = unix.names
      BY <2>1
    <3> QED
      BY <2>3, <3>1 DEF Fs!InUse
  <2>5. FileOf(o) \in Fs!InUse(unix) /\ FileOf(o) \in File
    BY HandleFacts DEF Fs!InUse, FileOf
  <2>6. UnusedEmpty'
    BY <1>0, <2>1, <2>4, <2>5 DEF UnusedEmpty, HostState
  <2> QED
    BY <2>3, <2>6
<1>10. ASSUME NEW o \in Handle, NEW b \in Byte, Fs!Write(o, <<b>>) PROVE FilesInv'
  <2>1. o \in OpenHandles
    BY <1>10 DEF OpenHandles, Fs!Write
  <2>2. openFile[o].currentOffset \in Nat
    BY <2>1, HandleFacts
  <2>3. openFile' = [openFile EXCEPT ![o].currentOffset = @ + 1]
    BY <1>10 DEF Fs!Write
  <2>4. /\ openFile' \in [Handle -> [file : Descriptor, currentOffset : Nat]
                                    \union {None}]
        /\ \A p \in Handle :
             /\ openFile'[p] = None <=> openFile[p] = None
             /\ openFile[p] # None => openFile'[p].file = openFile[p].file
    BY <2>1, <2>3, OffsetMoves
  <2> QED
    BY <1>9, <1>10, <2>1, <2>2, <2>4 DEF Fs!Write
<1>11. ASSUME NEW o \in Handle, openFile[o] # None, NEW b \in Byte, NEW p \in Nat,
              Fs!WriteAt(o, <<b>>, p), UNCHANGED openFile
       PROVE  FilesInv'
  <2>1. o \in OpenHandles
    BY <1>11 DEF OpenHandles
  <2> QED
    BY <1>0, <1>9, <1>11, <2>1
<1>12. CASE UNCHANGED Fs!vars
  BY <1>12 DEF Fs!vars, FilesTyped, DescriptorsOwned, UnusedEmpty, OpenHandles
<1>13. 0..MaxLength \subseteq Nat
  BY DEF Fs!StubFilesAssumption
<1> QED
  BY <1>1, <1>2, <1>3, <1>4, <1>5, <1>6, <1>7, <1>8, <1>10, <1>11, <1>12, <1>13
  DEF Fs!Next

-----------------------------------------------------------------------------
(* The loop of Print reads a file TransferSize bytes at a time.  What it   *)
(* has got from position p on: *)
Rest(s, p) == SubSeq(s, p + 1, Len(s))

LEMMA PieceFacts ==
  ASSUME NEW S, NEW s \in Seq(S), NEW p \in Nat, NEW n \in Nat \ {0}
  PROVE  LET piece == FromTo(s, p, n)
         IN  /\ p >= Len(s) => piece = << >> /\ Rest(s, p) = << >>
             /\ p < Len(s) => /\ piece # << >> /\ Len(piece) \in Nat \ {0}
                              /\ p + Len(piece) <= Len(s)
                              /\ piece \o Rest(s, p + Len(piece)) = Rest(s, p)
<1>1. PICK L \in Nat : L = Len(s)
  OBVIOUS
<1>2. CASE p >= L
  <2>1. FromTo(s, p, n) = SubSeq(s, p + 1, p + 0)
    BY <1>1, <1>2 DEF FromTo
  <2>2. SubSeq(s, p + 1, p + 0) = << >> /\ SubSeq(s, p + 1, L) = << >>
    BY <1>1, <1>2
  <2> QED
    BY <1>1, <1>2, <2>1, <2>2 DEF Rest
<1>3. CASE p < L
  <2>1. PICK c : c = IF p + n <= L THEN n ELSE IF p <= L THEN L - p ELSE 0
    OBVIOUS
  <2>2. c \in Nat /\ c >= 1 /\ p + c <= L /\ L - p \in Nat /\ L - p - c \in Nat
    BY <1>3, <2>1
  <2>3. PICK a : a = SubSeq(s, p + 1, p + c)
    OBVIOUS
  <2>4. FromTo(s, p, n) = a
    BY <1>1, <2>1, <2>3 DEF FromTo
  <2>5. a \in Seq(S) /\ Len(a) = c
    BY <1>1, <2>2, <2>3
  <2>6. /\ p + 1 \in 1..(Len(s) + 1) /\ p + c \in ((p + 1) - 1)..Len(s)
        /\ Len(s) \in (p + c)..Len(s)
    BY <1>1, <2>2
  <2>7. a \o SubSeq(s, (p + c) + 1, Len(s)) = SubSeq(s, p + 1, Len(s))
    BY <2>3, <2>6, ConcatAdjacentSubSeq
  <2>8. a # << >>
    BY <2>2, <2>5
  <2>9. a \o Rest(s, p + Len(a)) = Rest(s, p)
    BY <2>5, <2>7 DEF Rest
  <2>10. Len(a) \in Nat \ {0} /\ p + Len(a) <= Len(s) /\ ~(p >= Len(s))
    BY <1>1, <1>3, <2>2, <2>5
  <2> QED
    BY <2>4, <2>8, <2>9, <2>10
<1> QED
  BY <1>1, <1>2, <1>3

(* Print prints the whole file. *)
LEMMA PrintedIsData ==
  ASSUME Fs!StubFilesAssumption, NEW h \in HostState, NEW fd \in Fs!Opened(h)
  PROVE  Fs!Printed(h, fd) = Fs!DataOf(h, fd)
<1> DEFINE got(p) == Fs!ReadPartialBytes(Fs!Lseek(h, fd, p, 0), fd, TransferSize)
           Loop(f) == [p \in Nat |-> IF got(p) = << >> THEN << >>
                                     ELSE got(p) \o f[p + Len(got(p))]]
<1>1. PICK s : s = Fs!DataOf(h, fd)
  OBVIOUS
<1>2. s \in Seq(Byte \union {0}) /\ Len(s) \in Nat
      /\ TransferSize \in Nat \ {0}
  BY <1>1, EntryFacts DEF Fs!StubFilesAssumption
<1>3. ASSUME NEW p \in Nat PROVE got(p) = FromTo(s, p, TransferSize)
  <2>1. PICK g : g = Fs!Lseek(h, fd, p, 0)
    OBVIOUS
  <2>2. Fs!LseekTarget(h, fd, p, 0) = p
    BY DEF Fs!LseekTarget
  <2>3. /\ g \in HostState /\ fd \in Fs!Opened(g) /\ Fs!Tell(g, fd) = p
        /\ Fs!DataOf(g, fd) = s
    BY <1>1, <2>1, <2>2, SeekFacts
  <2> QED
    BY <1>2, <2>1, <2>3, ReadFacts
<1>4. ASSUME NEW p \in Nat
      PROVE  /\ p >= Len(s) => got(p) = << >> /\ Rest(s, p) = << >>
             /\ p < Len(s) => /\ got(p) # << >> /\ Len(got(p)) \in Nat \ {0}
                              /\ p + Len(got(p)) <= Len(s)
                              /\ got(p) \o Rest(s, p + Len(got(p))) = Rest(s, p)
  BY <1>2, <1>3, PieceFacts
<1>5. Fs!Printed(h, fd) = (CHOOSE f : f = Loop(f))[0]
  BY DEF Fs!Printed
<1> HIDE DEF got
<1>6. PICK all : all = [p \in Nat |-> Rest(s, p)]
  OBVIOUS
<1>7. all = Loop(all)
  <2>1. ASSUME NEW p \in Nat
        PROVE  all[p] = IF got(p) = << >> THEN << >>
                        ELSE got(p) \o all[p + Len(got(p))]
    <3>1. CASE p >= Len(s)
      BY <1>4, <1>6, <3>1
    <3>2. CASE p < Len(s)
      <4>1. p + Len(got(p)) \in Nat
        BY <1>4, <3>2
      <4> QED
        BY <1>4, <1>6, <3>2, <4>1
    <3> QED
      BY <1>2, <3>1, <3>2
  <2> QED
    BY <1>6, <2>1
<1>8. ASSUME NEW f, f = Loop(f) PROVE \A p \in Nat : f[p] = Rest(s, p)
  <2> DEFINE left(p) == IF p < Len(s) THEN Len(s) - p ELSE 0
             Wrong == {n \in Nat : \E p \in Nat : n = left(p) /\ f[p] # Rest(s, p)}
  <2>1. \A p \in Nat : left(p) \in Nat
    BY <1>2
  <2>2. \A p \in Nat : f[p] = IF got(p) = << >> THEN << >>
                              ELSE got(p) \o f[p + Len(got(p))]
    BY <1>8
  <2>3. ASSUME Wrong # {} PROVE FALSE
    <3>1. /\ Fs!Min(Wrong) \in Wrong /\ \A n \in Wrong : Fs!Min(Wrong) <= n
      BY <2>3, Smallest
    <3>2. PICK p \in Nat : Fs!Min(Wrong) = left(p) /\ f[p] # Rest(s, p)
      BY <3>1
    <3>3. CASE p >= Len(s)
      BY <1>4, <2>2, <3>2, <3>3
    <3>4. CASE p < Len(s)
      <4>1. PICK q : q = p + Len(got(p))
        OBVIOUS
      <4>a. PICK k : k = Len(got(p))
        OBVIOUS
      <4>b. /\ got(p) # << >> /\ k \in Nat \ {0} /\ p + k <= Len(s)
            /\ got(p) \o Rest(s, p + k) = Rest(s, p)
        BY <1>4, <3>4, <4>a
      <4>2. /\ q \in Nat /\ left(q) < left(p) /\ got(p) # << >>
            /\ got(p) \o Rest(s, q) = Rest(s, p)
        BY <1>2, <3>4, <4>1, <4>a, <4>b
      <4>3. f[q] = Rest(s, q)
        BY <2>1, <3>1, <3>2, <4>2
      <4> QED
        BY <2>2, <3>2, <4>1, <4>2, <4>3
    <3> QED
      BY <1>2, <3>3, <3>4
  <2> QED
    BY <2>1, <2>3
<1>9. (CHOOSE f : f = Loop(f)) = Loop(CHOOSE f : f = Loop(f))
  BY <1>7
<1>10. (CHOOSE f : f = Loop(f))[0] = Rest(s, 0)
  BY <1>8, <1>9
<1>11. SubSeq(s, 1, Len(s)) = s
  BY <1>2
<1>12. Rest(s, 0) = SubSeq(s, 1, Len(s))
  <2>1. 0 + 1 = 1
    OBVIOUS
  <2> QED
    BY <2>1, Zenon DEF Rest
<1> QED
  BY <1>1, <1>5, <1>10, <1>11, <1>12

-----------------------------------------------------------------------------
(* The step of UnixFiles that a call takes.  AbstractOpen is what the      *)
(* refinement makes of the OpenFiles: the file and the position of each.   *)
AbstractOpen ==
  [o \in Handle |-> IF openFile[o] = None THEN None
                    ELSE [file |-> unix.fds[openFile[o].file].file,
                          position |-> openFile[o].currentOffset]]

(* The files of the descriptors are those of the OpenFiles. *)
LEMMA FilesMapped ==
  ASSUME NEW h, NEW entries, NEW m,
         \A o \in Handle : entries[o] # None => entries[o].file \in Fs!Opened(h),
         \A d \in Fs!Opened(h) :
           \E o \in Handle : entries[o] # None /\ entries[o].file = d,
         \A o \in Handle :
           /\ m[o] # None <=> entries[o] # None
           /\ entries[o] # None => m[o].file = h.fds[entries[o].file].file
  PROVE  {m[o].file : o \in {g \in Handle : m[g] # None}} =
           {h.fds[d].file : d \in Fs!Opened(h)}
<1>1. ASSUME NEW o \in Handle, m[o] # None
      PROVE  m[o].file \in {h.fds[d].file : d \in Fs!Opened(h)}
  BY <1>1
<1>2. ASSUME NEW d \in Fs!Opened(h)
      PROVE  h.fds[d].file \in {m[o].file : o \in {g \in Handle : m[g] # None}}
  <2>1. PICK o \in Handle : entries[o] # None /\ entries[o].file = d
    OBVIOUS
  <2> QED
    BY <2>1
<1> QED
  BY <1>1, <1>2

LEMMA AbstractFacts ==
  ASSUME Fs!StubFilesAssumption, FilesInv
  PROVE  /\ \A o \in Handle :
              /\ AbstractOpen[o] # None <=> openFile[o] # None
              /\ openFile[o] # None =>
                   AbstractOpen[o] = [file |-> FileOf(o),
                                      position |-> openFile[o].currentOffset]
         /\ Fs!U!InUse = Fs!InUse(unix)
<1>1. ASSUME NEW o \in Handle, openFile[o] # None
      PROVE  /\ AbstractOpen[o] = [file |-> FileOf(o),
                                   position |-> openFile[o].currentOffset]
             /\ AbstractOpen[o] # None
  <2>1. o \in OpenHandles
    BY <1>1 DEF OpenHandles
  <2>2. FileOf(o) \in File /\ openFile[o].currentOffset \in Nat
    BY <2>1, HandleFacts
  <2>3. AbstractOpen[o] = [file |-> FileOf(o),
                           position |-> openFile[o].currentOffset]
    BY <1>1 DEF AbstractOpen, FileOf
  <2>4. AbstractOpen[o] \in [file : File, position : Nat]
    BY <2>2, <2>3
  <2> QED
    BY <2>3, <2>4 DEF Fs!StubFilesAssumption, Fs!HostFilesAssumption
<1>2. \A o \in Handle : openFile[o] = None => AbstractOpen[o] = None
  BY DEF AbstractOpen
<1>3. \A o \in Handle : openFile[o] # None => openFile[o].file \in Fs!Opened(unix)
  BY DEF FilesInv, DescriptorsOwned, OpenHandles
<1>4. \A d \in Fs!Opened(unix) :
        \E o \in Handle : openFile[o] # None /\ openFile[o].file = d
  BY DEF FilesInv, DescriptorsOwned, OpenHandles
<1>5. \A o \in Handle :
        /\ AbstractOpen[o] # None <=> openFile[o] # None
        /\ openFile[o] # None =>
             AbstractOpen[o].file = unix.fds[openFile[o].file].file
  <2>1. ASSUME NEW o \in Handle, openFile[o] # None
        PROVE  AbstractOpen[o].file = unix.fds[openFile[o].file].file
    <3>1. PICK f, p : f = FileOf(o) /\ AbstractOpen[o] = [file |-> f, position |-> p]
      BY <1>1, <2>1
    <3>2. AbstractOpen[o].file = f
      BY <3>1
    <3> QED
      BY <3>1, <3>2 DEF FileOf
  <2> QED
    BY <1>1, <1>2, <2>1
<1>6. {AbstractOpen[o].file : o \in {g \in Handle : AbstractOpen[g] # None}} =
        {unix.fds[d].file : d \in Fs!Opened(unix)}
  BY <1>3, <1>4, <1>5, FilesMapped
<1>7. Fs!U!InUse = Fs!InUse(unix)
  BY <1>6 DEF Fs!U!InUse, Fs!InUse, AbstractOpen
<1> QED
  BY <1>1, <1>2, <1>7

(* The same of the state after a step. *)
LEMMA AbstractFactsAfter ==
  ASSUME Fs!StubFilesAssumption, FilesInv'
  PROVE  Fs!U!InUse' = Fs!InUse(unix')
<1>1. ASSUME NEW o \in Handle, openFile'[o] # None
      PROVE  /\ openFile'[o].file \in Fs!Opened(unix')
             /\ openFile'[o].currentOffset \in Nat
             /\ unix'.fds[openFile'[o].file].file \in File
  <2>1. /\ openFile'[o] \in [file : Descriptor, currentOffset : Nat]
        /\ openFile'[o].file \in Fs!Opened(unix') /\ unix' \in HostState
    BY <1>1 DEF FilesInv, FilesTyped, DescriptorsOwned, OpenHandles
  <2> QED
    BY <2>1, EntryFacts
<1>2. ASSUME NEW o \in Handle, openFile'[o] # None
      PROVE  /\ AbstractOpen'[o].file = unix'.fds[openFile'[o].file].file
             /\ AbstractOpen'[o] # None
  <2>1. PICK f \in File, p \in Nat : /\ f = unix'.fds[openFile'[o].file].file
                                     /\ p = openFile'[o].currentOffset
    BY <1>1, <1>2
  <2>2. AbstractOpen'[o] = [file |-> f, position |-> p]
    BY <1>2, <2>1 DEF AbstractOpen
  <2>3. AbstractOpen'[o] \in [file : File, position : Nat]
    BY <2>2
  <2> QED
    BY <2>1, <2>2, <2>3 DEF Fs!StubFilesAssumption, Fs!HostFilesAssumption
<1>3. \A o \in Handle : openFile'[o] = None => AbstractOpen'[o] = None
  BY DEF AbstractOpen
<1>4. \A d \in Fs!Opened(unix') :
        \E o \in Handle : openFile'[o] # None /\ openFile'[o].file = d
  BY DEF FilesInv, DescriptorsOwned, OpenHandles
<1>5. {AbstractOpen'[o].file : o \in {g \in Handle : AbstractOpen'[g] # None}} =
        {unix'.fds[d].file : d \in Fs!Opened(unix')}
  <2>1. \A o \in Handle : openFile'[o] # None => openFile'[o].file \in Fs!Opened(unix')
    BY <1>1
  <2>2. \A o \in Handle :
          /\ AbstractOpen'[o] # None <=> openFile'[o] # None
          /\ openFile'[o] # None =>
               AbstractOpen'[o].file = unix'.fds[openFile'[o].file].file
    BY <1>2, <1>3
  <2> QED
    BY <1>4, <2>1, <2>2, FilesMapped
<1> QED
  BY <1>5 DEF Fs!U!InUse, Fs!InUse, AbstractOpen

(* A call that moves no offset entries the abstract open entries alone. *)
LEMMA AbstractUnchanged ==
  ASSUME Fs!StubFilesAssumption, FilesInv, SameFiles, openFile' = openFile
  PROVE  AbstractOpen' = AbstractOpen
<1>1. \A o \in Handle : openFile[o] # None =>
        unix'.fds[openFile[o].file].file = unix.fds[openFile[o].file].file
  <2>1. ASSUME NEW o \in Handle, openFile[o] # None
        PROVE  unix'.fds[openFile[o].file].file = unix.fds[openFile[o].file].file
    <3>1. o \in OpenHandles
      BY <2>1 DEF OpenHandles
    <3>2. openFile[o].file \in Descriptor /\ openFile[o].file \in Fs!Opened(unix)
      BY <3>1, HandleFacts
    <3> QED
      BY <3>2 DEF SameFiles, Fs!Opened
  <2> QED
    BY <2>1
<1> QED
  BY <1>1 DEF AbstractOpen

(* A read or write that moves the offset of one OpenFile. *)
LEMMA AbstractMoves ==
  ASSUME Fs!StubFilesAssumption, FilesInv, SameFiles,
         NEW o \in OpenHandles, NEW n \in Nat,
         openFile' = [openFile EXCEPT ![o].currentOffset = @ + n]
  PROVE  AbstractOpen' = [AbstractOpen EXCEPT ![o].position = @ + n]
<1>1. /\ openFile'[o] = [file |-> openFile[o].file,
                         currentOffset |-> openFile[o].currentOffset + n]
      /\ \A p \in Handle \ {o} : openFile'[p] = openFile[p]
  BY OffsetMoves
<1>2. ASSUME NEW p \in OpenHandles
      PROVE  /\ openFile'[p].file = openFile[p].file
             /\ unix'.fds[openFile'[p].file].file = FileOf(p)
             /\ openFile'[p] # None
  <2>1. /\ openFile[p].file \in Descriptor /\ openFile[p].file \in Fs!Opened(unix)
        /\ p \in Handle /\ openFile[p] # None
    BY HandleFacts DEF OpenHandles
  <2>2. openFile'[p].file = openFile[p].file /\ openFile'[p] # None
    BY <2>1 DEF SameFiles
  <2> QED
    BY <2>1, <2>2 DEF SameFiles, Fs!Opened, FileOf
<1>3. PICK e : e = [file |-> FileOf(o), position |-> openFile[o].currentOffset + n]
  OBVIOUS
<1>4. o \in Handle
  BY DEF OpenHandles
<1>5. AbstractOpen'[o] = e
  <2>1. openFile'[o].currentOffset = openFile[o].currentOffset + n
    BY <1>1
  <2>2. AbstractOpen'[o] = [file |-> unix'.fds[openFile'[o].file].file,
                            position |-> openFile'[o].currentOffset]
    BY <1>2, <1>4 DEF AbstractOpen
  <2> QED
    BY <1>2, <1>3, <2>1, <2>2
<1>6. ASSUME NEW p \in Handle \ {o} PROVE AbstractOpen'[p] = AbstractOpen[p]
  <2>1. openFile'[p] = openFile[p]
    BY <1>1
  <2>2. CASE openFile[p] = None
    BY <2>1, <2>2 DEF AbstractOpen
  <2>3. CASE openFile[p] # None
    <3>1. p \in OpenHandles
      BY <2>3 DEF OpenHandles
    <3> QED
      BY <1>2, <2>1, <2>3, <3>1 DEF AbstractOpen, FileOf
  <2> QED
    BY <2>2, <2>3
<1>7. AbstractOpen[o] = [file |-> FileOf(o), position |-> openFile[o].currentOffset]
  BY <1>4, AbstractFacts DEF OpenHandles
<1>8. [AbstractOpen[o] EXCEPT !.position = AbstractOpen[o].position + n] = e
  BY <1>3, <1>7
<1>9. PICK A : A = AbstractOpen
  OBVIOUS
<1>10. PICK B : B = AbstractOpen'
  OBVIOUS
<1>11. A = [p \in Handle |-> A[p]] /\ B = [p \in Handle |-> B[p]]
  BY <1>9, <1>10 DEF AbstractOpen
<1>12. B = [A EXCEPT ![o] = [A[o] EXCEPT !.position = A[o].position + n]]
  <2>1. B[o] = e /\ \A p \in Handle \ {o} : B[p] = A[p]
    BY <1>5, <1>6, <1>9, <1>10
  <2>2. B = [A EXCEPT ![o] = e]
    BY <1>4, <1>11, <2>1
  <2> QED
    BY <1>8, <1>9, <2>2
<1> QED
  BY <1>9, <1>10, <1>12

LEMMA OverwrittenIsPut ==
  ASSUME NEW S, NEW s \in Seq(S), NEW p \in Nat, NEW b
  PROVE  Fs!Overwritten(s, p, <<b>>) = Fs!U!Put(s, p, b)
<1>1. PICK L \in Nat : L = Len(s)
  OBVIOUS
<1>2. (IF L > p + 1 THEN L ELSE p + 1) = (IF L > p THEN L ELSE p + 1)
  OBVIOUS
<1>3. PICK m \in Nat : m = IF L > p THEN L ELSE p + 1
  OBVIOUS
<1>4. ASSUME NEW i \in 1..m
      PROVE  (IF i > p /\ i <= p + 1 THEN <<b>>[i - p]
              ELSE IF i <= L THEN s[i] ELSE 0) =
             IF i = p + 1 THEN b ELSE IF i <= L THEN s[i] ELSE 0
  <2>1. CASE i = p + 1
    <3>1. i - p = 1 /\ i > p /\ i <= p + 1
      BY <2>1
    <3> QED
      BY <2>1, <3>1
  <2>2. CASE i # p + 1
    <3>1. ~(i > p /\ i <= p + 1)
      BY <2>2
    <3> QED
      BY <2>2, <3>1
  <2> QED
    BY <2>1, <2>2
<1>5. Fs!Overwritten(s, p, <<b>>) =
        [i \in 1..m |-> IF i > p /\ i <= p + 1 THEN <<b>>[i - p]
                        ELSE IF i <= L THEN s[i] ELSE 0]
  BY <1>1, <1>2, <1>3 DEF Fs!Overwritten
<1>6. Fs!U!Put(s, p, b) =
        [i \in 1..m |-> IF i = p + 1 THEN b ELSE IF i <= L THEN s[i] ELSE 0]
  BY <1>1, <1>3 DEF Fs!U!Put
<1> QED
  BY <1>4, <1>5, <1>6

(* Every call is a step of UnixFiles. *)
LEMMA CreateSimulates ==
  ASSUME Fs!StubFilesAssumption, FilesInv, NEW n \in Name, Fs!Create(n)
  PROVE  Fs!U!Create(n)
<1>1. PICK f \in IF unix.names[n] = None THEN File \ Fs!InUse(unix)
                 ELSE {unix.names[n]} :
         /\ f \in File /\ unix' \in HostState
         /\ unix'.names = [unix.names EXCEPT ![n] = f]
         /\ unix'.data = [unix.data EXCEPT ![f] = << >>]
         /\ unix'.fds = unix.fds /\ failed' = FALSE
  BY CreateEffect
<1>2. openFile' = openFile /\ result' = <<"Create", TRUE>>
  BY DEF Fs!Create
<1>3. AbstractOpen' = AbstractOpen
  BY <1>1, <1>2 DEF AbstractOpen
<1>4. Fs!U!Fresh = File \ Fs!InUse(unix)
  BY AbstractFacts DEF Fs!U!Fresh
<1>5. f \in IF unix.names[n] = None THEN Fs!U!Fresh ELSE {unix.names[n]}
  BY <1>4
<1> QED
  BY <1>1, <1>2, <1>3, <1>5 DEF Fs!U!Create, AbstractOpen

LEMMA OpenSimulates ==
  ASSUME Fs!StubFilesAssumption, FilesInv, NEW n \in Name, NEW o \in Handle,
         Fs!Open(n, o)
  PROVE  Fs!U!Open(n, o)
<1>1. openFile[o] = None
  BY DEF Fs!Open
<1>2. AbstractOpen[o] = None
  BY <1>1 DEF AbstractOpen
<1>3. CASE unix.names[n] = None
  <2>1. /\ unix' = unix /\ openFile' = openFile
        /\ result' = <<"Open", FALSE>>
    <3>1. openFile \in [Handle -> [file : Descriptor, currentOffset : Nat]
                                  \union {None}]
      BY DEF FilesInv, FilesTyped
    <3> QED
      BY <1>1, <1>3, <3>1 DEF Fs!Open, Fs!OpenForReadWriteFd, Fs!OpenForReadWrite, Fs!Becomes
  <2>2. AbstractOpen' = [AbstractOpen EXCEPT ![o] = None]
    BY <1>2, <2>1 DEF AbstractOpen
  <2> QED
    BY <1>2, <1>3, <2>1, <2>2 DEF Fs!U!Open, AbstractOpen
<1>4. CASE unix.names[n] # None
  <2>1. PICK fd \in Descriptor :
         /\ unix' \in HostState /\ failed' = FALSE
         /\ unix'.names = unix.names /\ unix'.data = unix.data
         /\ unix.fds[fd] = None
         /\ unix'.fds = [unix.fds EXCEPT ![fd] =
                           [file |-> unix.names[n], position |-> 0]]
         /\ openFile' = [openFile EXCEPT ![o] =
                           [file |-> fd, currentOffset |-> 0]]
         /\ result' = <<"Open", TRUE>>
    BY <1>4, OpenEffect, ZenonT(60)
  <2>2. /\ openFile \in [Handle -> [file : Descriptor, currentOffset : Nat]
                                   \union {None}]
        /\ unix \in HostState
    BY DEF FilesInv, FilesTyped
  <2>3. PICK e : e = [file |-> fd, currentOffset |-> 0]
    OBVIOUS
  <2>4. e # None /\ e.file = fd /\ e.currentOffset = 0
    BY <2>3 DEF Fs!StubFilesAssumption
  <2>5. openFile'[o] = e /\ \A p \in Handle \ {o} : openFile'[p] = openFile[p]
    BY <2>1, <2>2, <2>3
  <2>6. /\ unix'.fds[fd].file = unix.names[n]
        /\ \A d \in Descriptor \ {fd} : unix'.fds[d] = unix.fds[d]
    BY <2>1, <2>2 DEF HostState
  <2>7. AbstractOpen'[o] = [file |-> unix.names[n], position |-> 0]
    BY <2>4, <2>5, <2>6 DEF AbstractOpen
  <2>8. ASSUME NEW p \in Handle \ {o} PROVE AbstractOpen'[p] = AbstractOpen[p]
    <3>1. CASE openFile[p] = None
      BY <2>5, <3>1 DEF AbstractOpen
    <3>2. CASE openFile[p] # None
      <4>1. p \in OpenHandles
        BY <3>2 DEF OpenHandles
      <4>2. openFile[p].file \in Descriptor \ {fd}
        BY <2>1, <4>1, HandleFacts DEF Fs!Opened
      <4> QED
        BY <2>5, <2>6, <3>2, <4>2 DEF AbstractOpen
    <3> QED
      BY <3>1, <3>2
  <2>9. PICK B : B = AbstractOpen'
    OBVIOUS
  <2>10. PICK A : A = AbstractOpen
    OBVIOUS
  <2>11. A = [p \in Handle |-> A[p]] /\ B = [p \in Handle |-> B[p]]
    BY <2>9, <2>10 DEF AbstractOpen
  <2>12. B = [A EXCEPT ![o] = [file |-> unix.names[n], position |-> 0]]
    BY <2>7, <2>8, <2>9, <2>10, <2>11
  <2> QED
    BY <1>2, <1>4, <2>1, <2>9, <2>10, <2>12 DEF Fs!U!Open, AbstractOpen
<1> QED
  BY <1>3, <1>4

LEMMA RemoveSimulates ==
  ASSUME Fs!StubFilesAssumption, FilesInv, FilesInv', NEW n \in Name, Fs!Remove(n)
  PROVE  Fs!U!Remove(n)
<1>1. /\ unix' \in HostState
      /\ unix'.names = [unix.names EXCEPT ![n] = None]
      /\ unix'.fds = unix.fds
      /\ \A f \in File : unix'.data[f] =
           IF f \in Fs!InUse(unix') THEN unix.data[f] ELSE << >>
  BY RemoveEffect
<1>2. openFile' = openFile /\ result' = <<"Remove", unix.names[n] # None>>
  BY DEF Fs!Remove, Fs!UnlinkResult
<1>3. AbstractOpen' = AbstractOpen
  BY <1>1, <1>2 DEF AbstractOpen
<1>4. unix'.data = [f \in File |-> IF f \in Fs!InUse(unix') THEN unix.data[f]
                                   ELSE << >>]
  BY <1>1 DEF HostState
<1>5. Fs!U!Reclaim
  BY <1>4, AbstractFactsAfter DEF Fs!U!Reclaim
<1> QED
  BY <1>1, <1>2, <1>3, <1>5 DEF Fs!U!Remove, AbstractOpen

LEMMA DeleteSimulates ==
  ASSUME Fs!StubFilesAssumption, FilesInv, FilesInv', NEW o \in Handle, Fs!Delete(o)
  PROVE  Fs!U!Close(o)
<1>1. /\ o \in OpenHandles /\ unix' \in HostState
      /\ unix'.names = unix.names
      /\ unix'.fds = [unix.fds EXCEPT ![openFile[o].file] = None]
      /\ \A f \in File : unix'.data[f] =
           IF f \in Fs!InUse(unix') THEN unix.data[f] ELSE << >>
  BY DeleteEffect
<1>2. /\ openFile' = [openFile EXCEPT ![o] = None] /\ result' = << >>
      /\ openFile \in [Handle -> [file : Descriptor, currentOffset : Nat]
                                 \union {None}]
      /\ unix \in HostState
  BY DEF Fs!Delete, FilesInv, FilesTyped
<1>3. AbstractOpen'[o] = None
  BY <1>2 DEF AbstractOpen
<1>4. ASSUME NEW p \in Handle \ {o} PROVE AbstractOpen'[p] = AbstractOpen[p]
  <2>1. openFile'[p] = openFile[p]
    BY <1>2
  <2>2. CASE openFile[p] = None
    BY <2>1, <2>2 DEF AbstractOpen
  <2>3. CASE openFile[p] # None
    <3>1. p \in OpenHandles
      BY <2>3 DEF OpenHandles
    <3>2. openFile[p].file \in Descriptor /\ openFile[p].file # openFile[o].file
      BY <1>1, <3>1, HandleFacts DEF FilesInv, DescriptorsOwned
    <3>3. unix'.fds[openFile[p].file] = unix.fds[openFile[p].file]
      BY <1>1, <1>2, <3>2 DEF HostState
    <3> QED
      BY <2>1, <2>3, <3>3 DEF AbstractOpen
  <2> QED
    BY <2>2, <2>3
<1>5. PICK B : B = AbstractOpen'
  OBVIOUS
<1>6. PICK A : A = AbstractOpen
  OBVIOUS
<1>7. A = [p \in Handle |-> A[p]] /\ B = [p \in Handle |-> B[p]]
  BY <1>5, <1>6 DEF AbstractOpen
<1>8. B = [A EXCEPT ![o] = None]
  BY <1>3, <1>4, <1>5, <1>6, <1>7
<1>9. unix'.data = [f \in File |-> IF f \in Fs!InUse(unix') THEN unix.data[f]
                                   ELSE << >>]
  BY <1>1 DEF HostState
<1>10. Fs!U!Reclaim
  BY <1>9, AbstractFactsAfter DEF Fs!U!Reclaim
<1> QED
  BY <1>1, <1>2, <1>5, <1>6, <1>8, <1>10 DEF Fs!U!Close, AbstractOpen

LEMMA ReadAtSimulates ==
  ASSUME Fs!StubFilesAssumption, FilesInv, NEW o \in OpenHandles,
         NEW n \in Nat, NEW position \in Nat, Fs!ReadAt(o, n, position)
  PROVE  Fs!U!ReadAt(o, n, position)
<1>1. /\ OnlyMoved(unix', unix)
      /\ result' = <<"Read", FromTo(unix.data[FileOf(o)], position, n)>>
  BY ReadAtEffect
<1>2. unix'.names = unix.names /\ unix'.data = unix.data
  BY <1>1 DEF OnlyMoved
<1>3. o \in Handle /\ openFile[o] # None
  BY DEF OpenHandles
<1>4. PICK A : A = AbstractOpen
  OBVIOUS
<1>5. A[o] # None /\ A[o] = [file |-> FileOf(o),
                             position |-> openFile[o].currentOffset]
  BY <1>3, <1>4, AbstractFacts
<1>6. A[o].file = FileOf(o)
  BY <1>5
<1>7. PICK size, got : /\ size = Len(unix.data[FileOf(o)])
                       /\ got = IF position + n <= size THEN n
                                ELSE IF position <= size
                                     THEN size - position ELSE 0
  OBVIOUS
<1>8. result' = <<"Read", Fs!U!Bytes(FileOf(o), position, got)>>
  BY <1>1, <1>7 DEF FromTo, Fs!U!Bytes
<1>9. AbstractOpen[o] # None /\ AbstractOpen[o].file = FileOf(o)
  BY <1>4, <1>5, <1>6
<1> QED
  BY <1>2, <1>7, <1>8, <1>9 DEF Fs!U!ReadAt, AbstractOpen

LEMMA WriteAtSimulates ==
  ASSUME Fs!StubFilesAssumption, FilesInv, NEW o \in OpenHandles,
         NEW b \in Byte, NEW position \in Nat, Fs!WriteAt(o, <<b>>, position)
  PROVE  Fs!U!WriteAt(o, b, position)
<1>1. /\ unix'.names = unix.names
      /\ unix'.data = [unix.data EXCEPT ![FileOf(o)] =
                         Fs!Overwritten(unix.data[FileOf(o)], position, <<b>>)]
      /\ result' = <<"Write", 1>>
  BY WriteAtEffect
<1>2. o \in Handle /\ openFile[o] # None
  BY DEF OpenHandles
<1>3. PICK A : A = AbstractOpen
  OBVIOUS
<1>4. A[o] # None /\ A[o] = [file |-> FileOf(o),
                             position |-> openFile[o].currentOffset]
  BY <1>2, <1>3, AbstractFacts
<1>5. A[o].file = FileOf(o)
  BY <1>4
<1>6. unix.data[FileOf(o)] \in Seq(Byte \union {0})
  BY HandleFacts
<1>7. Fs!Overwritten(unix.data[FileOf(o)], position, <<b>>) =
        Fs!U!Put(unix.data[FileOf(o)], position, b)
  BY <1>6, OverwrittenIsPut
<1>8. unix'.data = [unix.data EXCEPT ![A[o].file] =
                      Fs!U!Put(unix.data[A[o].file], position, b)]
  BY <1>1, <1>5, <1>7
<1> QED
  BY <1>1, <1>3, <1>4, <1>8 DEF Fs!U!WriteAt, AbstractOpen

LEMMA LengthSimulates ==
  ASSUME Fs!StubFilesAssumption, FilesInv, NEW o \in OpenHandles, Fs!Length(o)
  PROVE  Fs!U!Length(o)
<1>1. /\ OnlyMoved(unix', unix) /\ failed' = FALSE
      /\ result' = <<"Length", Len(unix.data[FileOf(o)])>>
  BY LengthEffect
<1>2. openFile' = openFile
  BY DEF Fs!Length
<1>3. /\ unix'.names = unix.names /\ unix'.data = unix.data
  BY <1>1 DEF OnlyMoved
<1>4. openFile \in [Handle -> [file : Descriptor, currentOffset : Nat]
                              \union {None}]
  BY DEF FilesInv, FilesTyped
<1>5. AbstractOpen' = AbstractOpen
  BY <1>1, <1>2, <1>4, MovedIsSame, AbstractUnchanged
<1>6. o \in Handle /\ openFile[o] # None
  BY DEF OpenHandles
<1>7. PICK A : A = AbstractOpen
  OBVIOUS
<1>8. A[o] # None /\ A[o] = [file |-> FileOf(o),
                             position |-> openFile[o].currentOffset]
  BY <1>6, <1>7, AbstractFacts
<1>9. A[o].file = FileOf(o)
  BY <1>8
<1>10. result' = <<"Length", Len(unix.data[A[o].file])>>
  BY <1>1, <1>9
<1> QED
  BY <1>3, <1>5, <1>7, <1>8, <1>10 DEF Fs!U!Length, AbstractOpen

LEMMA PrintSimulates ==
  ASSUME Fs!StubFilesAssumption, FilesInv, NEW n \in Name, Fs!PrintFile(n)
  PROVE  Fs!U!PrintFile(n)
<1>1. /\ unix' \in HostState /\ unix'.names = unix.names
      /\ unix'.data = unix.data /\ unix'.fds = unix.fds
  BY PrintEffect
<1>2. openFile' = openFile
  BY DEF Fs!PrintFile
<1>3. AbstractOpen' = AbstractOpen
  BY <1>1, <1>2 DEF AbstractOpen
<1>4. result' = <<"Print", IF unix.names[n] = None THEN << >>
                           ELSE unix.data[unix.names[n]]>>
  <2>1. CASE unix.names[n] = None
    BY <2>1 DEF Fs!PrintFile, Fs!OpenForReadWriteFd
  <2>2. CASE unix.names[n] # None
    <3>1. unix \in HostState
      BY DEF FilesInv, FilesTyped
    <3>2. PICK fd : fd = Fs!FreeDescriptor(unix)
      OBVIOUS
    <3>3. fd \in Descriptor /\ fd # -1
      BY <3>1, <3>2, AlwaysFree, FreeFacts
    <3>4. unix.names[n] \in File /\ Fs!OpenForReadWriteFd(unix, n) = fd
      BY <2>2, <3>1, <3>2 DEF HostState, Fs!OpenForReadWriteFd
    <3>5. PICK h1 : h1 = Fs!OpenAs(unix, unix.names[n])
      OBVIOUS
    <3>6. /\ h1 \in HostState /\ h1.data = unix.data
          /\ h1.fds = [unix.fds EXCEPT ![fd] =
                         [file |-> unix.names[n], position |-> 0]]
          /\ Fs!Opened(h1) = Fs!Opened(unix) \union {fd}
      BY <3>1, <3>2, <3>4, <3>5, AlwaysFree, OpenFacts
    <3>7. Fs!OpenForReadWrite(unix, n) = h1
      BY <3>3, <3>4, <3>5 DEF Fs!OpenForReadWrite
    <3>8. fd \in Fs!Opened(h1) /\ h1.fds[fd].file = unix.names[n]
      BY <3>1, <3>3, <3>6 DEF HostState
    <3>9. Fs!Printed(h1, fd) = unix.data[unix.names[n]]
      BY <3>6, <3>8, PrintedIsData DEF Fs!DataOf
    <3> QED
      BY <2>2, <3>3, <3>4, <3>7, <3>9 DEF Fs!PrintFile
  <2> QED
    BY <2>1, <2>2
<1> QED
  BY <1>1, <1>3, <1>4 DEF Fs!U!PrintFile, AbstractOpen

LEMMA ReadSimulates ==
  ASSUME Fs!StubFilesAssumption, FilesInv, NEW o \in Handle, Fs!Read(o, MaxLength)
  PROVE  Fs!U!Next
<1>1. o \in OpenHandles /\ MaxLength \in Nat /\ MaxLength \in 1..MaxLength
  BY DEF OpenHandles, Fs!StubFilesAssumption, Fs!Read
<1>2. PICK p : p = openFile[o].currentOffset
  OBVIOUS
<1>3. p \in Nat /\ Fs!ReadAt(o, MaxLength, p)
  BY <1>1, <1>2, HandleFacts DEF Fs!Read
<1>4. Fs!U!ReadAt(o, MaxLength, p)
  BY <1>1, <1>3, ReadAtSimulates
<1>5. /\ OnlyMoved(unix', unix) /\ failed' = FALSE /\ Len(result'[2]) \in Nat
  BY <1>1, <1>3, ReadAtEffect
<1>6. PICK n \in Nat : n = Len(result'[2])
  BY <1>5
<1>7. openFile' = [openFile EXCEPT ![o].currentOffset = @ + n]
  BY <1>6 DEF Fs!Read
<1>8. SameFiles
  <2>1. /\ openFile' \in [Handle -> [file : Descriptor, currentOffset : Nat]
                                    \union {None}]
        /\ \A q \in Handle :
             /\ openFile'[q] = None <=> openFile[q] = None
             /\ openFile[q] # None => openFile'[q].file = openFile[q].file
    BY <1>1, <1>7, OffsetMoves
  <2> QED
    BY <1>5, <2>1, MovedIsSame
<1>9. AbstractOpen' = [AbstractOpen EXCEPT ![o].position = @ + n]
  BY <1>1, <1>7, <1>8, AbstractMoves
<1>10. AbstractOpen[o] # None /\ AbstractOpen[o].position = p
  <2>1. AbstractOpen[o] # None /\ AbstractOpen[o] =
          [file |-> FileOf(o), position |-> openFile[o].currentOffset]
    BY <1>1, AbstractFacts DEF OpenHandles
  <2> QED
    BY <1>2, <2>1
<1>11. \E k \in 1..MaxLength :
         /\ AbstractOpen[o] # None
         /\ Fs!U!ReadAt(o, k, AbstractOpen[o].position)
         /\ AbstractOpen' = [AbstractOpen EXCEPT ![o].position =
                               @ + Len(result'[2])]
  BY <1>1, <1>4, <1>6, <1>9, <1>10
<1> QED
  BY <1>11 DEF Fs!U!Next, AbstractOpen

LEMMA WriteSimulates ==
  ASSUME Fs!StubFilesAssumption, FilesInv, NEW o \in Handle, NEW b \in Byte,
         Fs!Write(o, <<b>>)
  PROVE  Fs!U!Next
<1>1. o \in OpenHandles
  BY DEF OpenHandles, Fs!Write
<1>2. PICK p : p = openFile[o].currentOffset
  OBVIOUS
<1>3. p \in Nat /\ Fs!WriteAt(o, <<b>>, p)
  BY <1>1, <1>2, HandleFacts DEF Fs!Write
<1>4. Fs!U!WriteAt(o, b, p)
  BY <1>1, <1>3, WriteAtSimulates
<1>5. /\ unix' \in HostState /\ failed' = FALSE
      /\ \A d \in Descriptor :
           /\ unix'.fds[d] = None <=> unix.fds[d] = None
           /\ unix.fds[d] # None => unix'.fds[d].file = unix.fds[d].file
  BY <1>1, <1>3, WriteAtEffect
<1>6. openFile' = [openFile EXCEPT ![o].currentOffset = @ + 1]
  BY DEF Fs!Write
<1>7. SameFiles
  <2>1. /\ openFile' \in [Handle -> [file : Descriptor, currentOffset : Nat]
                                    \union {None}]
        /\ \A q \in Handle :
             /\ openFile'[q] = None <=> openFile[q] = None
             /\ openFile[q] # None => openFile'[q].file = openFile[q].file
    BY <1>1, <1>6, OffsetMoves
  <2> QED
    BY <1>5, <2>1 DEF SameFiles
<1>8. AbstractOpen' = [AbstractOpen EXCEPT ![o].position = @ + 1]
  BY <1>1, <1>6, <1>7, AbstractMoves
<1>9. AbstractOpen[o] # None /\ AbstractOpen[o].position = p
  <2>1. AbstractOpen[o] # None /\ AbstractOpen[o] =
          [file |-> FileOf(o), position |-> openFile[o].currentOffset]
    BY <1>1, AbstractFacts DEF OpenHandles
  <2> QED
    BY <1>2, <2>1
<1>10. \E c \in Byte :
         /\ AbstractOpen[o] # None
         /\ Fs!U!WriteAt(o, c, AbstractOpen[o].position)
         /\ AbstractOpen' = [AbstractOpen EXCEPT ![o].position = @ + 1]
  BY <1>4, <1>8, <1>9
<1> QED
  BY <1>10 DEF Fs!U!Next, AbstractOpen

LEMMA FilesSimulates ==
  ASSUME Fs!StubFilesAssumption, FilesInv, FilesInv', [Fs!Next]_(Fs!vars)
  PROVE  [Fs!U!Next]_(Fs!U!vars)
<1>1. ASSUME NEW n \in Name, Fs!Create(n) PROVE Fs!U!Next
  BY <1>1, CreateSimulates DEF Fs!U!Next
<1>2. ASSUME NEW n \in Name, Fs!Remove(n) PROVE Fs!U!Next
  BY <1>2, RemoveSimulates DEF Fs!U!Next
<1>3. ASSUME NEW n \in Name, Fs!PrintFile(n) PROVE Fs!U!Next
  BY <1>3, PrintSimulates DEF Fs!U!Next
<1>4. ASSUME NEW n \in Name, NEW o \in Handle, Fs!Open(n, o) PROVE Fs!U!Next
  BY <1>4, OpenSimulates DEF Fs!U!Next
<1>5. ASSUME NEW o \in Handle, Fs!Delete(o) PROVE Fs!U!Next
  BY <1>5, DeleteSimulates DEF Fs!U!Next
<1>6. ASSUME NEW o \in Handle, Fs!Length(o) PROVE Fs!U!Next
  <2>1. o \in OpenHandles
    BY <1>6 DEF Fs!Length, OpenHandles
  <2> QED
    BY <1>6, <2>1, LengthSimulates DEF Fs!U!Next
<1>7. openFile \in [Handle -> [file : Descriptor, currentOffset : Nat]
                              \union {None}]
  BY DEF FilesInv, FilesTyped
<1>8. 0..MaxLength \subseteq Nat /\ MaxLength \in Nat /\ MaxLength \in 1..MaxLength
  BY DEF Fs!StubFilesAssumption
<1>9. ASSUME NEW o \in Handle, openFile[o] # None, NEW p \in 0..MaxLength,
             Fs!ReadAt(o, MaxLength, p), openFile' = openFile
      PROVE  Fs!U!Next
  <2>1. o \in OpenHandles /\ p \in Nat
    BY <1>8, <1>9 DEF OpenHandles
  <2>2. Fs!U!ReadAt(o, MaxLength, p)
    BY <1>8, <1>9, <2>1, ReadAtSimulates
  <2>3. OnlyMoved(unix', unix) /\ failed' = FALSE
    BY <1>8, <1>9, <2>1, ReadAtEffect
  <2>4. AbstractOpen' = AbstractOpen
    BY <1>7, <1>9, <2>3, MovedIsSame, AbstractUnchanged
  <2>5. \E q \in 0..MaxLength, k \in 1..MaxLength :
          Fs!U!ReadAt(o, k, q) /\ AbstractOpen' = AbstractOpen
    BY <1>8, <2>2, <2>4
  <2> QED
    BY <2>5 DEF Fs!U!Next, AbstractOpen
<1>10. ASSUME NEW o \in Handle, openFile[o] # None, NEW b \in Byte,
              NEW p \in 0..MaxLength, Fs!WriteAt(o, <<b>>, p), openFile' = openFile
       PROVE  Fs!U!Next
  <2>1. o \in OpenHandles /\ p \in Nat
    BY <1>8, <1>10 DEF OpenHandles
  <2>2. Fs!U!WriteAt(o, b, p)
    BY <1>10, <2>1, WriteAtSimulates
  <2>3. SameFiles
    <3>1. /\ unix' \in HostState /\ failed' = FALSE
          /\ \A d \in Descriptor :
               /\ unix'.fds[d] = None <=> unix.fds[d] = None
               /\ unix.fds[d] # None => unix'.fds[d].file = unix.fds[d].file
      BY <1>10, <2>1, WriteAtEffect
    <3> QED
      BY <1>7, <1>10, <3>1 DEF SameFiles
  <2>4. AbstractOpen' = AbstractOpen
    BY <1>10, <2>3, AbstractUnchanged
  <2>5. \E q \in 0..MaxLength, c \in Byte :
          Fs!U!WriteAt(o, c, q) /\ AbstractOpen' = AbstractOpen
    BY <2>2, <2>4
  <2> QED
    BY <2>5 DEF Fs!U!Next, AbstractOpen
<1>11. CASE UNCHANGED Fs!vars
  BY <1>11 DEF Fs!vars, Fs!U!vars
<1> QED
  BY <1>1, <1>2, <1>3, <1>4, <1>5, <1>6, <1>9, <1>10, <1>11,
     ReadSimulates, WriteSimulates DEF Fs!Next

LEMMA FilesInit ==
  ASSUME Fs!StubFilesAssumption, Fs!Init
  PROVE  FilesInv /\ Fs!U!Init
<1>1. /\ unix.names = [n \in Name |-> None]
      /\ unix.data = [f \in File |-> << >>]
      /\ unix.fds = [d \in Descriptor |-> None]
  BY DEF Fs!Init, Fs!EmptyHost
<1>2. unix \in HostState
  BY DEF Fs!Init, Fs!EmptyHost, HostState
<1>3. FilesTyped
  BY <1>2 DEF Fs!Init, FilesTyped
<1>4. OpenHandles = {} /\ Fs!Opened(unix) = {}
  BY <1>1 DEF OpenHandles, Fs!Opened, Fs!Init
<1>5. UnusedEmpty
  BY <1>1 DEF UnusedEmpty
<1>6. Fs!U!Init
  BY <1>1 DEF Fs!U!Init, Fs!Init
<1> QED
  BY <1>3, <1>4, <1>5, <1>6 DEF FilesInv, DescriptorsOwned

-----------------------------------------------------------------------------
(* A step of the machine is one of the files or leaves them alone. *)
LEMMA FilesStep ==
  ASSUME [MachineNext]_<<part, processor, vars, loader, files>>
  PROVE  [Fs!Next]_(Fs!vars)
<1>1. UNCHANGED files => UNCHANGED Fs!vars
  BY DEF files, Fs!vars
<1> QED
  BY <1>1 DEF MachineNext

(* Every open file has a descriptor of its own, every descriptor that is   *)
(* open belongs to an open file (Create, Print and ~OpenFile close theirs) *)
(* and a file without a name and without a descriptor has no data.         *)
THEOREM DescriptorsKept == MachineSpec => []FilesInv
<1>1. MachineInit => FilesInv
  BY FilesInit, StubFilesAssumed DEF MachineInit
<1>2. FilesInv /\ [MachineNext]_<<part, processor, vars, loader, files>>
        => FilesInv'
  BY FilesNextInv, StubFilesAssumed, FilesStep
<1> QED
  BY <1>1, <1>2, PTL DEF MachineSpec

(* FileSystem and OpenFile on the host implement the files of UnixFiles: a *)
(* position of its own for every open file, data as long as a name or an   *)
(* open file leads to them; and no ASSERT of lib/sysdep.cc fails.          *)
THEOREM StubIsUnixFiles == MachineSpec => ImplementsUnixFiles
<1>1. MachineInit => Fs!U!Init
  BY FilesInit, StubFilesAssumed DEF MachineInit
<1>2. FilesInv /\ FilesInv' /\ [MachineNext]_<<part, processor, vars, loader, files>>
        => [Fs!U!Next]_(Fs!U!vars)
  BY FilesSimulates, StubFilesAssumed, FilesStep
<1>3. FilesInv => ~failed
  BY DEF FilesInv, FilesTyped
<1> QED
  BY <1>1, <1>2, <1>3, DescriptorsKept, PTL
  DEF MachineSpec, Fs!U!Spec, Fs!ImplementsUnixFiles, ImplementsUnixFiles
=============================================================================
