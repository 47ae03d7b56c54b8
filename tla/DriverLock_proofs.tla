--------------------------- MODULE DriverLock_proofs ---------------------------
(***************************************************************************)
(* Theorems of DriverLock, for any number of processes.                    *)
(***************************************************************************)
EXTENDS DriverLock, TLAPS

\* The file's creator is alive and past its creation.
OwnerInv == \A d \in owner : pc[d] \in {"write", "drive"}

\* While launches do not overlap, a driver's lock stands until it is released,
\* and only the lock of a dead process is about to be broken.
SerialInv ==
    /\ \A d, e \in Drivers : pc[d] \in Acquiring /\ pc[e] \in Acquiring => d = e
    /\ \A d \in Drivers : pc[d] = "drive" => owner = {d} /\ text \in {"dated", "undated"}
    /\ \A d \in Drivers : pc[d] = "write" => owner = {d} /\ text = "torn"
    /\ \A d \in Drivers : pc[d] = "break" => owner = {}

\* A launch without company is alone, and its second attempt finds no file.
Alone(d) ==
    /\ \A e \in Drivers \ {d} : pc[e] \in {"idle", "refused"}
    /\ pc[d] \in {"read", "break"} => tries[d] = 1
    /\ pc[d] = "create" /\ tries[d] # 1 => text = "none"

AloneInv == \A d \in Drivers : pc[d] \in Acquiring /\ ~company[d] => Alone(d)

IInv == TypeOK /\ OwnerInv /\ (~overlap => SerialInv) /\ AloneInv

--------------------------------------------------------------------------------
LEMMA InitIInv == Init => IInv
<1> SUFFICES ASSUME Init PROVE IInv
  OBVIOUS
<1> USE DEF Init, Acquiring
<1>1. /\ company \in [Drivers -> BOOLEAN]
      /\ doubt \in [Drivers -> BOOLEAN]
      /\ overlap \in BOOLEAN
  OBVIOUS
<1>2. /\ pc \in [Drivers -> Acquiring \cup {"idle", "drive", "refused"}]
      /\ tries \in [Drivers -> 1 .. 2]
  OBVIOUS
<1>3. OwnerInv /\ SerialInv /\ AloneInv
  BY DEF OwnerInv, SerialInv, AloneInv
<1> QED  BY <1>1, <1>2, <1>3 DEF IInv, TypeOK

LEMMA NextType ==
  ASSUME TypeOK, [Next]_vars
  PROVE  TypeOK'
<1> USE DEF TypeOK, Acquiring, Go, Unlink
<1>1. ASSUME NEW d \in Drivers, Launch(d)
      PROVE  TypeOK'
  <2>1. /\ company' \in [Drivers -> BOOLEAN]
        /\ doubt' \in [Drivers -> BOOLEAN]
        /\ overlap' \in BOOLEAN
    BY <1>1, Zenon DEF Launch, Active
  <2>2. /\ pc' \in [Drivers -> Acquiring \cup {"idle", "drive", "refused"}]
        /\ tries' \in [Drivers -> 1 .. 2]
        /\ UNCHANGED <<text, owner>>
    BY <1>1 DEF Launch
  <2> QED  BY <2>1, <2>2
<1>2. ASSUME NEW d \in Drivers, Create(d)
      PROVE  TypeOK'
  BY <1>2 DEF Create
<1>3. ASSUME NEW d \in Drivers, Write(d)
      PROVE  TypeOK'
  BY <1>3 DEF Write
<1>4. ASSUME NEW d \in Drivers, Read(d)
      PROVE  TypeOK'
  <2>1. doubt' \in [Drivers -> BOOLEAN]
    BY <1>4 DEF Read, Ambiguous
  <2>2. pc' \in [Drivers -> Acquiring \cup {"idle", "drive", "refused"}]
    BY <1>4 DEF Read
  <2> QED  BY <1>4, <2>1, <2>2 DEF Read
<1>5. ASSUME NEW d \in Drivers, Break(d)
      PROVE  TypeOK'
  BY <1>5 DEF Break
<1>6. ASSUME NEW d \in Drivers, Release(d) \/ Crash(d)
      PROVE  TypeOK'
  BY <1>6 DEF Release, Crash
<1>7. CASE UNCHANGED vars
  BY <1>7 DEF vars
<1> QED  BY <1>1, <1>2, <1>3, <1>4, <1>5, <1>6, <1>7 DEF Next, Acquires

LEMMA NextOwner ==
  ASSUME TypeOK, OwnerInv, [Next]_vars
  PROVE  OwnerInv'
<1> USE DEF TypeOK, OwnerInv, Acquiring, Go, Unlink
<1>1. ASSUME NEW d \in Drivers, Launch(d)
      PROVE  OwnerInv'
  BY <1>1 DEF Launch
<1>2. ASSUME NEW d \in Drivers, Create(d) \/ Write(d)
      PROVE  OwnerInv'
  BY <1>2 DEF Create, Write
<1>3. ASSUME NEW d \in Drivers, Read(d)
      PROVE  OwnerInv'
  BY <1>3 DEF Read
<1>4. ASSUME NEW d \in Drivers, Break(d)
      PROVE  OwnerInv'
  BY <1>4 DEF Break, HeldOpen
<1>5. ASSUME NEW d \in Drivers, Release(d) \/ Crash(d)
      PROVE  OwnerInv'
  BY <1>5 DEF Release, HeldOpen, Crash, Active
<1>6. CASE UNCHANGED vars
  BY <1>6 DEF vars
<1> QED  BY <1>1, <1>2, <1>3, <1>4, <1>5, <1>6 DEF Next, Acquires

\* A process that reads the lock of a live driver is refused.
LEMMA LiveIsOwned ==
  ASSUME owner # {}, NEW use \in PidUses
  PROVE  OwnerIsLive(use)
BY DEF PidUses, OwnerIsLive, Ambiguous

LEMMA NextSerial ==
  ASSUME TypeOK, OwnerInv, ~overlap => SerialInv, [Next]_vars
  PROVE  ~overlap' => SerialInv'
<1> SUFFICES ASSUME ~overlap' PROVE SerialInv'
  OBVIOUS
<1>0. ~overlap
  BY DEF Next, Acquires, Launch, Create, Write, Read, Break, Release, Crash, vars, TypeOK
<1> USE <1>0 DEF TypeOK, SerialInv, Acquiring, Go, Unlink
<1>1. ASSUME NEW d \in Drivers, Launch(d)
      PROVE  SerialInv'
  <2>1. \A e \in Drivers : pc[e] \notin Acquiring
    BY <1>1 DEF Launch
  <2> QED  BY <1>1, <2>1 DEF Launch
<1>2. ASSUME NEW d \in Drivers, Create(d)
      PROVE  SerialInv'
  BY <1>2 DEF Create
<1>3. ASSUME NEW d \in Drivers, Write(d)
      PROVE  SerialInv'
  BY <1>3 DEF Write
<1>4. ASSUME NEW d \in Drivers, Read(d)
      PROVE  SerialInv'
  <2>1. pc'[d] = "break" => owner = {}
    <3>1. CASE text \in {"none", "torn"}
      BY <1>4, <3>1 DEF Read, OwnerInv
    <3>2. CASE text \in {"dated", "undated"}
      BY <1>4, <3>2, LiveIsOwned DEF Read
    <3> QED  BY <3>1, <3>2
  <2>2. pc' = [pc EXCEPT ![d] = "break"] \/ pc' = [pc EXCEPT ![d] = "refused"]
    BY <1>4 DEF Read
  <2> QED  BY <1>4, <2>1, <2>2 DEF Read
<1>5. ASSUME NEW d \in Drivers, Break(d)
      PROVE  SerialInv'
  BY <1>5 DEF Break, HeldOpen
<1>6. ASSUME NEW d \in Drivers, Release(d)
      PROVE  SerialInv'
  BY <1>6 DEF Release, HeldOpen
<1>7. ASSUME NEW d \in Drivers, Crash(d)
      PROVE  SerialInv'
  BY <1>7 DEF Crash, Active
<1>8. CASE UNCHANGED vars
  BY <1>8 DEF vars
<1> QED  BY <1>1, <1>2, <1>3, <1>4, <1>5, <1>6, <1>7, <1>8 DEF Next, Acquires

LEMMA NextAlone ==
  ASSUME TypeOK, OwnerInv, AloneInv, [Next]_vars
  PROVE  AloneInv'
<1> USE DEF TypeOK, AloneInv, Alone, Acquiring, Go, Unlink
<1>1. ASSUME NEW d \in Drivers, Launch(d)
      PROVE  AloneInv'
  BY <1>1 DEF Launch, Active
<1>2. ASSUME NEW d \in Drivers, Create(d)
      PROVE  AloneInv'
  BY <1>2 DEF Create
<1>3. ASSUME NEW d \in Drivers, Write(d)
      PROVE  AloneInv'
  BY <1>3 DEF Write
<1>4. ASSUME NEW d \in Drivers, Read(d)
      PROVE  AloneInv'
  <2>1. pc' = [pc EXCEPT ![d] = "break"] \/ pc' = [pc EXCEPT ![d] = "refused"]
    BY <1>4 DEF Read
  <2> QED  BY <1>4, <2>1 DEF Read
<1>5. ASSUME NEW d \in Drivers, Break(d)
      PROVE  AloneInv'
  BY <1>5 DEF Break, HeldOpen
<1>6. ASSUME NEW d \in Drivers, Release(d) \/ Crash(d)
      PROVE  AloneInv'
  BY <1>6 DEF Release, HeldOpen, Crash, Active
<1>7. CASE UNCHANGED vars
  BY <1>7 DEF vars
<1> QED  BY <1>1, <1>2, <1>3, <1>4, <1>5, <1>6, <1>7 DEF Next, Acquires

LEMMA NextIInv == IInv /\ [Next]_vars => IInv'
BY NextType, NextOwner, NextSerial, NextAlone DEF IInv

\* The inductive invariant holds of every state.
THEOREM Inductive == Spec => []IInv
  BY InitIInv, NextIInv, PTL DEF Spec

\* While launches do not overlap, at most one process runs the loop of the
\* batch, whatever crashed and whatever pids were reused.
THEOREM OneDriverWhenSerial == Spec => []OneDriverIfSerial
<1>1. IInv => OneDriverIfSerial
  <2> SUFFICES ASSUME IInv, ~overlap, NEW d \in Drivers, NEW e \in Drivers,
                      pc[d] = "drive", pc[e] = "drive"
               PROVE  d = e
    BY DEF OneDriverIfSerial, OneAtATime
  <2>1. owner = {d} /\ owner = {e}
    BY DEF IInv, SerialInv
  <2> QED  BY <2>1
<1> QED  BY <1>1, Inductive, PTL

\* No manual cleanup after a crash: a launch is refused only when another
\* process was active during it or a pid could not be told from the owner's.
THEOREM CleanRelaunch == Spec => RefusedForCause
<1>1. ASSUME IInv, [Next]_vars
      PROVE  [\A d \in Drivers : pc[d] # "refused" /\ pc'[d] = "refused"
                                 => company[d] \/ doubt'[d]]_vars
  <2> SUFFICES ASSUME NEW d \in Drivers, pc[d] # "refused", pc'[d] = "refused",
                      ~company[d]
               PROVE  doubt'[d]
    OBVIOUS
  <2> TypeOK /\ OwnerInv /\ AloneInv
    BY <1>1 DEF IInv
  <2> USE DEF TypeOK, Go
  <2>1. Read(d) \/ Break(d)
    <3>1. Next
      BY <1>1 DEF vars
    <3>2. PICK e \in Drivers : \/ Launch(e) \/ Create(e) \/ Write(e) \/ Read(e)
                              \/ Break(e) \/ Release(e) \/ Crash(e)
      BY <3>1 DEF Next, Acquires
    <3>3. \E step : pc' = [pc EXCEPT ![e] = step]
      BY <3>2 DEF Launch, Create, Write, Read, Break, Release, Crash
    <3>4. e = d
      BY <3>3
    <3> QED  BY <3>2, <3>4 DEF Launch, Create, Write, Release, Crash
  <2>2. Alone(d)
    BY <2>1 DEF Read, Break, AloneInv, Acquiring
  <2>3. owner = {}
    BY <2>1, <2>2 DEF OwnerInv, Alone, Read, Break
  <2>4. CASE Break(d)
    BY <2>2, <2>3, <2>4 DEF Break, HeldOpen, Alone
  <2>5. CASE Read(d)
    <3>1. PICK use \in PidUses :
            /\ pc' = [pc EXCEPT ![d] = IF OwnerIsLive(use) THEN "refused" ELSE "break"]
            /\ doubt' = [doubt EXCEPT ![d] = @ \/ Ambiguous(use)]
      BY <2>5 DEF Read
    <3>2. OwnerIsLive(use)
      BY <3>1
    <3>3. Ambiguous(use)
      BY <2>3, <3>2 DEF OwnerIsLive, PidUses
    <3> QED  BY <3>1, <3>3
  <2> QED  BY <2>1, <2>4, <2>5
<1> QED  BY <1>1, Inductive, PTL DEF Spec, RefusedForCause

--------------------------------------------------------------------------------
(***************************************************************************)
(* Every launch ends.                                                      *)
(***************************************************************************)

\* How far d is from the end of its acquisition, in steps at most: 0 once it drives,
\* is refused or is dead.
Left(d) ==
    CASE pc[d] = "create" -> IF tries[d] = 1 THEN 6 ELSE 3
      [] pc[d] = "read"   -> IF tries[d] = 1 THEN 5 ELSE 2
      [] pc[d] = "break"  -> IF tries[d] = 1 THEN 4 ELSE 1
      [] pc[d] = "write"  -> 1
      [] OTHER            -> 0

LEMMA LeftType ==
  ASSUME TypeOK, NEW d \in Drivers
  PROVE  Left(d) \in 0 .. 6 /\ (Left(d) = 0 <=> pc[d] \notin Acquiring)
BY DEF TypeOK, Left, Acquiring

LEMMA LeftTypeNext ==
  ASSUME TypeOK, [Next]_vars, NEW d \in Drivers
  PROVE  Left(d)' \in 0 .. 6
<1>1. TypeOK'
  BY NextType
<1> QED  BY <1>1 DEF TypeOK, Left, Acquiring

\* A step of d brings it nearer, and a step of another process leaves it where it is.
LEMMA LeftFalls ==
  ASSUME TypeOK, [Next]_vars, NEW d \in Drivers, pc[d] \in Acquiring
  PROVE  /\ Left(d)' <= Left(d)
         /\ <<Acquires(d)>>_vars => Left(d)' < Left(d)
<1> USE DEF TypeOK, Acquiring, Go
<1>1. ASSUME Acquires(d)
      PROVE  Left(d)' < Left(d)
  <2>1. CASE Create(d)
    BY <2>1 DEF Create, Left
  <2>2. CASE Write(d)
    BY <2>2 DEF Write, Left
  <2>3. CASE Read(d)
    <3>1. pc[d] = "read" /\ tries' = tries /\ pc'[d] \in {"break", "refused"}
      BY <2>3 DEF Read
    <3> QED  BY <3>1 DEF Left
  <2>4. CASE Break(d)
    BY <2>4 DEF Break, Left
  <2> QED  BY <1>1, <2>1, <2>2, <2>3, <2>4 DEF Acquires
<1>2. ASSUME NEW e \in Drivers \ {d}, Launch(e) \/ Acquires(e) \/ Release(e) \/ Crash(e)
      PROVE  pc'[d] = pc[d] /\ tries'[d] = tries[d]
  <2>1. /\ \E step : pc' = [pc EXCEPT ![e] = step]
        /\ tries' = tries \/ \E n : tries' = [tries EXCEPT ![e] = n]
    BY <1>2 DEF Launch, Acquires, Create, Write, Read, Break, Release, Crash
  <2> QED  BY <2>1
<1>3. ASSUME Launch(d) \/ Release(d)
      PROVE  FALSE
  BY <1>3 DEF Launch, Release
<1>4. ASSUME Crash(d)
      PROVE  Left(d)' = 0
  BY <1>4 DEF Crash, Left
<1>5. Left(d) \in 1 .. 6 /\ Left(d)' \in 0 .. 6
  BY LeftType, LeftTypeNext
<1>6. CASE \E e \in Drivers \ {d} : Launch(e) \/ Acquires(e) \/ Release(e) \/ Crash(e)
  BY <1>1, <1>2, <1>5, <1>6 DEF Left
<1>7. CASE UNCHANGED vars
  BY <1>1, <1>5, <1>7 DEF vars, Left
<1>8. CASE Launch(d) \/ Acquires(d) \/ Release(d) \/ Crash(d)
  BY <1>1, <1>3, <1>4, <1>5, <1>8
<1> QED  BY <1>6, <1>7, <1>8 DEF Next

\* WF_vars(Acquires(d)), with ENABLED <<Acquires(d)>>_vars spelled out: a process in the
\* acquisition can always step.
Scheduled(d) == []<>(pc[d] \notin Acquiring) \/ []<><<Acquires(d)>>_vars

LEMMA ThisLaunchEnds ==
  ASSUME NEW d \in Drivers
  PROVE  Spec /\ Scheduled(d) => Ends(d)
<1>1. ASSUME TypeOK, [Next]_vars, NEW n \in 1 .. 6, Left(d) = n
      PROVE  /\ Left(d)' \in 0 .. n
             /\ <<Acquires(d)>>_vars => Left(d)' \in 0 .. n - 1
  <2>1. pc[d] \in Acquiring
    BY <1>1, LeftType
  <2>2. Left(d)' \in 0 .. 6
    BY <1>1, LeftTypeNext
  <2> QED  BY <1>1, <2>1, <2>2, LeftFalls
<1>2. TypeOK => (pc[d] \in Acquiring <=> Left(d) # 0) /\ Left(d) \in 0 .. 6
  BY LeftType
<1> DEFINE L0 == Left(d) = 0
           L1 == Left(d) = 1
           L2 == Left(d) = 2
           L3 == Left(d) = 3
           L4 == Left(d) = 4
           L5 == Left(d) = 5
           L6 == Left(d) = 6
<1>3. TypeOK => (pc[d] \in Acquiring <=> ~L0) /\ (L0 \/ L1 \/ L2 \/ L3 \/ L4 \/ L5 \/ L6)
  BY <1>2
<1>4. TypeOK /\ [Next]_vars /\ L6 =>
        (L0 \/ L1 \/ L2 \/ L3 \/ L4 \/ L5 \/ L6)'
        /\ (<<Acquires(d)>>_vars => (L0 \/ L1 \/ L2 \/ L3 \/ L4 \/ L5)')
  BY <1>1
<1>5. TypeOK /\ [Next]_vars /\ L5 =>
        (L0 \/ L1 \/ L2 \/ L3 \/ L4 \/ L5)'
        /\ (<<Acquires(d)>>_vars => (L0 \/ L1 \/ L2 \/ L3 \/ L4)')
  BY <1>1
<1>6. TypeOK /\ [Next]_vars /\ L4 =>
        (L0 \/ L1 \/ L2 \/ L3 \/ L4)' /\ (<<Acquires(d)>>_vars => (L0 \/ L1 \/ L2 \/ L3)')
  BY <1>1
<1>7. TypeOK /\ [Next]_vars /\ L3 =>
        (L0 \/ L1 \/ L2 \/ L3)' /\ (<<Acquires(d)>>_vars => (L0 \/ L1 \/ L2)')
  BY <1>1
<1>8. TypeOK /\ [Next]_vars /\ L2 =>
        (L0 \/ L1 \/ L2)' /\ (<<Acquires(d)>>_vars => (L0 \/ L1)')
  BY <1>1
<1>9. TypeOK /\ [Next]_vars /\ L1 => (L0 \/ L1)' /\ (<<Acquires(d)>>_vars => L0')
  BY <1>1
<1>10. Spec => []TypeOK
  <2>1. IInv => TypeOK
    BY DEF IInv
  <2> QED  BY <2>1, Inductive, PTL
<1>11. pc[d] \notin Acquiring <=> ~(pc[d] \in Acquiring)
  OBVIOUS
<1> QED  BY <1>3, <1>4, <1>5, <1>6, <1>7, <1>8, <1>9, <1>10, <1>11, PTL DEF Spec, Scheduled, Ends

\* A launch is wait-free: whatever locks the other processes create, break, leave behind
\* or write under it, it drives or is refused after at most six steps of its own.
THEOREM LaunchesEnd == Spec /\ (\A d \in Drivers : Scheduled(d)) => LaunchEnds
<1>1. \A d \in Drivers : Spec /\ Scheduled(d) => Ends(d)
  BY ThisLaunchEnds
<1> QED  BY <1>1 DEF LaunchEnds
================================================================================
