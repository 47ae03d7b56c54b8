------------------------------- MODULE DriverLock -------------------------------
(***************************************************************************)
(* The lock of one batch name, src/cluster/driver.py: run_batch() runs the *)
(* loop under an O_EXCL lock file that carries the owner's pid and process *)
(* create time, so that a launch can tell a running driver from a lock     *)
(* left by a crash, even when another process has the dead driver's pid.   *)
(* Each system call on the file is a step; a process dies between any two. *)
(***************************************************************************)
EXTENDS Naturals

CONSTANT Drivers    \* processes that call run_batch() for this batch name

VARIABLES
    text,     \* the lock file: "none", "torn" (empty), or its JSON "dated" or not
    owner,    \* the process that created it ({} if it is dead)
    pc,       \* what each process is about to do
    tries,    \* iteration of the acquisition's loop
    company,  \* history: another process was active during this acquisition
    doubt,    \* history: the lock's pid had a process that could not be told apart
    overlap   \* history: two acquisitions have been under way at once

vars == <<text, owner, pc, tries, company, doubt, overlap>>

Acquiring == {"create", "write", "read", "break"}
Active(d) == pc[d] \in Acquiring \cup {"drive"}

Go(d, step) == pc' = [pc EXCEPT ![d] = step]

\* What a process finds under the pid in the lock: the owner, or, when that is
\* dead, nothing, itself, a foreign process or another batch's driver; or a
\* process it may not inspect.
PidUses == IF owner # {} THEN {"owner", "hidden"}
           ELSE {"free", "mine", "other", "driver", "hidden"}

\* The recorded create time tells the owner from any other process.  Without
\* one, every driver's command line looks like the owner's.
Ambiguous(use) == use = "hidden" \/ (use = "driver" /\ text = "undated")

SeenAlive(use) == use = "owner"     \* mutant: what cannot be inspected is dead

\* _lock_owner_is_live_driver: every ambiguity resolves to "owned".
OwnerIsLive(use) == use = "owner" \/ Ambiguous(use)

\* On Windows an unlink fails while another process holds the file open.
HeldOpen == \E d \in owner : pc[d] = "write"

Unlink == text' = "none" /\ owner' = {}

--------------------------------------------------------------------------------
(***************************************************************************)
(* _acquire_driver_lock.                                                   *)
(***************************************************************************)

Launch(d) ==
    /\ pc[d] \in {"idle", "refused"}
    /\ Go(d, "create")
    /\ tries'   = [tries EXCEPT ![d] = 1]
    /\ doubt'   = [doubt EXCEPT ![d] = FALSE]
    /\ company' = [e \in Drivers |->
                     IF e = d THEN \E x \in Drivers \ {d} : Active(x)
                     ELSE company[e] \/ pc[e] \in Acquiring]
    /\ overlap' = (overlap \/ \E e \in Drivers : pc[e] \in Acquiring)
    /\ UNCHANGED <<text, owner>>

\* open(O_CREAT | O_EXCL): the file is there, and empty.
Create(d) ==
    /\ pc[d] = "create"
    /\ \/ text = "none" /\ text' = "torn" /\ owner' = {d} /\ Go(d, "write")
       \/ text # "none" /\ Go(d, "read") /\ UNCHANGED <<text, owner>>
    /\ UNCHANGED <<tries, company, doubt, overlap>>

\* json.dump and close: the write goes to the file this process created, which
\* may no longer be the one of that name.
Write(d) ==
    /\ pc[d] = "write"
    /\ text' \in IF owner = {d} THEN {"dated", "undated"} ELSE {text}
    /\ Go(d, "drive")
    /\ UNCHANGED <<owner, tries, company, doubt, overlap>>

\* Read the lock and judge its owner.  One that cannot be read is stale.
Read(d) ==
    /\ pc[d] = "read"
    /\ \/ text \in {"none", "torn"} /\ Go(d, "break") /\ UNCHANGED doubt
       \/ /\ text \in {"dated", "undated"}
          /\ \E use \in PidUses :
                /\ Go(d, IF OwnerIsLive(use) THEN "refused" ELSE "break")
                /\ doubt' = [doubt EXCEPT ![d] = @ \/ Ambiguous(use)]
    /\ UNCHANGED <<text, owner, tries, company, overlap>>

\* Mutant: the stale lock is broken, and there is no second attempt.
BreakOnce(d) ==
    /\ pc[d] = "break"
    /\ Unlink
    /\ Go(d, "refused")
    /\ UNCHANGED <<tries, company, doubt, overlap>>

\* Mutant: the attempts are not counted.
BreakAgain(d) ==
    /\ pc[d] = "break"
    /\ \/ HeldOpen /\ Go(d, "refused") /\ UNCHANGED <<text, owner>>
       \/ Unlink /\ Go(d, "create")
    /\ UNCHANGED <<tries, company, doubt, overlap>>

\* Unlink whatever has the lock's name now, and try again once.
Break(d) ==
    /\ pc[d] = "break"
    /\ \/ HeldOpen /\ Go(d, "refused") /\ UNCHANGED <<text, owner, tries>>
       \/ /\ Unlink
          /\ \/ tries[d] < 2 /\ Go(d, "create") /\ tries' = [tries EXCEPT ![d] = @ + 1]
             \/ tries[d] = 2 /\ Go(d, "refused") /\ UNCHANGED tries
    /\ UNCHANGED <<company, doubt, overlap>>

--------------------------------------------------------------------------------
(***************************************************************************)
(* run_batch's finally clause, and the death of a process.                 *)
(***************************************************************************)

\* The loop returned or raised: unlink whatever has the lock's name.
Release(d) ==
    /\ pc[d] = "drive"
    /\ Go(d, "idle")
    /\ \/ HeldOpen /\ UNCHANGED <<text, owner>>
       \/ Unlink
    /\ UNCHANGED <<tries, company, doubt, overlap>>

\* The process is killed: its lock stays.
Crash(d) ==
    /\ Active(d)
    /\ Go(d, "idle")
    /\ owner' = owner \ {d}
    /\ UNCHANGED <<text, tries, company, doubt, overlap>>

--------------------------------------------------------------------------------
Init ==
    /\ text = "none" /\ owner = {}
    /\ pc = [d \in Drivers |-> "idle"]
    /\ tries = [d \in Drivers |-> 1]
    /\ company = [d \in Drivers |-> FALSE]
    /\ doubt = [d \in Drivers |-> FALSE]
    /\ overlap = FALSE

Acquires(d) == Create(d) \/ Write(d) \/ Read(d) \/ Break(d)

Next == \E d \in Drivers : Launch(d) \/ Acquires(d) \/ Release(d) \/ Crash(d)

Spec == Init /\ [][Next]_vars

\* The acquisition waits for nobody: the operating system runs a process that is
\* in it.  Nobody need launch a driver, end a loop or die.
Fairness == \A d \in Drivers : WF_vars(Acquires(d))

FairSpec == Spec /\ Fairness

--------------------------------------------------------------------------------
(***************************************************************************)
(* Properties.                                                             *)
(***************************************************************************)

\* Every variable has the type the code gives it; the file has one creator.
TypeOK ==
    /\ text \in {"none", "torn", "dated", "undated"}
    /\ owner = {} \/ \E d \in Drivers : owner = {d}
    /\ pc \in [Drivers -> Acquiring \cup {"idle", "drive", "refused"}]
    /\ tries \in [Drivers -> 1 .. 2]
    /\ company \in [Drivers -> BOOLEAN]
    /\ doubt \in [Drivers -> BOOLEAN]
    /\ overlap \in BOOLEAN

\* One driver per batch name, whatever crashed before: while no two launches
\* ever overlapped, two processes never run the loop of the batch at once.
OneAtATime == \A d, e \in Drivers : pc[d] = "drive" /\ pc[e] = "drive" => d = e

OneDriverIfSerial == ~overlap => OneAtATime

\* The docstring, of any launches: one driver per batch name.
OneDriver == OneAtATime

\* Crash-resume stays one command: a launch is refused only if another process
\* launched or drove during it, or a pid could not be told from the owner's.
\* A dead driver, a torn lock or a recycled pid never takes a manual cleanup.
RefusedForCause ==
    [][\A d \in Drivers :
        pc[d] # "refused" /\ pc'[d] = "refused" => company[d] \/ doubt'[d]]_vars

\* A launch drives or is refused, whatever the other processes do to the file: those
\* that create, break and abandon locks under it cannot hold it in the acquisition.
Ends(d) == pc[d] \in Acquiring ~> pc[d] \notin Acquiring

LaunchEnds == \A d \in Drivers : Ends(d)

================================================================================
